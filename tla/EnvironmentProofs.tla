------------------------- MODULE EnvironmentProofs -------------------------
(***************************************************************************)
(* The environment and the action policies: types, what the working image  *)
(* has to do with the device, what a finished episode has installed, and   *)
(* what a legacy plan keeps recoverable; for any agent, images and         *)
(* configuration.                                                          *)
(***************************************************************************)
EXTENDS Policies, DeploymentProofs

-----------------------------------------------------------------------------
(* __init__ and reset read both images from files.                         *)
ImagesRead == AsRead(Expected) /\ \A old \in InitialImages : AsRead(old)

(* The blocks that an image may have: those of the old and the new one.    *)
Most == Len(snapshot) + Len(Expected)

BoundInv ==
  /\ snapshot \in InitialImages
  /\ Fits(installed) /\ Len(installed) <= Most
  /\ SavedFit(backups) /\ \A id \in DOMAIN backups : backups[id].index < Most

Between == pc \in {"backup", "modify"}

FrameInv ==
  /\ working \in Image
  /\ remaining \subseteq 0 .. Len(Expected) - 1
  /\ \A i \in DOMAIN idOf : i \in Nat /\ idOf[i] \in BackupId
  /\ steps \in 0 .. MaxSteps
  /\ pc \in {"choose", "backup", "modify", "finish", "complete", "done", "raised"}
  /\ actions \in ActionSets
  /\ pc = "finish" => remaining = {}
  /\ Between => /\ steps < MaxSteps
                /\ current.target \in 0 .. Len(Expected) - 1
                /\ current.saves \in BOOLEAN /\ current.block \in Block

EnvTypeInv == TypeInv /\ BoundInv /\ FrameInv

-----------------------------------------------------------------------------
(* Legacy agents.                                                          *)
LegacyHandled == LegacyAgent /\ Len(Expected) <= Len(snapshot)

Working == pc \in {"choose", "backup", "modify", "finish"}
Pending(t) == t \in remaining \/ (Between /\ t = current.target)

(* The numbers of the backups there are.                                   *)
Numbered == steps + (IF pc = "modify" /\ current.saves THEN 1 ELSE 0)

Tracked ==
  /\ Len(installed) = Len(snapshot) /\ Len(installed) <= Len(working)
  /\ \A i \in 1 .. Len(installed) : working[i] = installed[i]
  /\ \A i \in Len(installed) .. Len(working) - 1 :
       /\ i \in DOMAIN idOf /\ idOf[i] \in DOMAIN backups
       /\ backups[idOf[i]].block = working[i + 1]
  /\ \A i \in DOMAIN idOf : i >= Len(installed) /\ i < Len(working)
  /\ \A id \in DOMAIN backups : id[1] \in 1 .. Numbered

Saving ==
  /\ Between => current.target \notin remaining
  /\ pc = "backup" => current.saves
  /\ Between /\ current.saves => current.block = working[current.target + 1]
  /\ pc = "modify" /\ current.saves =>
       /\ DefaultBackupId(current.target) \in DOMAIN backups
       /\ backups[DefaultBackupId(current.target)].block = current.block
       /\ backups[DefaultBackupId(current.target)].index = current.target

Processed ==
  /\ \A t \in 0 .. Len(Expected) - 1 : ~Pending(t) => installed[t + 1] = Target(t)
  /\ \A t \in 0 .. Len(snapshot) - 1 :
       Pending(t) \/ t >= Len(Expected) => installed[t + 1] = snapshot[t + 1]

OldSaved ==
  \A id \in DOMAIN backups :
    /\ backups[id].index < Len(snapshot)
    /\ backups[id].block = snapshot[backups[id].index + 1]

OldKept == RequireBackup /\ rollbackReady => Protected(installed, backups)

LegacyInv ==
  LegacyHandled =>
    /\ pc # "raised"
    /\ Working => Tracked /\ Saving /\ Processed
    /\ pc # "done" => errors = {} /\ installState \in {"ready", "installing"}
    /\ OldSaved /\ OldKept

-----------------------------------------------------------------------------
(* Agents of structured actions.                                           *)
Structured == actions \cap Legacy = {}

(* The new image fits a slot.                                              *)
SlotFits == EnableAB /\ InactiveInstall => ~Exceeds(ImageBytes(Expected), SlotCapacity)

(* ... and boots.                                                          *)
Activates == EnableAB => SlotFits /\ Healthy

MirrorInv ==
  Structured =>
    /\ pc \notin {"backup", "modify"}
    /\ pc = "choose" => working = installed /\ errors = {} /\ Running
    /\ SlotFits => pc # "raised" /\ (pc = "finish" => Running)

(* Every block in front of the last one of the new image is full, or the   *)
(* image is not longer and its last block, if it is there, is the new one. *)
Shape ==
  \/ Len(installed) >= Len(Expected) /\ FullUntil(installed, Len(Expected))
  \/ /\ Len(installed) <= Len(Expected)
     /\ Len(installed) = Len(Expected) => Len(Expected) - 1 \notin remaining

(* The blocks of the targets done with are in place.                       *)
Placed ==
  \A t \in 0 .. Len(Expected) - 1 :
    t \notin remaining => t + 1 \in DOMAIN installed /\ installed[t + 1] = Target(t)

TargetInFront == Take(BlocksToBytes(installed), ImageBytes(Expected)) = BlocksToBytes(Expected)

Advancing == Structured /\ "rollback" \notin actions /\ Activates

ProgressInv ==
  Advancing =>
    /\ pc \in {"choose", "finish", "complete"} =>
         errors = {} /\ installState \in {"ready", "installing", "complete"}
    /\ pc = "choose" => Shape /\ Placed
    /\ pc = "finish" => TargetInFront

EndInv ==
  Handled /\ "rollback" \notin actions /\ Activates =>
    /\ pc = "complete" => Transformed
    /\ pc = "done" => Transformed /\ installState = "complete"

-----------------------------------------------------------------------------
(* The operations the environment records: what they write is the block of *)
(* their target in the new image.                                          *)
Writes == {"copy", "delta", "raw_insert", "append"}

EnvOp(op) ==
  /\ op \in Operation
  /\ op.op \in Writes => op.target \in 0 .. Len(Expected) - 1
  /\ op.op = "copy" => op.hash = Target(op.target)
  /\ op.op = "delta" => op.result = Target(op.target)
  /\ op.op \in {"raw_insert", "append"} => op.data = Target(op.target)
  /\ op.op = "truncate" => op.unit = "bytes"

LEMMA ExpectedType ==
  /\ Expected \in Image /\ Len(Expected) \in Nat
  /\ \A t \in 0 .. Len(Expected) - 1 : Target(t) \in Block
<1>1. Expected \in Image  BY EnvironmentAssumption, DeploymentAssumption
<1>2. \A t \in 0 .. Len(Expected) - 1 : t + 1 \in 1 .. Len(Expected)
  BY <1>1 DEF Image
<1> QED BY <1>1, <1>2 DEF Image, Target

LEMMA ExpectedFits ==
  ASSUME ImagesRead, NEW t \in 0 .. Len(Expected) - 1
  PROVE  Len(Target(t)) <= BlockSize
<1>1. Expected \in Image /\ Len(Expected) \in Nat  BY ExpectedType
<1>2. Fits(Expected)  BY <1>1, ReadImage DEF ImagesRead
<1>3. t + 1 \in DOMAIN Expected  BY <1>1 DEF Image
<1> QED BY <1>2, <1>3 DEF Fits, Target

LEMMA ImageLengths ==
  ASSUME TypeInv
  PROVE  /\ installed \in Image /\ snapshot \in Image
         /\ Len(installed) \in Nat /\ Len(snapshot) \in Nat /\ Most \in Nat
         /\ Most >= Len(snapshot) /\ Most >= Len(Expected)
         /\ DOMAIN installed = 1 .. Len(installed)
         /\ DOMAIN snapshot = 1 .. Len(snapshot)
         /\ \A i \in 1 .. Len(installed) : installed[i] \in Block
         /\ \A i \in 1 .. Len(snapshot) : snapshot[i] \in Block
<1>1. installed \in Image /\ snapshot \in Image  BY DEF TypeInv
<1>2. Len(installed) \in Nat /\ Len(snapshot) \in Nat  BY <1>1 DEF Image
<1>3. Len(Expected) \in Nat  BY ExpectedType
<1> QED BY <1>1, <1>2, <1>3 DEF Image, Most

(* Whatever the source, a write puts the block of its target in place.     *)
LEMMA WriteStep ==
  ASSUME TypeInv, NEW op, EnvOp(op), op.op \in Writes, Succeed(op)
  PROVE  /\ op.target \in Nat /\ op.target < Len(Expected) /\ Target(op.target) \in Block
         /\ installed' = WriteBlock(installed, op.target, Target(op.target))
         /\ backups' = backups
         /\ op.op # "append" =>
              rollbackReady' =
                (rollbackReady /\ Overwritten(op.target, Target(op.target)) = {})
<1> DEFINE t == op.target
<1>1. t \in Nat /\ t < Len(Expected) /\ Target(t) \in Block
  <2>1. t \in 0 .. Len(Expected) - 1  BY DEF EnvOp
  <2> QED BY <2>1, ExpectedType
<1>2. CASE op.op = "copy"
  <2>1. /\ Applicable(op)
        /\ Yields(WriteBlock(installed, t, SourceBlock(op.source)), backups,
                  Overwritten(t, SourceBlock(op.source)))
    BY <1>2, SucceedYields
  <2>2. HashMatches(op.hash, SourceBlock(op.source))  BY <1>2, <2>1 DEF Applicable
  <2>3. op.hash = Target(t)  BY <1>2 DEF EnvOp
  <2>4. SourceBlock(op.source) = Target(t)
    BY <1>1, <2>2, <2>3, OperationsAssumption DEF HashMatches
  <2> QED BY <1>1, <1>2, <2>1, <2>4 DEF Yields
<1>3. CASE op.op = "delta"
  <2>1. Yields(WriteBlock(installed, t, op.result), backups, Overwritten(t, op.result))
    BY <1>3, SucceedYields
  <2>2. op.result = Target(t)  BY <1>3 DEF EnvOp
  <2> QED BY <1>1, <1>3, <2>1, <2>2 DEF Yields
<1>4. CASE op.op = "raw_insert"
  <2>1. Yields(WriteBlock(installed, t, op.data), backups, Overwritten(t, op.data))
    BY <1>4, SucceedYields
  <2>2. op.data = Target(t)  BY <1>4 DEF EnvOp
  <2> QED BY <1>1, <1>4, <2>1, <2>2 DEF Yields
<1>5. CASE op.op = "append"
  <2>1. Applicable(op) /\ Yields(WriteBlock(installed, Len(installed), op.data), backups, {})
    BY <1>5, SucceedYields
  <2>2. op.data = Target(t)  BY <1>5 DEF EnvOp
  <2>3. t \in {NoLimit, Len(installed)}  BY <1>5, <2>1 DEF Applicable
  <2>4. t = Len(installed)  BY <1>1, <2>3 DEF NoLimit
  <2> QED BY <1>1, <1>5, <2>1, <2>2, <2>4 DEF Yields
<1> QED BY <1>2, <1>3, <1>4, <1>5 DEF Writes

(* Every operation the environment records leaves image and backups within *)
(* their bounds.                                                           *)
LEMMA OpKeepsBounds ==
  ASSUME ImagesRead, TypeInv, BoundInv, NEW op, EnvOp(op), Succeed(op)
  PROVE  TypeInv' /\ BoundInv'
<1>1. op \in Operation  BY DEF EnvOp
<1>2. TypeInv'
  <2>1. Performs(op)  BY <1>1, SucceedPerforms
  <2> QED BY <1>1, <2>1, PerformType DEF Performs
<1>3. snapshot' = snapshot /\ Most' = Most  BY SucceedYields DEF Most
<1>4. snapshot \in InitialImages /\ Fits(installed) /\ Len(installed) <= Most
      /\ SavedFit(backups) /\ \A id \in DOMAIN backups : backups[id].index < Most
  BY DEF BoundInv
<1>5. /\ installed \in Image /\ snapshot \in Image
      /\ Len(installed) \in Nat /\ Len(snapshot) \in Nat /\ Most \in Nat
      /\ Most >= Len(snapshot) /\ Most >= Len(Expected)
      /\ DOMAIN installed = 1 .. Len(installed)
  BY ImageLengths
<1> SUFFICES BoundInv'  BY <1>2
<1> DEFINE Good(blocks) == Fits(blocks) /\ Len(blocks) <= Most
<1>6. ASSUME NEW blocks, Good(blocks), installed' = blocks, backups' = backups
      PROVE  BoundInv'
  BY <1>3, <1>4, <1>6 DEF BoundInv, Fits, SavedFit
<1>7. ASSUME NEW t \in Nat, NEW block \in Block, Len(block) <= BlockSize, t < Most
      PROVE  Good(WriteBlock(installed, t, block))
  <2>1. Fits(WriteBlock(installed, t, block))  BY <1>4, <1>5, <1>7, WriteFits
  <2>2. Len(WriteBlock(installed, t, block)) = IF t < Len(installed) THEN Len(installed) ELSE t + 1
    BY <1>5, WrittenBlocks
  <2> QED BY <1>4, <1>5, <1>7, <2>1, <2>2
<1>8. Good(installed)  BY <1>4
<1>9. Good(snapshot)
  <2>1. Fits(snapshot)  BY <1>4, <1>5, ReadImage DEF ImagesRead
  <2> QED BY <1>5, <2>1
<1> HIDE DEF Good
<1>10. CASE op.op \in {"keep", "skip", "verify", "checkpoint"}
  <2>1. Yields(installed, backups, {})  BY <1>10, SucceedYields
  <2> QED BY <1>6, <1>8, <2>1 DEF Yields
<1>11. CASE op.op = "backup"
  <2> DEFINE record == [index |-> op.source, block |-> installed[op.source + 1]]
             area == SaveBackup(backups, op.id, record)
  <2>1. Applicable(op) /\ Yields(installed, area, {})  BY <1>11, SucceedYields
  <2>2. InImage(op.source)  BY <1>11, <2>1 DEF Applicable
  <2>3. op.source + 1 \in DOMAIN installed /\ op.source < Most
    BY <1>4, <1>5, <2>2 DEF InImage
  <2>4. record.index < Most /\ Len(record.block) <= BlockSize
    BY <1>4, <2>3 DEF Fits
  <2> HIDE DEF record
  <2>5. /\ DOMAIN area = DOMAIN backups \cup {op.id}
        /\ \A id \in DOMAIN area : area[id] = IF id = op.id THEN record ELSE backups[id]
    BY DEF SaveBackup
  <2> HIDE DEF area
  <2>6. installed' = installed /\ backups' = area  BY <2>1 DEF Yields
  <2>7. SavedFit(area) /\ \A id \in DOMAIN area : area[id].index < Most
    BY <1>4, <2>4, <2>5 DEF SavedFit
  <2> QED BY <1>3, <1>4, <2>6, <2>7 DEF BoundInv, Fits, SavedFit
<1>12. CASE op.op \in Writes
  <2>1. /\ op.target \in Nat /\ op.target < Len(Expected) /\ Target(op.target) \in Block
        /\ installed' = WriteBlock(installed, op.target, Target(op.target))
        /\ backups' = backups
    BY <1>12, WriteStep
  <2>2. Len(Target(op.target)) <= BlockSize
    <3>1. op.target \in 0 .. Len(Expected) - 1  BY <1>12 DEF EnvOp
    <3> QED BY <3>1, ExpectedFits
  <2>3. op.target < Most  BY <1>5, <2>1, ExpectedType
  <2> QED BY <1>6, <1>7, <2>1, <2>2, <2>3
<1>13. CASE op.op = "delete"
  <2>1. Applicable(op) /\ Yields(DeleteBlocks(installed, op.target, op.count), backups,
                                 Removed(op.target .. op.target + op.count - 1))
    BY <1>13, SucceedYields
  <2>2. op.target \in Nat /\ op.count \in Nat  BY <1>1, <1>13, OperationKind DEF DeleteOp
  <2>3. op.target + op.count <= Len(installed)
    <3>1. op.count > 0 /\ InImage(op.target + op.count - 1)  BY <1>13, <2>1 DEF Applicable
    <3> QED BY <1>5, <2>2, <3>1 DEF InImage
  <2>4. Good(DeleteBlocks(installed, op.target, op.count))
    <3>1. /\ Fits(DeleteBlocks(installed, op.target, op.count))
          /\ Len(DeleteBlocks(installed, op.target, op.count)) = Len(installed) - op.count
      BY <1>4, <1>5, <2>2, <2>3, DeleteFits, DeletedBlocks
    <3> QED BY <1>4, <1>5, <2>2, <3>1 DEF Good
  <2> QED BY <1>6, <2>1, <2>4 DEF Yields
<1>14. CASE op.op = "truncate"
  <2>1. op.unit = "bytes" /\ op.size \in Nat
    BY <1>1, <1>14, OperationKind DEF TruncateOp, EnvOp
  <2>2. Yields(TruncateBytes(installed, op.size), backups, Removed(LastCut(op)))
    BY <1>14, <2>1, SucceedYields
  <2>3. Good(TruncateBytes(installed, op.size))
    <3>1. /\ TruncateBytes(installed, op.size) \in Image
          /\ Fits(TruncateBytes(installed, op.size))
          /\ Len(TruncateBytes(installed, op.size)) <= Len(installed)
      BY <1>4, <1>5, <2>1, TruncateFits
    <3>2. Len(TruncateBytes(installed, op.size)) \in Nat  BY <3>1 DEF Image
    <3> QED BY <1>4, <1>5, <3>1, <3>2 DEF Good
  <2> QED BY <1>6, <2>2, <2>3 DEF Yields
<1>15. CASE op.op = "rollback" /\ op.id = SnapshotId
  <2>1. Yields(snapshot, backups, {})  BY <1>15, SucceedYields
  <2> QED BY <1>6, <1>9, <2>1 DEF Yields
<1>16. CASE op.op = "rollback" /\ op.id # SnapshotId
  <2> DEFINE b == backups[op.id]
  <2>1. Yields(WriteBlock(installed, b.index, b.block), backups, {}) /\ Applicable(op)
    BY <1>16, SucceedYields
  <2>2. op.id \in DOMAIN backups  BY <1>16, <2>1 DEF Applicable
  <2>3. b.index \in Nat /\ b.block \in Block /\ b.index < Most /\ Len(b.block) <= BlockSize
    BY <1>4, <2>2, BackupTypes DEF SavedFit
  <2> HIDE DEF b
  <2> QED BY <1>6, <1>7, <2>1, <2>3 DEF Yields
<1>17. CASE op.op = "commit"
  <2> DEFINE c == Completion("installing").installed
  <2>1. Yields(c, backups, {})  BY <1>17, SucceedYields
  <2>2. c \in {installed, snapshot}  BY DEF Completion, FailBeforeActivation, Switch
  <2> HIDE DEF c
  <2> QED BY <1>6, <1>8, <1>9, <2>1, <2>2 DEF Yields
<1> QED
  <2>1. \/ op.op \in {"keep", "skip", "verify", "checkpoint"}
        \/ op.op \in Writes
        \/ op.op \in {"backup", "delete", "truncate", "rollback", "commit"}
    BY SucceedYields DEF Writes
  <2> QED BY <1>10, <1>11, <1>12, <1>13, <1>14, <1>15, <1>16, <1>17, <2>1

(* A refused operation and the end of a plan do so too.                    *)
LEMMA FailKeepsBounds ==
  ASSUME TypeInv, BoundInv, NEW op, EnvOp(op), Fail(op)
  PROVE  TypeInv' /\ BoundInv'
<1>1. TypeInv'  BY FailType DEF EnvOp
<1>2. installed' = installed /\ backups' = backups /\ snapshot' = snapshot
  BY DEF Fail, image
<1> QED BY <1>1, <1>2 DEF BoundInv, Most, Fits, SavedFit

LEMMA CompleteKeepsBounds ==
  ASSUME ImagesRead, TypeInv, BoundInv, Complete
  PROVE  TypeInv' /\ BoundInv'
<1>1. TypeInv'  BY CompleteType
<1> DEFINE c == Completion(installState).installed
<1>2. installed' = c /\ backups' = backups /\ snapshot' = snapshot  BY DEF Complete
<1>3. c \in {installed, snapshot}  BY DEF Completion, FailBeforeActivation, Switch
<1>4. Fits(snapshot) /\ Len(snapshot) <= Most
  <2>1. snapshot \in Image /\ Len(snapshot) <= Most  BY ImageLengths
  <2> QED BY <2>1, ReadImage DEF ImagesRead, BoundInv
<1> HIDE DEF c
<1> QED BY <1>1, <1>2, <1>3, <1>4 DEF BoundInv, Most, Fits, SavedFit

-----------------------------------------------------------------------------
(* One step of the environment.                                            *)
Raised(op) ==
  /\ IF Running THEN Fail(op) ELSE UNCHANGED vars
  /\ pc' = "raised" /\ UNCHANGED env

StructuredAction(t) ==
  \/ ApplyKeep(t) \/ ApplyRawInsert(t) \/ ApplyAppend(t) \/ ApplyTruncate(t)
  \/ ApplyCheckpoint(t) \/ ApplyVerify(t) \/ ApplyCommit(t)
  \/ \E ref \in References : ApplyCopy(t, ref) \/ ApplyDelta(t, ref)
  \/ \E i \in 0 .. Len(installed) - 1 : ApplyBackup(t, i)
  \/ \E i \in 0 .. Len(working), count \in 1 .. Len(working) : ApplyDelete(t, i, count)
  \/ \E id \in {SnapshotId} \cup DOMAIN backups : ApplyRollback(t, id)

(* What a structured action leaves behind when its operation is accepted.  *)
ProcessedBy(t, op) ==
  IF op.op \in Writes \cup {"keep"} THEN {t}
  ELSE IF op.op = "commit" THEN remaining ELSE {}

Done(t, op) ==
  /\ EndAction(ProcessedBy(t, op), working', idOf')
  /\ op.op \in Writes => op.target = t /\ working' = Written(t)
  /\ op.op \in {"keep", "backup", "checkpoint", "verify", "commit"} => working' = working
  /\ op.op \in {"delete", "truncate", "rollback"} => working' = installed'
  /\ idOf' = idOf \/ \E i \in 0 .. Most : idOf' = NameBlock(i, DefaultBackupId(i))

(* What the mask has seen to.                                              *)
Masked(t, op) ==
  /\ op.op = "keep" => op.target = t /\ CanKeep(t)
  /\ op.op = "delete" => op.target >= Len(Expected)
  /\ op.op = "truncate" => op = CutToSize /\ ImageBytes(working) > ImageBytes(Expected)
  /\ op.op = "commit" => Transformed
  /\ working = installed => Applicable(op)

StructuredKind ==
  {"keep", "copy", "delta", "raw_insert", "append", "backup", "delete", "truncate",
   "rollback", "checkpoint", "verify", "commit"}

StructuredOp(t, op) ==
  /\ pc = "choose" /\ steps < MaxSteps /\ t \in remaining
  /\ EnvOp(op) /\ op.op \in StructuredKind \cap actions
  /\ Masked(t, op)
  /\ Raised(op) \/ (Succeed(op) /\ Done(t, op))

LEMMA ReferenceType ==
  ASSUME EnvTypeInv, NEW ref \in References
  PROVE  /\ ref \in Source /\ ReferredBlock(ref) \in Block
         /\ working = installed => Readable(ref) /\ SourceBlock(ref) = ReferredBlock(ref)
<1>1. working \in Image /\ Len(working) \in Nat  BY DEF EnvTypeInv, FrameInv, Image
<1>2. DOMAIN backups \subseteq BackupId  BY DEF EnvTypeInv, TypeInv, BackupArea
<1>3. CASE ref \in [area : {"installed"}, index : 0 .. Len(working) - 1]
  <2>1. ref.area = "installed" /\ ref.index \in 0 .. Len(working) - 1  BY <1>3
  <2>2. ref \in Source
    <3>1. ref \in [area : {"installed"}, index : Nat]  BY <1>1, <1>3
    <3> QED BY <3>1 DEF Source
  <2>3. working[ref.index + 1] \in Block
    <3>1. ref.index + 1 \in 1 .. Len(working)  BY <1>1, <2>1
    <3> QED BY <1>1, <3>1 DEF Image
  <2>4. ReferredBlock(ref) = working[ref.index + 1]  BY <2>1 DEF ReferredBlock
  <2>5. working = installed => InImage(ref.index) /\ SourceBlock(ref) = installed[ref.index + 1]
    BY <2>1 DEF InImage, SourceBlock
  <2> QED BY <2>1, <2>2, <2>3, <2>4, <2>5 DEF Readable
<1>4. CASE ref \in [area : {"backup"}, id : DOMAIN backups]
  <2>1. ref.area = "backup" /\ ref.id \in DOMAIN backups  BY <1>4
  <2>2. ref \in Source
    <3>1. ref \in [area : {"backup"}, id : BackupId]  BY <1>2, <1>4
    <3> QED BY <3>1 DEF Source
  <2>3. backups[ref.id].block \in Block  BY <2>1, BackupTypes DEF EnvTypeInv
  <2> QED BY <2>1, <2>2, <2>3 DEF ReferredBlock, Readable, SourceBlock
<1> QED BY <1>3, <1>4 DEF References

LEMMA StructuredStep ==
  ASSUME ImagesRead, EnvTypeInv, NEW t \in remaining, StructuredAction(t)
  PROVE  \E op : StructuredOp(t, op)
<1>1. /\ t \in 0 .. Len(Expected) - 1 /\ t \in Nat /\ Target(t) \in Block
      /\ Len(Expected) \in Nat
  <2>1. t \in 0 .. Len(Expected) - 1  BY DEF EnvTypeInv, FrameInv
  <2> QED BY <2>1, ExpectedType
<1>2. /\ working \in Image /\ Len(working) \in Nat
      /\ Len(installed) \in Nat /\ Most \in Nat /\ Len(installed) <= Most
  BY ImageLengths DEF EnvTypeInv, FrameInv, Image, BoundInv
<1>3. \A i \in 0 .. Most : steps < MaxSteps => DefaultBackupId(i) \in BackupId
  <2> SUFFICES ASSUME NEW i \in 0 .. Most, steps < MaxSteps
               PROVE  DefaultBackupId(i) \in BackupId
    OBVIOUS
  <2>1. steps + 1 \in 1 .. MaxSteps  BY EnvironmentAssumption DEF EnvTypeInv, FrameInv
  <2>2. snapshot \in InitialImages  BY DEF EnvTypeInv, BoundInv
  <2> QED BY <2>1, <2>2, EnvironmentAssumption DEF DefaultBackupId, Most
<1>4. ASSUME NEW op, NEW action, Chooses(action, t), op.op = action,
             EnvOp(op), op.op \in StructuredKind, Masked(t, op),
             Raised(op) \/ (Succeed(op) /\ Done(t, op))
      PROVE  \E o : StructuredOp(t, o)
  <2>1. pc = "choose" /\ steps < MaxSteps /\ t \in remaining /\ action \in actions
    BY <1>4 DEF Chooses
  <2> QED BY <1>4, <2>1 DEF StructuredOp
<1>5. CASE ApplyKeep(t)
  <2> DEFINE op == [op |-> "keep", target |-> t, hash |-> Target(t)]
  <2>1. Chooses("keep", t) /\ Record(op, EndAction({t}, working, idOf))
    BY <1>5 DEF ApplyKeep
  <2>2. op.op = "keep" /\ op.target = t /\ op.hash = Target(t)  OBVIOUS
  <2>3. op \in Operation  BY <1>1 DEF Operation, KeepOp, Hash
  <2>4. CanKeep(t)  BY <2>1 DEF Chooses, Mask
  <2> HIDE DEF op
  <2>5. EnvOp(op)  BY <2>2, <2>3 DEF EnvOp, Writes
  <2>6. Masked(t, op)
    BY <2>2, <2>4 DEF Masked, CanKeep, InWorking, Applicable, InImage, HashMatches
  <2>7. Raised(op) \/ (Succeed(op) /\ EndAction({t}, working, idOf))
    BY <2>1 DEF Record, Raised
  <2>8. EndAction({t}, working, idOf) => Done(t, op)
    BY <2>2 DEF EndAction, Done, ProcessedBy, Writes
  <2> QED BY <1>4, <2>1, <2>2, <2>5, <2>6, <2>7, <2>8 DEF StructuredKind
<1>6. CASE ApplyRawInsert(t)
  <2> DEFINE op == [op |-> "raw_insert", target |-> t, data |-> Target(t)]
  <2>1. Chooses("raw_insert", t) /\ Record(op, EndAction({t}, Written(t), idOf))
    BY <1>6 DEF ApplyRawInsert
  <2>2. op.op = "raw_insert" /\ op.target = t /\ op.data = Target(t)  OBVIOUS
  <2>3. op \in Operation  BY <1>1 DEF Operation, RawOp
  <2> HIDE DEF op
  <2>4. EnvOp(op)  BY <1>1, <2>2, <2>3 DEF EnvOp, Writes
  <2>5. Masked(t, op)  BY <2>2 DEF Masked, Applicable
  <2>6. Raised(op) \/ (Succeed(op) /\ EndAction({t}, Written(t), idOf))
    BY <2>1 DEF Record, Raised
  <2>7. EndAction({t}, Written(t), idOf) => Done(t, op)
    BY <2>2 DEF EndAction, Done, ProcessedBy, Writes
  <2> QED BY <1>4, <2>1, <2>2, <2>4, <2>5, <2>6, <2>7 DEF StructuredKind
<1>7. CASE ApplyAppend(t)
  <2> DEFINE op == [op |-> "append", target |-> t, data |-> Target(t)]
  <2>1. Chooses("append", t) /\ Record(op, EndAction({t}, Written(t), idOf))
    BY <1>7 DEF ApplyAppend
  <2>2. op.op = "append" /\ op.target = t /\ op.data = Target(t)  OBVIOUS
  <2>3. op \in Operation  BY <1>1 DEF Operation, AppendOp
  <2>4. t = Len(working)  BY <2>1 DEF Chooses, Mask
  <2> HIDE DEF op
  <2>5. EnvOp(op)  BY <1>1, <2>2, <2>3 DEF EnvOp, Writes
  <2>6. Masked(t, op)  BY <2>2, <2>4 DEF Masked, Applicable
  <2>7. Raised(op) \/ (Succeed(op) /\ EndAction({t}, Written(t), idOf))
    BY <2>1 DEF Record, Raised
  <2>8. EndAction({t}, Written(t), idOf) => Done(t, op)
    BY <2>2 DEF EndAction, Done, ProcessedBy, Writes
  <2> QED BY <1>4, <2>1, <2>2, <2>5, <2>6, <2>7, <2>8 DEF StructuredKind
<1>8. CASE ApplyTruncate(t)
  <2> DEFINE op == CutToSize
  <2>1. Chooses("truncate", t) /\ Record(op, EndAction({}, installed', idOf))
    BY <1>8 DEF ApplyTruncate
  <2>2. op.op = "truncate" /\ op.unit = "bytes"  BY DEF CutToSize
  <2>3. op \in Operation
    <3>1. ImageBytes(Expected) \in Nat  BY ExpectedType, BytesType
    <3> QED BY <3>1 DEF Operation, TruncateOp, CutToSize
  <2>4. ImageBytes(working) > ImageBytes(Expected)  BY <2>1 DEF Chooses, Mask
  <2>5. EnvOp(op)  BY <2>2, <2>3 DEF EnvOp, Writes
  <2>6. Masked(t, op)  BY <2>2, <2>4 DEF Masked, Applicable
  <2>7. Raised(op) \/ (Succeed(op) /\ EndAction({}, installed', idOf))
    BY <2>1 DEF Record, Raised
  <2>8. EndAction({}, installed', idOf) => Done(t, op)
    BY <2>2 DEF EndAction, Done, ProcessedBy, Writes
  <2> QED BY <1>4, <2>1, <2>2, <2>5, <2>6, <2>7, <2>8 DEF StructuredKind
<1>9. CASE ApplyCheckpoint(t)
  <2> DEFINE op == [op |-> "checkpoint"]
  <2>1. Chooses("checkpoint", t) /\ Record(op, EndAction({}, working, idOf))
    BY <1>9 DEF ApplyCheckpoint
  <2>2. op.op = "checkpoint"  OBVIOUS
  <2>3. op \in Operation  BY DEF Operation, ControlOp
  <2> HIDE DEF op
  <2>4. EnvOp(op)  BY <2>2, <2>3 DEF EnvOp, Writes
  <2>5. Masked(t, op)  BY <2>2 DEF Masked, Applicable
  <2>6. Raised(op) \/ (Succeed(op) /\ EndAction({}, working, idOf))
    BY <2>1 DEF Record, Raised
  <2>7. EndAction({}, working, idOf) => Done(t, op)
    BY <2>2 DEF EndAction, Done, ProcessedBy, Writes
  <2> QED BY <1>4, <2>1, <2>2, <2>4, <2>5, <2>6, <2>7 DEF StructuredKind
<1>10. CASE ApplyVerify(t)
  <2> DEFINE op == [op |-> "verify", hash |-> BlocksToBytes(Expected),
                    size |-> ImageBytes(Expected)]
  <2>1. Chooses("verify", t) /\ Record(op, EndAction({}, working, idOf))
    BY <1>10 DEF ApplyVerify
  <2>2. op.op = "verify" /\ op.hash = BlocksToBytes(Expected) /\ op.size = ImageBytes(Expected)
    OBVIOUS
  <2>3. BlocksToBytes(Expected) \in Block /\ ImageBytes(Expected) \in Nat
    BY ExpectedType, BytesType
  <2>4. op \in Operation  BY <2>3 DEF Operation, VerifyOp, Hash
  <2>5. Transformed  BY <2>1 DEF Chooses, Mask
  <2> HIDE DEF op
  <2>6. EnvOp(op)  BY <2>2, <2>4 DEF EnvOp, Writes
  <2>7. Applicable(op)
    <3>1. op.size # NoLimit  BY <2>2, <2>3 DEF NoLimit
    <3>2. Take(BlocksToBytes(Expected), ImageBytes(Expected)) = BlocksToBytes(Expected)
      <4> DEFINE b == BlocksToBytes(Expected)
      <4>1. b \in Seq(Byte) /\ Len(b) \in Nat  BY <2>3 DEF Block
      <4> HIDE DEF b
      <4>2. Take(b, Len(b)) = b  BY <4>1, TakeStart
      <4> QED BY <4>2 DEF b, ImageBytes
    <3> QED BY <2>2, <2>5, <3>1, <3>2 DEF Applicable, HashMatches, Transformed
  <2>8. Masked(t, op)  BY <2>2, <2>7 DEF Masked
  <2>9. Raised(op) \/ (Succeed(op) /\ EndAction({}, working, idOf))
    BY <2>1 DEF Record, Raised
  <2>10. EndAction({}, working, idOf) => Done(t, op)
    BY <2>2 DEF EndAction, Done, ProcessedBy, Writes
  <2> QED BY <1>4, <2>1, <2>2, <2>6, <2>8, <2>9, <2>10 DEF StructuredKind
<1>11. CASE ApplyCommit(t)
  <2> DEFINE op == [op |-> "commit"]
  <2>1. Chooses("commit", t) /\ Record(op, EndAction(remaining, working, idOf))
    BY <1>11 DEF ApplyCommit
  <2>2. op.op = "commit"  OBVIOUS
  <2>3. op \in Operation  BY DEF Operation, ControlOp
  <2>4. Transformed  BY <2>1 DEF Chooses, Mask
  <2> HIDE DEF op
  <2>5. EnvOp(op)  BY <2>2, <2>3 DEF EnvOp, Writes
  <2>6. Masked(t, op)  BY <2>2, <2>4 DEF Masked, Applicable
  <2>7. Raised(op) \/ (Succeed(op) /\ EndAction(remaining, working, idOf))
    BY <2>1 DEF Record, Raised
  <2>8. EndAction(remaining, working, idOf) => Done(t, op)
    BY <2>2 DEF EndAction, Done, ProcessedBy, Writes
  <2> QED BY <1>4, <2>1, <2>2, <2>5, <2>6, <2>7, <2>8 DEF StructuredKind
<1>12. ASSUME NEW ref \in References, ApplyCopy(t, ref)  PROVE \E o : StructuredOp(t, o)
  <2> DEFINE op == [op |-> "copy", source |-> ref, target |-> t, hash |-> Target(t)]
  <2>1. /\ Chooses("copy", t) /\ ReferredBlock(ref) = Target(t)
        /\ Record(op, EndAction({t}, Written(t), idOf))
    BY <1>12 DEF ApplyCopy
  <2>2. op.op = "copy" /\ op.source = ref /\ op.target = t /\ op.hash = Target(t)  OBVIOUS
  <2>3. /\ ref \in Source
        /\ working = installed => Readable(ref) /\ SourceBlock(ref) = ReferredBlock(ref)
    BY ReferenceType
  <2>4. op \in Operation  BY <1>1, <2>3 DEF Operation, CopyOp, Hash
  <2> HIDE DEF op
  <2>5. EnvOp(op)  BY <1>1, <2>2, <2>4 DEF EnvOp, Writes
  <2>6. Masked(t, op)  BY <2>1, <2>2, <2>3 DEF Masked, Applicable, HashMatches
  <2>7. Raised(op) \/ (Succeed(op) /\ EndAction({t}, Written(t), idOf))
    BY <2>1 DEF Record, Raised
  <2>8. EndAction({t}, Written(t), idOf) => Done(t, op)
    BY <2>2 DEF EndAction, Done, ProcessedBy, Writes
  <2> QED BY <1>4, <2>1, <2>2, <2>5, <2>6, <2>7, <2>8 DEF StructuredKind
<1>13. ASSUME NEW ref \in References, ApplyDelta(t, ref)  PROVE \E o : StructuredOp(t, o)
  <2> DEFINE op == DeltaFrom(ref, ReferredBlock(ref), t)
  <2>1. Chooses("delta", t) /\ Record(op, EndAction({t}, Written(t), idOf))
    BY <1>13 DEF ApplyDelta
  <2>2. /\ op.op = "delta" /\ op.codec = "bsdiff4" /\ op.source = ref /\ op.target = t
        /\ op.base = ReferredBlock(ref) /\ op.result = Target(t) /\ op.hash = Target(t)
    BY DEF DeltaFrom
  <2>3. /\ ref \in Source /\ ReferredBlock(ref) \in Block
        /\ working = installed => Readable(ref) /\ SourceBlock(ref) = ReferredBlock(ref)
    BY ReferenceType
  <2>4. op \in Operation  BY <1>1, <2>3 DEF DeltaFrom, Operation, DeltaOp, Hash
  <2> HIDE DEF op
  <2>5. EnvOp(op)  BY <1>1, <2>2, <2>4 DEF EnvOp, Writes
  <2>6. Masked(t, op)  BY <2>1, <2>2, <2>3 DEF Masked, Applicable, HashMatches
  <2>7. Raised(op) \/ (Succeed(op) /\ EndAction({t}, Written(t), idOf))
    BY <2>1 DEF Record, Raised
  <2>8. EndAction({t}, Written(t), idOf) => Done(t, op)
    BY <2>2 DEF EndAction, Done, ProcessedBy, Writes
  <2> QED BY <1>4, <2>1, <2>2, <2>5, <2>6, <2>7, <2>8 DEF StructuredKind
<1>14. ASSUME NEW i \in 0 .. Len(installed) - 1, ApplyBackup(t, i)
       PROVE  \E o : StructuredOp(t, o)
  <2> DEFINE op == [op |-> "backup", source |-> i, id |-> DefaultBackupId(i)]
             ids == NameBlock(i, DefaultBackupId(i))
  <2>1. Chooses("backup", t) /\ Record(op, EndAction({}, working, ids))
    BY <1>14 DEF ApplyBackup
  <2>2. op.op = "backup" /\ op.source = i  OBVIOUS
  <2>3. i \in Nat /\ i \in 0 .. Most  BY <1>2
  <2>4. op \in Operation
    <3>1. DefaultBackupId(i) \in BackupId  BY <1>3, <2>1, <2>3 DEF Chooses
    <3> QED BY <2>3, <3>1 DEF Operation, BackupOp
  <2> HIDE DEF op
  <2>5. EnvOp(op)  BY <2>2, <2>4 DEF EnvOp, Writes
  <2>6. Masked(t, op)  BY <2>2 DEF Masked, Applicable, InImage
  <2>7. Raised(op) \/ (Succeed(op) /\ EndAction({}, working, ids))
    BY <2>1 DEF Record, Raised
  <2>8. EndAction({}, working, ids) => Done(t, op)
    <3>1. ids = NameBlock(i, DefaultBackupId(i))  OBVIOUS
    <3> HIDE DEF ids
    <3> QED BY <2>2, <2>3, <3>1 DEF EndAction, Done, ProcessedBy, Writes
  <2> QED BY <1>4, <2>1, <2>2, <2>5, <2>6, <2>7, <2>8 DEF StructuredKind
<1>15. ASSUME NEW i \in 0 .. Len(working), NEW count \in 1 .. Len(working),
              ApplyDelete(t, i, count)
       PROVE  \E o : StructuredOp(t, o)
  <2> DEFINE op == [op |-> "delete", target |-> i, count |-> count]
  <2>1. /\ Chooses("delete", t) /\ i >= Len(Expected) /\ i + count <= Len(working)
        /\ Record(op, EndAction({}, installed', idOf))
    BY <1>15 DEF ApplyDelete
  <2>2. op.op = "delete" /\ op.target = i /\ op.count = count  OBVIOUS
  <2>3. i \in Nat /\ count \in Nat /\ count > 0  BY <1>2
  <2>4. op \in Operation  BY <2>3 DEF Operation, DeleteOp
  <2> HIDE DEF op
  <2>5. EnvOp(op)  BY <2>2, <2>4 DEF EnvOp, Writes
  <2>6. working = installed => InImage(i) /\ InImage(i + count - 1)
    BY <1>2, <2>1, <2>3 DEF InImage
  <2>7. Masked(t, op)  BY <2>1, <2>2, <2>3, <2>6 DEF Masked, Applicable
  <2>8. Raised(op) \/ (Succeed(op) /\ EndAction({}, installed', idOf))
    BY <2>1 DEF Record, Raised
  <2>9. EndAction({}, installed', idOf) => Done(t, op)
    BY <2>2 DEF EndAction, Done, ProcessedBy, Writes
  <2> QED BY <1>4, <2>1, <2>2, <2>5, <2>7, <2>8, <2>9 DEF StructuredKind
<1>16. ASSUME NEW id \in {SnapshotId} \cup DOMAIN backups, ApplyRollback(t, id)
       PROVE  \E o : StructuredOp(t, o)
  <2> DEFINE op == [op |-> "rollback", id |-> id]
  <2>1. Chooses("rollback", t) /\ Record(op, EndAction({}, installed', idOf))
    BY <1>16 DEF ApplyRollback
  <2>2. op.op = "rollback" /\ op.id = id  OBVIOUS
  <2>3. op \in Operation
    <3>1. DOMAIN backups \subseteq BackupId  BY DEF EnvTypeInv, TypeInv, BackupArea
    <3> QED BY <3>1 DEF Operation, RollbackOp
  <2> HIDE DEF op
  <2>4. EnvOp(op)  BY <2>2, <2>3 DEF EnvOp, Writes
  <2>5. Masked(t, op)  BY <2>2 DEF Masked, Applicable
  <2>6. Raised(op) \/ (Succeed(op) /\ EndAction({}, installed', idOf))
    BY <2>1 DEF Record, Raised
  <2>7. EndAction({}, installed', idOf) => Done(t, op)
    BY <2>2 DEF EndAction, Done, ProcessedBy, Writes
  <2> QED BY <1>4, <2>1, <2>2, <2>4, <2>5, <2>6, <2>7 DEF StructuredKind
<1> QED BY <1>5, <1>6, <1>7, <1>8, <1>9, <1>10, <1>11, <1>12, <1>13, <1>14, <1>15, <1>16
        DEF StructuredAction

(* The operation of a legacy action: its source is a block of the working  *)
(* image, as the device is taken to have it.                               *)
ReadsWorking(op, t) ==
  \E i \in 0 .. Len(working) - 1 :
    /\ op.source = SourceReference(i)
    /\ op.op = "copy" => working[i + 1] = Target(t)
    /\ op.op = "delta" => op.base = working[i + 1] /\ op.codec = "bsdiff4" /\ op.hash = op.result

LegacyOp(t, op) ==
  /\ EnvOp(op) /\ op.target = t
  /\ \/ op.op = "keep" /\ CanKeep(t) /\ op.hash = Target(t)
     \/ op.op = "raw_insert"
     \/ op.op \in {"copy", "delta"} /\ ReadsWorking(op, t)

LEMMA MinIn ==
  ASSUME NEW S, S \subseteq Nat, S # {}  PROVE Min(S) \in S
<1>1. \E x \in S : \A y \in S : x <= y  BY NatMin
<1> QED BY <1>1 DEF Min

LEMMA SourceReferenceType ==
  ASSUME FrameInv, NEW i \in Nat  PROVE SourceReference(i) \in Source
BY DEF SourceReference, Source, FrameInv

LEMMA ModificationOp ==
  ASSUME EnvTypeInv, pc = "modify", NEW op \in Modifications(current.target)
  PROVE  LegacyOp(current.target, op)
<1> DEFINE t == current.target
<1>1. /\ t \in 0 .. Len(Expected) - 1 /\ t \in Nat /\ Target(t) \in Block
  <2>1. t \in 0 .. Len(Expected) - 1  BY DEF EnvTypeInv, FrameInv, Between
  <2> QED BY <2>1, ExpectedType
<1>2. /\ working \in Image /\ Len(working) \in Nat /\ Len(snapshot) \in Nat
      /\ \A i \in 0 .. Len(working) - 1 : working[i + 1] \in Block
  <2>1. working \in Image  BY DEF EnvTypeInv, FrameInv
  <2>2. \A i \in 0 .. Len(working) - 1 : i + 1 \in 1 .. Len(working)  OBVIOUS
  <2> QED BY <2>1, <2>2, ImageLengths DEF EnvTypeInv, Image
<1>3. op \in Modifications(t)  OBVIOUS
<1> HIDE DEF t
<1>4. CASE CanKeep(t)
  <2>1. op = [op |-> "keep", target |-> t, hash |-> Target(t)]
    BY <1>3, <1>4 DEF Modifications
  <2>2. op \in Operation  BY <1>1, <2>1 DEF Operation, KeepOp, Hash
  <2>3. op.op = "keep" /\ op.target = t /\ op.hash = Target(t)  BY <2>1
  <2> QED BY <1>4, <2>2, <2>3 DEF LegacyOp, EnvOp, Writes, t
<1>5. CASE ~CanKeep(t) /\ Matches(t) # {}
  <2> DEFINE i == Min(Matches(t))
  <2>1. op = [op |-> "copy", source |-> SourceReference(i), target |-> t, hash |-> Target(t)]
    BY <1>3, <1>5 DEF Modifications
  <2>2. i \in 0 .. Len(working) - 1 /\ working[i + 1] = Target(t)
    <3>1. Matches(t) \subseteq Nat  BY <1>2 DEF Matches
    <3>2. i \in Matches(t)  BY <1>5, <3>1, MinIn
    <3> HIDE DEF i
    <3> QED BY <3>2 DEF Matches
  <2> HIDE DEF i
  <2>3. SourceReference(i) \in Source
    <3>1. i \in Nat  BY <1>2, <2>2
    <3> QED BY <3>1, SourceReferenceType DEF EnvTypeInv
  <2>4. op \in Operation  BY <1>1, <2>1, <2>3 DEF Operation, CopyOp, Hash
  <2>5. op.op = "copy" /\ op.target = t /\ op.hash = Target(t) /\ op.source = SourceReference(i)
    BY <2>1
  <2>6. EnvOp(op)  BY <1>1, <2>4, <2>5 DEF EnvOp, Writes
  <2>7. ReadsWorking(op, t)  BY <2>2, <2>5 DEF ReadsWorking
  <2> QED BY <2>5, <2>6, <2>7 DEF LegacyOp, t
<1>6. CASE ~CanKeep(t) /\ Matches(t) = {} /\ working = << >>
  <2>1. op = [op |-> "raw_insert", target |-> t, data |-> Target(t)]
    BY <1>3, <1>6 DEF Modifications
  <2>2. op \in Operation  BY <1>1, <2>1 DEF Operation, RawOp
  <2>3. op.op = "raw_insert" /\ op.target = t /\ op.data = Target(t)  BY <2>1
  <2> QED BY <1>1, <2>2, <2>3 DEF LegacyOp, EnvOp, Writes, t
<1>7. CASE ~CanKeep(t) /\ Matches(t) = {} /\ working # << >>
  <2>1. PICK i \in DeltaIndices(t) : op = DeltaFrom(SourceReference(i), working[i + 1], t)
    BY <1>3, <1>7 DEF Modifications
  <2>2. Len(working) >= 1  BY <1>2, <1>7 DEF Image
  <2>3. i \in 0 .. Len(working) - 1
    <3> DEFINE m == Min({Len(snapshot), Len(working)})
               l == Min({t, Len(working) - 1})
    <3>1. m \in Nat /\ m <= Len(working)  BY <1>2, MinOfTwo
    <3>2. l \in 0 .. Len(working) - 1
      <4>1. Len(working) - 1 \in Nat  BY <1>2, <2>2
      <4> QED BY <1>1, <4>1, MinOfTwo
    <3> HIDE DEF m, l
    <3>3. i \in 0 .. m - 1 \/ i = l  BY DEF DeltaIndices, m, l
    <3> QED BY <1>2, <3>1, <3>2, <3>3
  <2>4. SourceReference(i) \in Source
    <3>1. i \in Nat  BY <1>2, <2>3
    <3> QED BY <3>1, SourceReferenceType DEF EnvTypeInv
  <2>5. working[i + 1] \in Block  BY <1>2, <2>3
  <2>6. op \in Operation  BY <1>1, <2>1, <2>4, <2>5 DEF DeltaFrom, Operation, DeltaOp, Hash
  <2>7. /\ op.op = "delta" /\ op.codec = "bsdiff4" /\ op.source = SourceReference(i)
        /\ op.target = t /\ op.base = working[i + 1] /\ op.result = Target(t)
        /\ op.hash = Target(t)
    BY <2>1 DEF DeltaFrom
  <2>8. EnvOp(op)  BY <1>1, <2>6, <2>7 DEF EnvOp, Writes
  <2>9. ReadsWorking(op, t)  BY <2>3, <2>7 DEF ReadsWorking
  <2> QED BY <2>7, <2>8, <2>9 DEF LegacyOp, t
<1> QED BY <1>4, <1>5, <1>6, <1>7

LEMMA BackupOperation ==
  ASSUME EnvTypeInv, pc = "backup"
  PROVE  LET op == [op |-> "backup", source |-> current.target,
                    id |-> DefaultBackupId(current.target)]
         IN  EnvOp(op)
<1>1. current.target \in 0 .. Len(Expected) - 1 /\ steps < MaxSteps
  BY DEF EnvTypeInv, FrameInv, Between
<1>2. current.target \in 0 .. Most /\ current.target \in Nat
  BY <1>1, ImageLengths, ExpectedType DEF EnvTypeInv
<1>3. steps + 1 \in 1 .. MaxSteps  BY <1>1, EnvironmentAssumption DEF EnvTypeInv, FrameInv
<1>4. snapshot \in InitialImages  BY DEF EnvTypeInv, BoundInv
<1>5. DefaultBackupId(current.target) \in BackupId
  BY <1>2, <1>3, <1>4, EnvironmentAssumption DEF DefaultBackupId, Most
<1> QED BY <1>2, <1>5 DEF EnvOp, Operation, BackupOp, Writes

LEMMA CutOperation ==
  EnvOp(CutToSize) /\ CutToSize.op = "truncate" /\ CutToSize.unit = "bytes"
    /\ CutToSize.size = ImageBytes(Expected) /\ Applicable(CutToSize)
<1>1. ImageBytes(Expected) \in Nat  BY ExpectedType, BytesType
<1>2. CutToSize \in Operation  BY <1>1 DEF CutToSize, Operation, TruncateOp
<1>3. CutToSize.op = "truncate" /\ CutToSize.unit = "bytes"
      /\ CutToSize.size = ImageBytes(Expected)
  BY DEF CutToSize
<1> QED BY <1>2, <1>3 DEF EnvOp, Writes, Applicable

-----------------------------------------------------------------------------
(* Types.                                                                  *)
LEMMA RecordKeepsBounds ==
  ASSUME ImagesRead, EnvTypeInv, NEW op, EnvOp(op)
  PROVE  /\ Succeed(op) => TypeInv' /\ BoundInv'
         /\ Raised(op) => TypeInv' /\ BoundInv'
<1>1. Succeed(op) => TypeInv' /\ BoundInv'  BY OpKeepsBounds DEF EnvTypeInv
<1>2. ASSUME Fail(op)  PROVE TypeInv' /\ BoundInv'
  BY <1>2, FailKeepsBounds DEF EnvTypeInv
<1>3. ASSUME UNCHANGED vars  PROVE TypeInv' /\ BoundInv'
  BY <1>3 DEF EnvTypeInv, vars, TypeInv, BoundInv, Most, Fits, SavedFit
<1> QED BY <1>1, <1>2, <1>3 DEF Raised

LEMMA RaisedFrame ==
  ASSUME FrameInv, UNCHANGED env, pc' \in {"raised", "complete", "done"}
  PROVE  FrameInv'
BY DEF FrameInv, env, Between

LEMMA EndFrame ==
  ASSUME TypeInv, FrameInv, steps < MaxSteps, NEW processed,
         EndAction(processed, working', idOf'), working' \in Image,
         idOf' = idOf \/ \E i \in 0 .. Most : idOf' = NameBlock(i, DefaultBackupId(i)),
         snapshot \in InitialImages
  PROVE  FrameInv'
<1>1. /\ remaining' \subseteq remaining /\ steps' = steps + 1 /\ actions' = actions
      /\ pc' = (IF remaining' = {} THEN "finish" ELSE "choose")
  BY DEF EndAction
<1>2. steps' \in 0 .. MaxSteps  BY <1>1, EnvironmentAssumption DEF FrameInv
<1>3. \A i \in DOMAIN idOf' : i \in Nat /\ idOf'[i] \in BackupId
  <2>1. \A i \in DOMAIN idOf : i \in Nat /\ idOf[i] \in BackupId  BY DEF FrameInv
  <2>2. CASE idOf' = idOf  BY <2>1, <2>2
  <2>3. ASSUME NEW i \in 0 .. Most, idOf' = NameBlock(i, DefaultBackupId(i))
        PROVE  \A j \in DOMAIN idOf' : j \in Nat /\ idOf'[j] \in BackupId
    <3> DEFINE name == DefaultBackupId(i)
               g == NameBlock(i, name)
    <3>1. /\ DOMAIN g = DOMAIN idOf \cup {i} /\ g[i] = name
          /\ \A j \in DOMAIN idOf : j # i => g[j] = idOf[j]
      BY DEF NameBlock
    <3>2. name \in BackupId
      <4>1. steps + 1 \in 1 .. MaxSteps  BY EnvironmentAssumption DEF FrameInv
      <4> QED BY <4>1, EnvironmentAssumption DEF DefaultBackupId, Most
    <3>3. idOf' = g  BY <2>3
    <3>4. i \in Nat  BY ImageLengths
    <3> HIDE DEF g, name
    <3> QED BY <2>1, <3>1, <3>2, <3>3, <3>4
  <2> QED BY <2>2, <2>3
<1> QED BY <1>1, <1>2, <1>3 DEF FrameInv, Between

LEMMA WrittenType ==
  ASSUME FrameInv, NEW t \in 0 .. Len(Expected) - 1
  PROVE  Written(t) \in Image /\ Len(Written(t)) \in Nat
<1>1. t \in Nat /\ Target(t) \in Block  BY ExpectedType
<1>2. Written(t) \in Image  BY <1>1, WriteBlockType DEF FrameInv, Written
<1> QED BY <1>2 DEF Image

LEMMA StructuredKeepsTypes ==
  ASSUME ImagesRead, EnvTypeInv, NEW t, NEW op, StructuredOp(t, op)
  PROVE  EnvTypeInv'
<1>1. /\ pc = "choose" /\ steps < MaxSteps /\ t \in remaining /\ EnvOp(op)
      /\ op.op \in StructuredKind /\ (Raised(op) \/ (Succeed(op) /\ Done(t, op)))
  BY DEF StructuredOp
<1>2. TypeInv' /\ BoundInv'  BY <1>1, RecordKeepsBounds
<1>3. CASE Raised(op)
  <2>1. UNCHANGED env /\ pc' = "raised"  BY <1>3 DEF Raised
  <2> QED BY <1>2, <2>1, RaisedFrame DEF EnvTypeInv
<1>4. CASE Done(t, op)
  <2>1. t \in 0 .. Len(Expected) - 1  BY <1>1 DEF EnvTypeInv, FrameInv
  <2>2. working' \in Image
    <3>1. Written(t) \in Image  BY <2>1, WrittenType DEF EnvTypeInv
    <3>2. working \in Image  BY DEF EnvTypeInv, FrameInv
    <3>3. installed' \in Image  BY <1>2 DEF TypeInv
    <3>4. working' \in {working, Written(t), installed'}
      BY <1>1, <1>4 DEF Done, StructuredKind, Writes
    <3> QED BY <3>1, <3>2, <3>3, <3>4
  <2>3. /\ EndAction(ProcessedBy(t, op), working', idOf')
        /\ idOf' = idOf \/ \E i \in 0 .. Most : idOf' = NameBlock(i, DefaultBackupId(i))
    BY <1>4 DEF Done
  <2>4. snapshot \in InitialImages  BY DEF EnvTypeInv, BoundInv
  <2>5. TypeInv /\ FrameInv  BY DEF EnvTypeInv
  <2>6. FrameInv'  BY <1>1, <2>2, <2>3, <2>4, <2>5, EndFrame
  <2> QED BY <1>2, <2>6 DEF EnvTypeInv
<1> QED BY <1>1, <1>3, <1>4

LEMMA EnvTypeStep ==
  ASSUME ImagesRead, EnvTypeInv, EnvNext  PROVE EnvTypeInv'
<1>1. ASSUME NEW t \in remaining, StructuredAction(t)  PROVE EnvTypeInv'
  BY <1>1, StructuredStep, StructuredKeepsTypes
<1>2. ASSUME NEW t \in remaining, NEW action, ApplyLegacy(action, t)  PROVE EnvTypeInv'
  <2>1. UNCHANGED vars /\ UNCHANGED <<working, idOf, steps, actions>>
        /\ remaining' \subseteq remaining /\ pc = "choose" /\ steps < MaxSteps
    BY <1>2 DEF ApplyLegacy, Chooses
  <2>2. TypeInv' /\ BoundInv'
    BY <2>1 DEF EnvTypeInv, vars, TypeInv, BoundInv, Most, Fits, SavedFit
  <2> DEFINE saves == action = "MB" /\ Saves(t)
  <2>3. /\ current' = [target |-> t, saves |-> saves,
                       block |-> IF saves THEN working[t + 1] ELSE << >>]
        /\ pc' = IF saves THEN "backup" ELSE "modify"
    BY <1>2 DEF ApplyLegacy
  <2>4. t \in 0 .. Len(Expected) - 1 /\ working \in Image /\ Len(working) \in Nat
    BY DEF EnvTypeInv, FrameInv, Image
  <2>5. saves \in BOOLEAN /\ (saves => t + 1 \in 1 .. Len(working))
    BY <2>4 DEF Saves, InWorking
  <2> HIDE DEF saves
  <2>6. (IF saves THEN working[t + 1] ELSE << >>) \in Block
    BY <2>4, <2>5 DEF Image, Block
  <2>7. /\ current'.target = t /\ current'.saves = saves
        /\ current'.block = IF saves THEN working[t + 1] ELSE << >>
    BY <2>3
  <2>8. FrameInv'  BY <2>1, <2>3, <2>4, <2>5, <2>6, <2>7 DEF EnvTypeInv, FrameInv, Between
  <2> QED BY <2>2, <2>8 DEF EnvTypeInv
<1>3. CASE LegacyBackup
  <2> DEFINE op == [op |-> "backup", source |-> current.target,
                    id |-> DefaultBackupId(current.target)]
  <2>1. pc = "backup" /\ Record(op, pc' = "modify" /\ UNCHANGED env)
    BY <1>3 DEF LegacyBackup
  <2>2. EnvOp(op)  BY <2>1, BackupOperation
  <2> HIDE DEF op
  <2>3. Raised(op) \/ (Succeed(op) /\ pc' = "modify" /\ UNCHANGED env)
    BY <2>1 DEF Record, Raised
  <2>4. TypeInv' /\ BoundInv'  BY <2>2, <2>3, RecordKeepsBounds
  <2>5. UNCHANGED env /\ pc' \in {"raised", "modify"}  BY <2>3 DEF Raised
  <2>6. FrameInv'  BY <2>1, <2>5 DEF EnvTypeInv, FrameInv, env, Between
  <2> QED BY <2>4, <2>6 DEF EnvTypeInv
<1>4. ASSUME pc = "modify", NEW op \in Modifications(current.target), Modify(op)
      PROVE  EnvTypeInv'
  <2> DEFINE t == current.target
             blocks == Written(t)
  <2>1. EnvOp(op)  BY <1>4, ModificationOp DEF LegacyOp
  <2>2. t \in 0 .. Len(Expected) - 1 /\ steps < MaxSteps /\ current.block \in Block
    BY <1>4 DEF EnvTypeInv, FrameInv, Between
  <2>3. blocks \in Image /\ Len(blocks) \in Nat  BY <2>2, WrittenType DEF EnvTypeInv
  <2>4. \/ Raised(op)
        \/ /\ Succeed(op)
           /\ IF current.saves
                THEN EndAction({}, Append(blocks, current.block),
                       NameBlock(Len(blocks), DefaultBackupId(t)))
                ELSE EndAction({}, blocks, idOf)
    BY <1>4 DEF Modify, Record, Raised, VirtualIndex
  <2>5. TypeInv' /\ BoundInv'  BY <2>1, <2>4, RecordKeepsBounds
  <2>6. CASE Raised(op)
    <3>1. UNCHANGED env /\ pc' = "raised"  BY <2>6 DEF Raised
    <3> QED BY <2>5, <3>1, RaisedFrame DEF EnvTypeInv
  <2>7. CASE Succeed(op) /\ ~current.saves /\ EndAction({}, blocks, idOf)
    <3>1. working' = blocks /\ idOf' = idOf /\ EndAction({}, working', idOf')
      BY <2>7 DEF EndAction
    <3>2. TypeInv /\ FrameInv /\ snapshot \in InitialImages
      BY DEF EnvTypeInv, BoundInv
    <3> HIDE DEF blocks
    <3>3. FrameInv'  BY <2>2, <2>3, <3>1, <3>2, EndFrame
    <3> QED BY <2>5, <3>3 DEF EnvTypeInv
  <2>8. CASE /\ Succeed(op) /\ current.saves
             /\ EndAction({}, Append(blocks, current.block),
                          NameBlock(Len(blocks), DefaultBackupId(t)))
    <3> DEFINE ids == NameBlock(Len(blocks), DefaultBackupId(t))
    <3>1. /\ working' = Append(blocks, current.block) /\ idOf' = ids
          /\ remaining' = remaining \ {} /\ steps' = steps + 1 /\ actions' = actions
          /\ pc' = (IF remaining' = {} THEN "finish" ELSE "choose")
      BY <2>8 DEF EndAction
    <3>2. Append(blocks, current.block) \in Image
      <4> HIDE DEF blocks
      <4> QED BY <2>2, <2>3 DEF Image
    <3> HIDE DEF blocks
    <3>3. /\ DOMAIN ids = DOMAIN idOf \cup {Len(blocks)} /\ ids[Len(blocks)] = DefaultBackupId(t)
          /\ \A j \in DOMAIN idOf : j # Len(blocks) => ids[j] = idOf[j]
      BY DEF NameBlock
    <3> HIDE DEF ids
    <3>4. DefaultBackupId(t) \in BackupId
      <4>1. steps + 1 \in 1 .. MaxSteps  BY <2>2, EnvironmentAssumption DEF EnvTypeInv, FrameInv
      <4>2. t \in 0 .. Most  BY <2>2, ImageLengths, ExpectedType DEF EnvTypeInv
      <4>3. snapshot \in InitialImages  BY DEF EnvTypeInv, BoundInv
      <4> QED BY <4>1, <4>2, <4>3, EnvironmentAssumption DEF DefaultBackupId, Most
    <3>5. \A j \in DOMAIN idOf : j \in Nat /\ idOf[j] \in BackupId  BY DEF EnvTypeInv, FrameInv
    <3>6. \A j \in DOMAIN idOf' : j \in Nat /\ idOf'[j] \in BackupId
      BY <2>3, <3>1, <3>3, <3>4, <3>5
    <3>7. steps' \in 0 .. MaxSteps
      BY <2>2, <3>1, EnvironmentAssumption DEF EnvTypeInv, FrameInv
    <3>8. FrameInv'
      BY <3>1, <3>2, <3>6, <3>7 DEF EnvTypeInv, FrameInv, Between
    <3> QED BY <2>5, <3>8 DEF EnvTypeInv
  <2> QED BY <2>4, <2>6, <2>7, <2>8
<1>5. CASE Finalize
  <2>1. CASE Record(CutToSize, /\ working' = installed' /\ pc' = "complete"
                     /\ UNCHANGED <<idOf, remaining, steps, actions, current>>)
    <3>1. \/ Raised(CutToSize)
          \/ /\ Succeed(CutToSize) /\ working' = installed' /\ pc' = "complete"
             /\ UNCHANGED <<idOf, remaining, steps, actions, current>>
      BY <2>1 DEF Record, Raised
    <3>2. EnvOp(CutToSize)  BY CutOperation
    <3>3. TypeInv' /\ BoundInv'  BY <3>1, <3>2, RecordKeepsBounds
    <3>4. CASE Raised(CutToSize)
      <4>1. UNCHANGED env /\ pc' = "raised"  BY <3>4 DEF Raised
      <4> QED BY <3>3, <4>1, RaisedFrame DEF EnvTypeInv
    <3>5. CASE working' = installed' /\ pc' = "complete"
                 /\ UNCHANGED <<idOf, remaining, steps, actions, current>>
      <4>1. working' \in Image  BY <3>3, <3>5 DEF TypeInv
      <4>2. FrameInv'  BY <3>5, <4>1 DEF EnvTypeInv, FrameInv, Between
      <4> QED BY <3>3, <4>2 DEF EnvTypeInv
    <3> QED BY <3>1, <3>4, <3>5
  <2>2. CASE pc' = "complete" /\ UNCHANGED <<vars, env>>
    <3>1. TypeInv' /\ BoundInv'
      BY <2>2 DEF EnvTypeInv, vars, TypeInv, BoundInv, Most, Fits, SavedFit
    <3> QED BY <2>2, <3>1, RaisedFrame DEF EnvTypeInv
  <2> QED BY <1>5, <2>1, <2>2 DEF Finalize
<1>6. CASE CompleteUpdate
  <2>1. Complete /\ pc' = "done" /\ UNCHANGED env  BY <1>6 DEF CompleteUpdate
  <2>2. TypeInv' /\ BoundInv'  BY <2>1, CompleteKeepsBounds DEF EnvTypeInv
  <2> QED BY <2>1, <2>2, RaisedFrame DEF EnvTypeInv
<1> QED BY <1>1, <1>2, <1>3, <1>4, <1>5, <1>6 DEF EnvNext, StructuredAction

-----------------------------------------------------------------------------
(* Who plans: the environment is there unless a baseline is, and an action *)
(* policy takes legacy actions only, which are steps of the environment.   *)
PolicyFrame ==
  /\ policy \in ActionPolicies => actions = Legacy
  /\ policy = "baseline" =>
       /\ working = << >> /\ idOf = << >> /\ remaining = {} /\ steps = 0
       /\ actions = {} /\ pc = "idle"

LEMMA PolicyNames == "agent" \notin ActionPolicies /\ "baseline" \notin ActionPolicies
BY PoliciesAssumption DEF ActionPolicyName

LEMMA PolicyFrameInit ==
  ASSUME PolicyInit
  PROVE  PolicyFrame /\ (policy # "baseline" => EnvInit)
BY PolicyNames DEF PolicyInit, PolicyFrame, NoEpisode

LEMMA PolicyStep ==
  ASSUME PolicyFrame, [PolicyNext]_policyVars
  PROVE  /\ PolicyFrame' /\ policy' = policy
         /\ policy # "baseline" => [EnvNext]_envVars
<1>1. CASE policy = "agent" /\ EnvNext /\ UNCHANGED <<planning, policy>>
  BY <1>1, PolicyNames DEF PolicyFrame
<1>2. CASE policy = "baseline" /\ UNCHANGED <<env, pc, policy>>
  BY <1>2, PolicyNames DEF PolicyFrame, env
<1>3. CASE policy \in ActionPolicies /\ (Choose \/ GoOn) /\ UNCHANGED <<planning, policy>>
  <2>1. actions = Legacy  BY <1>3 DEF PolicyFrame
  <2>2. policy' = policy /\ policy # "baseline"  BY <1>3, PolicyNames
  <2>3. EnvNext
    <3>1. CASE Choose
      <4>1. PICK choice \in Offered : ApplyLegacy(choice[1], choice[2])  BY <3>1 DEF Choose
      <4>2. choice[2] \in remaining /\ choice[1] \in Legacy
        BY <2>1, <4>1 DEF ApplyLegacy, Chooses
      <4> QED BY <4>1, <4>2 DEF EnvNext
    <3>2. CASE GoOn  BY <3>2 DEF GoOn, EnvNext
    <3> QED BY <1>3, <3>1, <3>2
  <2>4. actions' = actions
    <3>1. CASE Choose  BY <3>1 DEF Choose, ApplyLegacy
    <3>2. CASE LegacyBackup  BY <3>2 DEF LegacyBackup, Record, env
    <3>3. ASSUME NEW op, Modify(op)  PROVE actions' = actions
      BY <3>3 DEF Modify, Record, env, EndAction
    <3>4. CASE Finalize  BY <3>4 DEF Finalize, Record, env
    <3>5. CASE CompleteUpdate  BY <3>5 DEF CompleteUpdate, env
    <3> QED BY <1>3, <3>1, <3>2, <3>3, <3>4, <3>5 DEF GoOn
  <2> QED BY <2>1, <2>2, <2>3, <2>4 DEF PolicyFrame
<1>4. CASE UNCHANGED policyVars
  BY <1>4 DEF policyVars, envVars, env, PolicyFrame
<1> QED BY <1>1, <1>2, <1>3, <1>4 DEF PolicyNext

LEMMA EnvTypeInit ==
  ASSUME ImagesRead, EnvInit  PROVE EnvTypeInv
<1>1. Init /\ installed \in InitialImages /\ snapshot = installed /\ backups = << >>
  BY DEF EnvInit, Init
<1>2. TypeInv  BY <1>1, InitType
<1>3. Fits(installed) /\ Len(installed) <= Most
  <2>1. installed \in Image  BY <1>2 DEF TypeInv
  <2>2. Fits(installed)  BY <1>1, <2>1, ReadImage DEF ImagesRead
  <2>3. Most >= Len(snapshot) /\ Len(snapshot) \in Nat /\ Most \in Nat  BY <1>2, ImageLengths
  <2> QED BY <1>1, <2>2, <2>3
<1>4. DOMAIN backups = {}  BY <1>1
<1>5. BoundInv  BY <1>1, <1>3, <1>4 DEF BoundInv, SavedFit
<1>6. FrameInv
  <2>1. working \in Image  BY <1>2 DEF EnvInit, TypeInv
  <2>2. 0 \in 0 .. MaxSteps  BY EnvironmentAssumption
  <2>3. DOMAIN idOf = {}  BY DEF EnvInit
  <2> QED BY <2>1, <2>2, <2>3 DEF EnvInit, FrameInv, Between
<1> QED BY <1>2, <1>5, <1>6 DEF EnvTypeInv

(* The invariant of an episode is one of the policies as well.             *)
Episode == PolicyFrame /\ (policy # "baseline" => EnvTypeInv)

LEMMA EnvTypeNext ==
  ASSUME ImagesRead, EnvTypeInv, [EnvNext]_envVars  PROVE EnvTypeInv'
<1>1. CASE UNCHANGED envVars
  BY <1>1 DEF envVars, vars, EnvTypeInv, TypeInv, BoundInv, Most, Fits, SavedFit,
              FrameInv, Between
<1> QED BY <1>1, EnvTypeStep

LEMMA EpisodeInvariant ==
  ASSUME ImagesRead  PROVE PolicySpec => []Episode
<1>1. PolicyInit => Episode  BY PolicyFrameInit, EnvTypeInit DEF Episode
<1>2. Episode /\ [PolicyNext]_policyVars => Episode'
  BY PolicyStep, EnvTypeNext DEF Episode
<1> QED BY <1>1, <1>2, PTL DEF PolicySpec

(* For images that are read from files, whatever the agent or the policy:  *)
(* the working image is an image, its virtual blocks have backup names     *)
(* that the environment gives, and the position in step() is one of those  *)
(* listed (_backup_index_to_id, _blocks_remaining).                        *)
THEOREM EnvTypeCorrect ==
  ASSUME ImagesRead  PROVE PolicySpec => []EnvTypeOK
<1>1. Episode => EnvTypeOK
  <2>1. CASE policy = "baseline"
    <3>1. MaxSteps \in Nat  BY EnvironmentAssumption
    <3>2. DOMAIN << >> = {} /\ << >> \in Image  BY DEF Image
    <3> QED BY <2>1, <3>1, <3>2 DEF Episode, PolicyFrame, EnvTypeOK
  <2>2. CASE policy # "baseline"
    BY <2>2 DEF Episode, EnvTypeInv, FrameInv, EnvTypeOK
  <2> QED BY <2>1, <2>2
<1> QED BY <1>1, EpisodeInvariant, PTL

-----------------------------------------------------------------------------
LEMMA ActionsKept ==
  ASSUME [EnvNext]_envVars  PROVE actions' = actions
<1> DEFINE same == actions' = actions
<1>2. ASSUME NEW t, StructuredAction(t)  PROVE same
  BY <1>2 DEF StructuredAction, ApplyKeep, ApplyRawInsert, ApplyAppend, ApplyTruncate,
     ApplyCheckpoint, ApplyVerify, ApplyCommit, ApplyCopy, ApplyDelta, ApplyBackup,
     ApplyDelete, ApplyRollback, Record, env, EndAction
<1>3. ASSUME NEW t, NEW action, ApplyLegacy(action, t)  PROVE same  BY <1>3 DEF ApplyLegacy
<1>4. CASE LegacyBackup  BY <1>4 DEF LegacyBackup, Record, env
<1>5. ASSUME NEW op, Modify(op)  PROVE same  BY <1>5 DEF Modify, Record, env, EndAction
<1>6. CASE Finalize  BY <1>6 DEF Finalize, Record, env
<1>7. CASE CompleteUpdate  BY <1>7 DEF CompleteUpdate, env
<1>8. CASE UNCHANGED envVars  BY <1>8 DEF envVars
<1> QED BY <1>2, <1>3, <1>4, <1>5, <1>6, <1>7, <1>8 DEF EnvNext, StructuredAction

(* Completing a device that has the new image.                             *)
LEMMA CompletionOfTarget ==
  ASSUME errors = {}, Transformed, SlotFits,
         NEW state \in {"ready", "installing", "complete"}
  PROVE  LET c == Completion(state) IN
         /\ c.state \in {"complete", "rolled_back"}
         /\ Activates => c.state = "complete" /\ c.errors = {} /\ c.installed = installed
<1>1. Completed(state) = "complete"  BY DEF Completed
<1>2. Finalizes(state) => Refusal = {}
  <2>1. Candidate = BlocksToBytes(Expected)  BY DEF Transformed, Candidate
  <2>2. Len(Candidate) = ImageBytes(Expected)  BY <2>1 DEF ImageBytes
  <2> QED BY <2>1, <2>2 DEF Refusal, SlotFits, Finalizes
<1>3. CASE ~Finalizes(state)  BY <1>1, <1>3 DEF Completion
<1>4. CASE Finalizes(state)
  <2>1. Completion(state) = Switch /\ EnableAB  BY <1>2, <1>4 DEF Completion, Finalizes
  <2> QED BY <2>1 DEF Switch, Activates
<1> QED BY <1>3, <1>4

LEMMA CommitCompletes ==
  ASSUME TypeInv, NEW op, op.op = "commit", Succeed(op)
  PROVE  LET c == Completion("installing") IN
         /\ installed' = c.installed /\ installState' = c.state /\ errors' = c.errors
         /\ backups' = backups /\ rollbackReady' = rollbackReady
<1> DEFINE c == Completion("installing")
<1>1. /\ Yields(c.installed, backups, {})
      /\ installState' = c.state /\ errors' = c.errors
  BY SucceedYields
<1> QED BY <1>1 DEF Yields, TypeInv

(* What becomes of an action whose target is pending while the working     *)
(* image is the installed one.                                             *)
LEMMA StructuredAccepted ==
  ASSUME EnvTypeInv, MirrorInv, Structured, NEW t, NEW op, StructuredOp(t, op)
  PROVE  /\ working = installed /\ errors = {} /\ Running
         /\ Succeed(op) /\ Done(t, op) /\ Masked(t, op)
         /\ actions' = actions /\ remaining' = remaining \ ProcessedBy(t, op)
         /\ pc' = (IF remaining' = {} THEN "finish" ELSE "choose")
         /\ op.op # "commit" =>
              /\ working' = installed' /\ errors' = {}
              /\ installState' = (IF op.op = "rollback" THEN "rolled_back" ELSE "installing")
         /\ op.op = "commit" => remaining' = {}
<1>1. /\ pc = "choose" /\ t \in remaining /\ EnvOp(op)
      /\ op.op \in StructuredKind /\ Masked(t, op)
      /\ Raised(op) \/ (Succeed(op) /\ Done(t, op))
  BY DEF StructuredOp
<1>2. working = installed /\ errors = {} /\ Running  BY <1>1 DEF MirrorInv
<1>3. Applicable(op)  BY <1>1, <1>2 DEF Masked
<1>4. Succeed(op) /\ Done(t, op)  BY <1>1, <1>2, <1>3 DEF Raised, Fail
<1>5. EndAction(ProcessedBy(t, op), working', idOf')  BY <1>4 DEF Done
<1>6. /\ actions' = actions /\ remaining' = remaining \ ProcessedBy(t, op)
      /\ pc' = (IF remaining' = {} THEN "finish" ELSE "choose")
  BY <1>5 DEF EndAction
<1>7. ASSUME op.op # "commit"  PROVE working' = installed'
  <2>1. CASE op.op \in Writes
    <3>1. installed' = WriteBlock(installed, op.target, Target(op.target))
      BY <1>1, <1>4, <2>1, WriteStep DEF EnvTypeInv
    <3>2. op.target = t /\ working' = Written(t)  BY <1>4, <2>1 DEF Done
    <3> QED BY <1>2, <3>1, <3>2 DEF Written
  <2>2. CASE op.op \in {"keep", "backup", "checkpoint", "verify"}
    <3>1. working' = working  BY <1>4, <2>2 DEF Done
    <3>2. installed' = installed  BY <1>4, <2>2, SucceedYields DEF Yields
    <3> QED BY <1>2, <3>1, <3>2
  <2>3. CASE op.op \in {"delete", "truncate", "rollback"}  BY <1>4, <2>3 DEF Done
  <2> QED BY <1>1, <1>7, <2>1, <2>2, <2>3 DEF StructuredKind, Writes
<1>8. op.op # "commit" =>
        /\ errors' = {}
        /\ installState' = (IF op.op = "rollback" THEN "rolled_back" ELSE "installing")
  <2>1. op.op # "commit" => errors' = errors  BY <1>4, SucceedYields
  <2>2. op.op \notin {"commit", "rollback"} => installState' = "installing"
    BY <1>4, SucceedYields
  <2>3. op.op = "rollback" => installState' = "rolled_back"  BY <1>4, SucceedYields
  <2> QED BY <1>2, <2>1, <2>2, <2>3
<1>9. op.op = "commit" => remaining' = {}
  BY <1>6 DEF ProcessedBy, Writes
<1> QED BY <1>1, <1>2, <1>4, <1>6, <1>7, <1>8, <1>9

LEMMA MirrorInit == EnvInit => MirrorInv
<1> SUFFICES ASSUME EnvInit  PROVE MirrorInv  OBVIOUS
<1>1. installState = "ready" /\ errors = {} /\ working = installed
      /\ pc \in {"choose", "finish"}
  BY DEF EnvInit, Init
<1> QED BY <1>1 DEF MirrorInv, Running

LEMMA MirrorStep ==
  ASSUME ImagesRead, EnvTypeInv, MirrorInv, [EnvNext]_envVars
  PROVE  MirrorInv'
<1>1. SlotFits' = SlotFits  BY DEF SlotFits
<1>2. ASSUME Structured, NEW t \in remaining, StructuredAction(t)  PROVE MirrorInv'
  <2>1. PICK op : StructuredOp(t, op)  BY <1>2, StructuredStep
  <2>2. /\ errors = {} /\ Succeed(op) /\ Masked(t, op)
        /\ pc' = (IF remaining' = {} THEN "finish" ELSE "choose")
        /\ op.op # "commit" =>
             /\ working' = installed' /\ errors' = {}
             /\ installState' = (IF op.op = "rollback" THEN "rolled_back" ELSE "installing")
        /\ op.op = "commit" => remaining' = {}
    BY <1>2, <2>1, StructuredAccepted
  <2>3. CASE op.op # "commit"  BY <2>2, <2>3 DEF MirrorInv, Running
  <2>4. CASE op.op = "commit"
    <3>1. SlotFits => installState' \in {"complete", "rolled_back"}
      <4>1. Transformed  BY <2>2, <2>4 DEF Masked
      <4>2. TypeInv  BY DEF EnvTypeInv
      <4> QED BY <2>2, <2>4, <4>1, <4>2, CommitCompletes, CompletionOfTarget
    <3> QED BY <1>1, <2>2, <2>4, <3>1 DEF MirrorInv, Running
  <2> QED BY <2>3, <2>4
<1>3. ASSUME Structured, NEW t, NEW action \in Legacy, ApplyLegacy(action, t)  PROVE FALSE
  BY <1>3 DEF ApplyLegacy, Chooses, Structured
<1>4. ASSUME Structured, Finalize  PROVE MirrorInv'
  <2>1. pc = "finish"  BY <1>4 DEF Finalize
  <2>2. Applicable(CutToSize)  BY CutOperation
  <2>3. pc' \in {"complete", "raised"} /\ (Running => pc' = "complete")
    BY <1>4, <2>2 DEF Finalize, Record, Fail
  <2> QED BY <1>1, <1>4, <2>1, <2>3 DEF MirrorInv
<1>5. CASE CompleteUpdate  BY <1>5 DEF CompleteUpdate, MirrorInv
<1>6. CASE UNCHANGED envVars
  BY <1>6 DEF envVars, vars, MirrorInv, Structured, Running, SlotFits
<1>7. CASE ~Structured /\ EnvNext
  <2>1. actions' = actions  BY <1>7, ActionsKept
  <2> QED BY <1>7, <2>1 DEF MirrorInv, Structured
<1>8. Structured => ~LegacyBackup /\ pc # "modify"  BY DEF MirrorInv, LegacyBackup
<1> QED BY <1>2, <1>3, <1>4, <1>5, <1>6, <1>7, <1>8 DEF EnvNext, StructuredAction

-----------------------------------------------------------------------------
(* Legacy agents.                                                          *)
LEMMA AttemptKeepsSnapshot ==
  ASSUME NEW op, Raised(op) \/ Succeed(op)  PROVE snapshot' = snapshot
<1>1. Succeed(op) => snapshot' = snapshot  BY SucceedYields
<1> QED BY <1>1 DEF Raised, Fail, vars

LEMMA SnapshotKept ==
  ASSUME ImagesRead, EnvTypeInv, [EnvNext]_envVars  PROVE snapshot' = snapshot
<1>1. ASSUME NEW t \in remaining, StructuredAction(t)  PROVE snapshot' = snapshot
  <2>1. PICK op : StructuredOp(t, op)  BY <1>1, StructuredStep
  <2> QED BY <2>1, AttemptKeepsSnapshot DEF StructuredOp
<1>2. ASSUME NEW t, NEW action, ApplyLegacy(action, t)  PROVE snapshot' = snapshot
  BY <1>2 DEF ApplyLegacy, vars
<1>3. CASE LegacyBackup
  <2> DEFINE op == [op |-> "backup", source |-> current.target,
                    id |-> DefaultBackupId(current.target)]
  <2>1. Raised(op) \/ Succeed(op)  BY <1>3 DEF LegacyBackup, Record, Raised
  <2> HIDE DEF op
  <2> QED BY <2>1, AttemptKeepsSnapshot
<1>4. ASSUME NEW op, Modify(op)  PROVE snapshot' = snapshot
  <2>1. Raised(op) \/ Succeed(op)  BY <1>4 DEF Modify, Record, Raised
  <2> QED BY <2>1, AttemptKeepsSnapshot
<1>5. CASE Finalize
  <2>1. Raised(CutToSize) \/ Succeed(CutToSize) \/ UNCHANGED vars
    BY <1>5 DEF Finalize, Record, Raised
  <2> QED BY <2>1, AttemptKeepsSnapshot DEF vars
<1>6. CASE CompleteUpdate  BY <1>6 DEF CompleteUpdate, Complete
<1>7. CASE UNCHANGED envVars  BY <1>7 DEF envVars, vars
<1> QED BY <1>1, <1>2, <1>3, <1>4, <1>5, <1>6, <1>7 DEF EnvNext, StructuredAction

(* What the invariants say while an action is in progress.                 *)
LEMMA LegacyFacts ==
  ASSUME EnvTypeInv, LegacyInv, LegacyHandled, Working
  PROVE  /\ Tracked /\ Saving /\ Processed /\ OldSaved /\ OldKept
         /\ errors = {} /\ Running
         /\ Len(installed) = Len(snapshot) /\ Len(Expected) <= Len(installed)
         /\ installed \in Image /\ snapshot \in Image /\ working \in Image
         /\ Len(installed) \in Nat /\ Len(working) \in Nat /\ Len(Expected) \in Nat
         /\ Len(installed) <= Len(working)
         /\ steps \in Nat
<1>1. Tracked /\ Saving /\ Processed /\ OldSaved /\ OldKept /\ errors = {}
      /\ installState \in {"ready", "installing"}
  BY DEF LegacyInv, Working
<1>2. working \in Image /\ Len(working) \in Nat /\ steps \in Nat
  BY EnvironmentAssumption DEF EnvTypeInv, FrameInv, Image
<1> QED BY <1>1, <1>2, ImageLengths, ExpectedType
        DEF Running, Tracked, LegacyHandled, EnvTypeInv

LEMMA LegacyChoice ==
  ASSUME EnvTypeInv, LegacyInv, LegacyHandled, NEW t \in remaining,
         NEW action \in Legacy, ApplyLegacy(action, t)
  PROVE  LegacyInv'
<1>1. pc = "choose" /\ Working  BY DEF ApplyLegacy, Chooses, Working
<1>2. /\ Tracked /\ Saving /\ Processed /\ OldSaved /\ OldKept /\ errors = {}
      /\ Len(working) \in Nat
  BY <1>1, LegacyFacts
<1> DEFINE saves == action = "MB" /\ Saves(t)
<1>3. /\ current' = [target |-> t, saves |-> saves,
                     block |-> IF saves THEN working[t + 1] ELSE << >>]
      /\ pc' = (IF saves THEN "backup" ELSE "modify")
      /\ remaining' = remaining \ {t}
      /\ UNCHANGED <<vars, working, idOf, steps, actions>>
  BY DEF ApplyLegacy
<1> HIDE DEF saves
<1>4. /\ current'.target = t /\ current'.saves = saves
      /\ current'.block = (IF saves THEN working[t + 1] ELSE << >>)
      /\ pc' \in {"backup", "modify"}
  BY <1>3
<1>5. Tracked'
  <2>1. Numbered' = Numbered  BY <1>1, <1>3, <1>4 DEF Numbered
  <2> QED BY <1>2, <1>3, <2>1 DEF Tracked, vars
<1>6. Saving'  BY <1>3, <1>4 DEF Saving, Between
<1>7. Processed'
  <2>1. \A x : Pending(x)' <=> Pending(x)
    BY <1>1, <1>3, <1>4 DEF Pending, Between
  <2> QED BY <1>2, <1>3, <2>1 DEF Processed, vars, Target
<1>8. OldSaved' /\ OldKept'
  BY <1>2, <1>3 DEF OldSaved, OldKept, Protected, vars
<1>9. errors' = errors /\ installState' = installState  BY <1>3 DEF vars
<1> QED BY <1>1, <1>4, <1>5, <1>6, <1>7, <1>8, <1>9 DEF LegacyInv

(* The saved block is the old one, its name a new one.                     *)
LEMMA LegacySaves ==
  ASSUME EnvTypeInv, LegacyInv, LegacyHandled, LegacyBackup
  PROVE  LegacyInv'
<1> DEFINE t == current.target
           op == [op |-> "backup", source |-> t, id |-> DefaultBackupId(t)]
<1>1. pc = "backup" /\ Working /\ Between  BY DEF LegacyBackup, Working, Between
<1>2. /\ Tracked /\ Saving /\ Processed /\ OldSaved /\ OldKept /\ errors = {} /\ Running
      /\ Len(installed) = Len(snapshot) /\ Len(Expected) <= Len(installed)
      /\ Len(installed) \in Nat /\ Len(working) \in Nat /\ Len(Expected) \in Nat
      /\ Len(installed) <= Len(working) /\ steps \in Nat
  BY <1>1, LegacyFacts
<1>3. t \in 0 .. Len(Expected) - 1  BY <1>1 DEF EnvTypeInv, FrameInv
<1>4. /\ t \in Nat /\ t < Len(snapshot) /\ t + 1 \in 1 .. Len(installed)
      /\ t \in 0 .. Len(snapshot) - 1 /\ t \in 0 .. Len(installed) - 1
  BY <1>2, <1>3
<1>5. current.saves /\ current.block = working[t + 1] /\ t \notin remaining
  BY <1>1, <1>2 DEF Saving
<1>6. working[t + 1] = installed[t + 1]  BY <1>2, <1>4 DEF Tracked
<1>7. installed[t + 1] = snapshot[t + 1]
  <2>1. Pending(t)  BY <1>1 DEF Pending
  <2> QED BY <1>2, <1>4, <2>1 DEF Processed
<1> DEFINE name == DefaultBackupId(t)
           record == [index |-> t, block |-> installed[t + 1]]
           area == SaveBackup(backups, name, record)
<1>8. name[1] = steps + 1  BY DEF DefaultBackupId
<1>9. name \notin DOMAIN backups
  <2>1. \A id \in DOMAIN backups : id[1] \in 1 .. steps
    BY <1>1, <1>2 DEF Tracked, Numbered
  <2> HIDE DEF name
  <2> QED BY <1>2, <1>8, <2>1
<1>10. /\ DOMAIN area = DOMAIN backups \cup {name} /\ area[name] = record
       /\ \A id \in DOMAIN backups : area[id] = backups[id]
  <2> HIDE DEF name, record
  <2> QED BY <1>9 DEF SaveBackup
<1>11. record.index = t /\ record.block = installed[t + 1]  OBVIOUS
<1>12. /\ op.op = "backup" /\ op.source = t /\ op.id = name  OBVIOUS
<1>13. Applicable(op)  BY <1>4, <1>12 DEF Applicable, InImage
<1>14. Record(op, pc' = "modify" /\ UNCHANGED env)  BY DEF LegacyBackup
<1> HIDE DEF op
<1>15. Succeed(op) /\ pc' = "modify" /\ UNCHANGED env
  BY <1>2, <1>13, <1>14 DEF Record, Fail
<1>16. /\ installed' = installed /\ backups' = area /\ snapshot' = snapshot
       /\ errors' = errors /\ installState' = "installing"
       /\ rollbackReady' = (rollbackReady /\ TRUE)
  <2>1. Yields(installed, area, {})  BY <1>12, <1>15, SucceedYields DEF record
  <2>2. errors' = errors /\ installState' = "installing" /\ snapshot' = snapshot
    BY <1>12, <1>15, SucceedYields
  <2> QED BY <2>1, <2>2 DEF Yields
<1> HIDE DEF name, record, area
<1>17. /\ working' = working /\ idOf' = idOf /\ steps' = steps /\ remaining' = remaining
       /\ current' = current
  BY <1>15 DEF env
<1>18. Numbered = steps /\ Numbered' = steps + 1
  BY <1>1, <1>2, <1>5, <1>15, <1>17 DEF Numbered
<1>19. Tracked'
  <2>1. \A i \in Len(installed) .. Len(working) - 1 :
          /\ i \in DOMAIN idOf /\ idOf[i] \in DOMAIN area
          /\ area[idOf[i]].block = working[i + 1]
    BY <1>2, <1>10 DEF Tracked
  <2>2. \A id \in DOMAIN area : id[1] \in 1 .. steps + 1
    <3>1. \A id \in DOMAIN backups : id[1] \in 1 .. steps  BY <1>2, <1>18 DEF Tracked
    <3> QED BY <1>2, <1>8, <1>10, <3>1
  <2> QED BY <1>2, <1>16, <1>17, <1>18, <2>1, <2>2 DEF Tracked
<1>20. Saving'
  <2>1. DefaultBackupId(t)' = name  BY <1>17 DEF name, DefaultBackupId
  <2> QED BY <1>5, <1>6, <1>10, <1>11, <1>15, <1>16, <1>17, <2>1 DEF Saving, Between
<1>21. Processed'
  <2>1. \A x : Pending(x)' <=> Pending(x)
    BY <1>1, <1>15, <1>17 DEF Pending, Between
  <2> QED BY <1>2, <1>16, <2>1 DEF Processed, Target
<1>22. OldSaved'
  BY <1>2, <1>4, <1>7, <1>10, <1>11, <1>16 DEF OldSaved
<1>23. OldKept'
  BY <1>2, <1>10, <1>16 DEF OldKept, Protected
<1> QED BY <1>2, <1>15, <1>16, <1>19, <1>20, <1>21, <1>22, <1>23 DEF LegacyInv

(* A modification is accepted, its source being where the device has it,   *)
(* and leaves the new block of its target and the old ones around it.      *)
Puts(blocks, new, t, block) ==
  /\ Len(new) = Len(blocks) /\ new[t + 1] = block
  /\ \A i \in 1 .. Len(blocks) : i # t + 1 => new[i] = blocks[i]

LEMMA WritePuts ==
  ASSUME NEW blocks \in Image, NEW t \in Nat, t < Len(blocks), NEW block
  PROVE  Puts(blocks, WriteBlock(blocks, t, block), t, block)
BY WrittenBlocks DEF Puts

LEMMA SourceTracked ==
  ASSUME Tracked, Len(installed) \in Nat, Len(working) \in Nat,
         NEW i \in 0 .. Len(working) - 1
  PROVE  Readable(SourceReference(i)) /\ SourceBlock(SourceReference(i)) = working[i + 1]
<1>1. CASE i \in DOMAIN idOf
  <2>1. /\ SourceReference(i).area = "backup" /\ SourceReference(i).id = idOf[i]
    BY <1>1 DEF SourceReference
  <2>2. i \in Len(installed) .. Len(working) - 1  BY <1>1 DEF Tracked
  <2>3. idOf[i] \in DOMAIN backups /\ backups[idOf[i]].block = working[i + 1]
    BY <2>2 DEF Tracked
  <2> QED BY <2>1, <2>3 DEF Readable, SourceBlock
<1>2. CASE i \notin DOMAIN idOf
  <2>1. SourceReference(i).area = "installed" /\ SourceReference(i).index = i
    BY <1>2 DEF SourceReference
  <2>2. i < Len(installed)
    <3>1. i \notin Len(installed) .. Len(working) - 1  BY <1>2 DEF Tracked
    <3> QED BY <3>1
  <2>3. i + 1 \in 1 .. Len(installed)  BY <2>2
  <2>4. installed[i + 1] = working[i + 1]  BY <2>3 DEF Tracked
  <2> QED BY <2>1, <2>2, <2>4 DEF Readable, SourceBlock, InImage
<1> QED BY <1>1, <1>2

LEMMA LegacyAccepts ==
  ASSUME EnvTypeInv, LegacyInv, LegacyHandled, pc = "modify", NEW op,
         LegacyOp(current.target, op)
  PROVE  Applicable(op)
<1> DEFINE t == current.target
<1>1. Working /\ Between  BY DEF Working, Between
<1>2. /\ Tracked /\ Running /\ Len(Expected) <= Len(installed)
      /\ Len(installed) \in Nat /\ Len(working) \in Nat /\ Len(Expected) \in Nat
  BY <1>1, LegacyFacts
<1>3. t \in 0 .. Len(Expected) - 1  BY <1>1 DEF EnvTypeInv, FrameInv
<1>4. t + 1 \in 1 .. Len(installed) /\ t \in 0 .. Len(installed) - 1  BY <1>2, <1>3
<1>5. EnvOp(op) /\ op.target = t  BY DEF LegacyOp
<1>6. CASE op.op = "keep" /\ CanKeep(t) /\ op.hash = Target(t)
  <2>1. installed[t + 1] = Target(t)
    BY <1>2, <1>4, <1>6 DEF Tracked, CanKeep
  <2> QED BY <1>4, <1>5, <1>6, <2>1 DEF Applicable, InImage, HashMatches
<1>7. CASE op.op = "raw_insert"  BY <1>7 DEF Applicable
<1>8. CASE op.op \in {"copy", "delta"} /\ ReadsWorking(op, t)
  <2>1. PICK i \in 0 .. Len(working) - 1 :
          /\ op.source = SourceReference(i)
          /\ op.op = "copy" => working[i + 1] = Target(t)
          /\ op.op = "delta" =>
               op.base = working[i + 1] /\ op.codec = "bsdiff4" /\ op.hash = op.result
    BY <1>8 DEF ReadsWorking
  <2>2. Readable(op.source) /\ SourceBlock(op.source) = working[i + 1]
    BY <1>2, <2>1, SourceTracked
  <2>3. op.op = "copy" => op.hash = Target(t)  BY <1>5 DEF EnvOp
  <2> QED BY <1>8, <2>1, <2>2, <2>3 DEF Applicable, HashMatches
<1> QED BY <1>6, <1>7, <1>8 DEF LegacyOp

LEMMA LegacyPuts ==
  ASSUME EnvTypeInv, LegacyInv, LegacyHandled, pc = "modify", NEW op,
         LegacyOp(current.target, op), Succeed(op)
  PROVE  /\ Puts(installed, installed', current.target, Target(current.target))
         /\ backups' = backups /\ snapshot' = snapshot /\ errors' = errors
         /\ installState' = "installing"
         /\ OldKept'
<1> DEFINE t == current.target
<1>1. Working /\ Between  BY DEF Working, Between
<1>2. /\ Tracked /\ OldKept /\ Len(Expected) <= Len(installed) /\ installed \in Image
      /\ Len(installed) \in Nat /\ Len(working) \in Nat /\ Len(Expected) \in Nat
  BY <1>1, LegacyFacts
<1>3. t \in 0 .. Len(Expected) - 1  BY <1>1 DEF EnvTypeInv, FrameInv
<1>4. /\ t + 1 \in 1 .. Len(installed) /\ t \in Nat /\ t < Len(installed)
  BY <1>2, <1>3
<1>5. EnvOp(op) /\ op.target = t /\ op.op \in {"keep", "raw_insert", "copy", "delta"}
  BY DEF LegacyOp
<1>6. snapshot' = snapshot /\ errors' = errors /\ installState' = "installing"
  <2>1. snapshot' = snapshot  BY SucceedYields
  <2>2. op.op # "commit" => errors' = errors  BY SucceedYields
  <2>3. op.op \notin {"commit", "rollback"} => installState' = "installing"
    BY SucceedYields
  <2> QED BY <1>5, <2>1, <2>2, <2>3
<1>7. TypeInv  BY DEF EnvTypeInv
<1>8. CASE op.op = "keep"
  <2>1. Yields(installed, backups, {})  BY <1>8, SucceedYields
  <2>2. installed' = installed /\ backups' = backups
        /\ rollbackReady' = (rollbackReady /\ TRUE)
    BY <2>1 DEF Yields
  <2>3. CanKeep(t)  BY <1>8 DEF LegacyOp
  <2>4. installed[t + 1] = Target(t)  BY <1>2, <1>4, <2>3 DEF Tracked, CanKeep
  <2>5. OldKept'  BY <1>2, <1>6, <2>2 DEF OldKept, Protected
  <2> QED BY <1>6, <2>2, <2>4, <2>5 DEF Puts
<1>9. CASE op.op \in Writes
  <2>1. op.op # "append"  BY <1>5
  <2>2. /\ installed' = WriteBlock(installed, t, Target(t)) /\ backups' = backups
        /\ rollbackReady' = (rollbackReady /\ Overwritten(t, Target(t)) = {})
    BY <1>5, <1>7, <1>9, <2>1, WriteStep
  <2>3. Puts(installed, WriteBlock(installed, t, Target(t)), t, Target(t))
    BY <1>2, <1>4, WritePuts
  <2>4. ASSUME RequireBackup, rollbackReady'  PROVE Protected(installed, backups)'
    <3>1. Overwritten(t, Target(t)) = {} /\ Protected(installed, backups)
      BY <1>2, <2>2, <2>4 DEF OldKept
    <3>2. Protected(WriteBlock(installed, t, Target(t)), backups)
      BY <1>4, <1>7, <2>4, <3>1, WriteProtects
    <3> QED BY <1>6, <2>2, <3>2 DEF Protected
  <2>5. OldKept'  BY <2>4 DEF OldKept
  <2> QED BY <1>6, <2>2, <2>3, <2>5
<1> QED BY <1>5, <1>8, <1>9 DEF Writes

(* What modify leaves in the working image, and the names of its blocks.   *)
LEMMA LegacyModifies ==
  ASSUME EnvTypeInv, LegacyInv, LegacyHandled, pc = "modify",
         NEW op \in Modifications(current.target), Modify(op)
  PROVE  LegacyInv'
<1> DEFINE t == current.target
           blocks == Written(t)
           name == DefaultBackupId(t)
<1>1. Working /\ Between  BY DEF Working, Between
<1>2. /\ Tracked /\ Saving /\ Processed /\ OldSaved /\ errors = {} /\ Running
      /\ Len(installed) = Len(snapshot) /\ Len(Expected) <= Len(installed)
      /\ installed \in Image /\ working \in Image
      /\ Len(installed) \in Nat /\ Len(working) \in Nat /\ Len(Expected) \in Nat
      /\ Len(installed) <= Len(working) /\ steps \in Nat
  BY <1>1, LegacyFacts
<1>3. t \in 0 .. Len(Expected) - 1 /\ current.block \in Block /\ current.saves \in BOOLEAN
  BY <1>1 DEF EnvTypeInv, FrameInv
<1>4. /\ t \in Nat /\ t < Len(installed) /\ t < Len(working)
      /\ t + 1 \in 1 .. Len(installed)
  BY <1>2, <1>3
<1>5. LegacyOp(t, op)  BY ModificationOp
<1>6. Applicable(op)  BY <1>5, LegacyAccepts
<1>7. /\ Succeed(op)
      /\ IF current.saves
           THEN EndAction({}, Append(blocks, current.block), NameBlock(Len(blocks), name))
           ELSE EndAction({}, blocks, idOf)
  BY <1>2, <1>6 DEF Modify, Record, Fail, VirtualIndex
<1>8. /\ Puts(installed, installed', t, Target(t))
      /\ backups' = backups /\ snapshot' = snapshot /\ errors' = errors
      /\ installState' = "installing" /\ OldKept'
  BY <1>5, <1>7, LegacyPuts
<1>9. Puts(working, blocks, t, Target(t))  BY <1>2, <1>4, WritePuts DEF Written
<1>10. blocks \in Image /\ Len(blocks) = Len(working)
  <2>1. blocks \in Image  BY <1>3, WrittenType DEF EnvTypeInv
  <2> QED BY <1>9, <2>1 DEF Puts
<1>11. /\ remaining' = remaining /\ steps' = steps + 1
       /\ pc' = (IF remaining' = {} THEN "finish" ELSE "choose")
  BY <1>7 DEF EndAction
<1>12. ASSUME current.saves  PROVE Tracked'
  <2> DEFINE all == Append(blocks, current.block)
             ids == NameBlock(Len(blocks), name)
  <2>1. working' = all /\ idOf' = ids  BY <1>7, <1>12 DEF EndAction
  <2>2. /\ Len(all) = Len(working) + 1 /\ all[Len(working) + 1] = current.block
        /\ \A i \in 1 .. Len(working) : all[i] = blocks[i]
    <3> HIDE DEF blocks
    <3> QED BY <1>2, <1>3, <1>10, SMTT(30) DEF Image
  <2>3. /\ DOMAIN ids = DOMAIN idOf \cup {Len(working)} /\ ids[Len(working)] = name
        /\ \A j \in DOMAIN idOf : j # Len(working) => ids[j] = idOf[j]
    <3> HIDE DEF blocks, name
    <3> QED BY <1>10 DEF NameBlock
  <2> HIDE DEF all, ids
  <2>4. name \in DOMAIN backups /\ backups[name].block = current.block
    BY <1>2, <1>12 DEF Saving
  <2> HIDE DEF blocks, name
  <2>5. \A i \in 1 .. Len(installed) : all[i] = installed'[i]
    <3> SUFFICES ASSUME NEW i \in 1 .. Len(installed)  PROVE all[i] = installed'[i]
      OBVIOUS
    <3>1. i \in 1 .. Len(working) /\ working[i] = installed[i]  BY <1>2 DEF Tracked
    <3> QED BY <1>8, <1>9, <2>2, <3>1 DEF Puts
  <2>6. \A i \in Len(installed) .. Len(working) :
          /\ i \in DOMAIN ids /\ ids[i] \in DOMAIN backups
          /\ backups[ids[i]].block = all[i + 1]
    <3> SUFFICES ASSUME NEW i \in Len(installed) .. Len(working)
                 PROVE  /\ i \in DOMAIN ids /\ ids[i] \in DOMAIN backups
                        /\ backups[ids[i]].block = all[i + 1]
      OBVIOUS
    <3>1. CASE i = Len(working)  BY <2>2, <2>3, <2>4, <3>1
    <3>2. CASE i # Len(working)
      <4>1. i \in Len(installed) .. Len(working) - 1 /\ i + 1 \in 1 .. Len(working)
            /\ i + 1 # t + 1
        BY <1>2, <1>4, <3>2
      <4>2. /\ i \in DOMAIN idOf /\ idOf[i] \in DOMAIN backups
            /\ backups[idOf[i]].block = working[i + 1]
        BY <1>2, <4>1 DEF Tracked
      <4>3. all[i + 1] = working[i + 1]  BY <1>9, <2>2, <4>1 DEF Puts
      <4> QED BY <2>3, <3>2, <4>2, <4>3
    <3> QED BY <3>1, <3>2
  <2>7. \A i \in DOMAIN ids : i >= Len(installed) /\ i < Len(working) + 1
    <3>1. \A i \in DOMAIN idOf : i \in Nat /\ i >= Len(installed) /\ i < Len(working)
      BY <1>2 DEF Tracked, EnvTypeInv, FrameInv
    <3> QED BY <1>2, <2>3, <3>1
  <2>8. Numbered <= steps + 1 /\ Numbered \in Nat /\ Numbered' = steps + 1
    BY <1>2, <1>11 DEF Numbered
  <2>9. \A id \in DOMAIN backups : id[1] \in 1 .. steps + 1
    <3>1. \A id \in DOMAIN backups : id[1] \in 1 .. Numbered  BY <1>2 DEF Tracked
    <3> QED BY <1>2, <2>8, <3>1
  <2>10. Len(installed') = Len(installed)  BY <1>8 DEF Puts
  <2>11. Len(installed) .. (Len(working) + 1) - 1 = Len(installed) .. Len(working)
    BY <1>2
  <2> QED BY <1>2, <1>8, <2>1, <2>2, <2>5, <2>6, <2>7, <2>8, <2>9, <2>10, <2>11 DEF Tracked
<1>13. ASSUME ~current.saves  PROVE Tracked'
  <2>1. working' = blocks /\ idOf' = idOf  BY <1>7, <1>13 DEF EndAction
  <2> HIDE DEF blocks
  <2>2. Numbered <= steps + 1 /\ Numbered \in Nat /\ Numbered' = steps + 1
    BY <1>2, <1>11 DEF Numbered
  <2>3. \A id \in DOMAIN backups : id[1] \in 1 .. steps + 1
    <3>1. \A id \in DOMAIN backups : id[1] \in 1 .. Numbered  BY <1>2 DEF Tracked
    <3> QED BY <1>2, <2>2, <3>1
  <2>4. \A i \in 1 .. Len(installed) : blocks[i] = installed'[i]
    <3> SUFFICES ASSUME NEW i \in 1 .. Len(installed)  PROVE blocks[i] = installed'[i]
      OBVIOUS
    <3>1. i \in 1 .. Len(working) /\ working[i] = installed[i]  BY <1>2 DEF Tracked
    <3> QED BY <1>8, <1>9, <3>1 DEF Puts
  <2>5. \A i \in Len(installed) .. Len(working) - 1 :
          /\ i \in DOMAIN idOf /\ idOf[i] \in DOMAIN backups
          /\ backups[idOf[i]].block = blocks[i + 1]
    <3> SUFFICES ASSUME NEW i \in Len(installed) .. Len(working) - 1
                 PROVE  /\ i \in DOMAIN idOf /\ idOf[i] \in DOMAIN backups
                        /\ backups[idOf[i]].block = blocks[i + 1]
      OBVIOUS
    <3>1. i + 1 \in 1 .. Len(working) /\ i + 1 # t + 1  BY <1>2, <1>4
    <3> QED BY <1>2, <1>9, <3>1 DEF Tracked, Puts
  <2>6. Len(installed') = Len(installed)  BY <1>8 DEF Puts
  <2> QED BY <1>2, <1>8, <1>10, <2>1, <2>2, <2>3, <2>4, <2>5, <2>6 DEF Tracked
<1>14. Saving'  BY <1>11 DEF Saving, Between
<1>15. Processed'
  <2>1. \A x : Pending(x)' <=> x \in remaining  BY <1>11 DEF Pending, Between
  <2>2. \A x : Pending(x) <=> x \in remaining \/ x = t  BY <1>1 DEF Pending
  <2>3. t \notin remaining  BY <1>1, <1>2 DEF Saving
  <2>4. ASSUME NEW x \in 0 .. Len(Expected) - 1, x \notin remaining
        PROVE  installed'[x + 1] = Target(x)
    <3>1. x + 1 \in 1 .. Len(installed)  BY <1>2
    <3>2. CASE x = t  BY <1>8, <3>2 DEF Puts
    <3>3. CASE x # t
      <4>1. installed[x + 1] = Target(x)  BY <1>2, <2>2, <2>4, <3>3 DEF Processed
      <4>2. x + 1 # t + 1  BY <1>4, <3>3
      <4> QED BY <1>8, <3>1, <4>1, <4>2 DEF Puts
    <3> QED BY <3>2, <3>3
  <2>5. ASSUME NEW x \in 0 .. Len(snapshot) - 1, x \in remaining \/ x >= Len(Expected)
        PROVE  installed'[x + 1] = snapshot[x + 1]
    <3>1. x + 1 \in 1 .. Len(installed) /\ x + 1 # t + 1  BY <1>2, <1>3, <2>3, <2>5
    <3>2. installed[x + 1] = snapshot[x + 1]  BY <1>2, <2>2, <2>5 DEF Processed
    <3> QED BY <1>8, <3>1, <3>2 DEF Puts
  <2> HIDE DEF t
  <2> QED BY <1>8, <2>1, <2>4, <2>5 DEF Processed, Target
<1>16. OldSaved'  BY <1>2, <1>8 DEF OldSaved
<1> QED BY <1>2, <1>3, <1>8, <1>11, <1>12, <1>13, <1>14, <1>15, <1>16 DEF LegacyInv

(* The cut at the end leaves the new image, and loses what it marks.       *)
LEMMA AgreeWhenProcessed ==
  ASSUME Processed, pc = "finish", remaining = {}, Len(Expected) \in Nat
  PROVE  Agree(Expected, installed, Len(Expected))
<1> SUFFICES ASSUME NEW i \in 1 .. Len(Expected)  PROVE Expected[i] = installed[i]
  BY DEF Agree
<1>1. i - 1 \in 0 .. Len(Expected) - 1 /\ (i - 1) + 1 = i  OBVIOUS
<1>2. ~Pending(i - 1)  BY DEF Pending, Between
<1>3. installed[(i - 1) + 1] = Target(i - 1)  BY <1>1, <1>2 DEF Processed
<1> QED BY <1>1, <1>3 DEF Target

LEMMA CutToExpected ==
  ASSUME ImagesRead, Succeed(CutToSize), TargetInFront
  PROVE  /\ installed' = Expected /\ backups' = backups /\ snapshot' = snapshot
         /\ rollbackReady' = (rollbackReady /\ Removed(LastCut(CutToSize)) = {})
         /\ errors' = errors /\ installState' = "installing"
         /\ TruncateBytes(installed, CutToSize.size) = Expected
<1> DEFINE op == CutToSize
<1>1. op.op = "truncate" /\ op.unit = "bytes" /\ op.size = ImageBytes(Expected)
  BY CutOperation
<1>2. TruncateBytes(installed, op.size) = Expected
  BY <1>1 DEF TruncateBytes, TargetInFront, ImagesRead, AsRead
<1> HIDE DEF op
<1>3. Succeed(op)  BY DEF op
<1>4. Yields(TruncateBytes(installed, op.size), backups, Removed(LastCut(op)))
  BY <1>1, <1>3, SucceedYields
<1>5. snapshot' = snapshot  BY <1>3, SucceedYields
<1>6. op.op # "commit" => errors' = errors  BY <1>3, SucceedYields
<1>7. op.op \notin {"commit", "rollback"} => installState' = "installing"
  BY <1>3, SucceedYields
<1> QED BY <1>1, <1>2, <1>4, <1>5, <1>6, <1>7 DEF Yields, op

LEMMA LegacyInFront ==
  ASSUME EnvTypeInv, LegacyInv, LegacyHandled, pc = "finish"
  PROVE  Agree(Expected, installed, Len(Expected)) /\ TargetInFront
           /\ ImageBytes(Expected) <= ImageBytes(installed)
<1>1. Working  BY DEF Working
<1>2. /\ Processed /\ Len(Expected) <= Len(installed) /\ installed \in Image
      /\ Len(Expected) \in Nat
  BY <1>1, LegacyFacts
<1>3. remaining = {}  BY DEF EnvTypeInv, FrameInv
<1>4. Agree(Expected, installed, Len(Expected))  BY <1>2, <1>3, AgreeWhenProcessed
<1>5. Expected \in Image  BY ExpectedType
<1> QED BY <1>2, <1>4, <1>5, BytesInFront DEF TargetInFront

LEMMA LegacyFinalizes ==
  ASSUME ImagesRead, EnvTypeInv, LegacyInv, LegacyHandled, Finalize
  PROVE  LegacyInv'
<1>1. pc = "finish" /\ Working  BY DEF Finalize, Working
<1>2. /\ OldSaved /\ OldKept /\ errors = {} /\ Running
      /\ Len(installed) = Len(snapshot) /\ Len(Expected) <= Len(installed)
      /\ Len(installed) \in Nat /\ Len(Expected) \in Nat
  BY <1>1, LegacyFacts
<1>3. Agree(Expected, installed, Len(Expected)) /\ TargetInFront
  BY <1>1, LegacyInFront
<1>4. TypeInv /\ Applicable(CutToSize)  BY CutOperation DEF EnvTypeInv
<1>5. CASE Succeed(CutToSize) /\ pc' = "complete"
  <2>1. /\ installed' = Expected /\ backups' = backups /\ snapshot' = snapshot
        /\ rollbackReady' = (rollbackReady /\ Removed(LastCut(CutToSize)) = {})
        /\ errors' = errors /\ installState' = "installing"
        /\ TruncateBytes(installed, CutToSize.size) = Expected
    BY <1>3, <1>4, <1>5, CutToExpected
  <2>2. ASSUME RequireBackup, rollbackReady'  PROVE Protected(Expected, backups)
    <3>1. Removed(LastCut(CutToSize)) = {} /\ Protected(installed, backups)
      BY <1>2, <2>1, <2>2 DEF OldKept
    <3> SUFFICES ASSUME NEW i \in DOMAIN snapshot,
                        \A id \in DOMAIN backups : backups[id].index # i - 1
                 PROVE  i \in DOMAIN Expected /\ Expected[i] = snapshot[i]
      BY DEF Protected
    <3>2. i \in 1 .. Len(installed) /\ installed[i] = snapshot[i]
      BY <1>4, <3>1, OldBlocks DEF Protected
    <3>3. i <= Len(Expected)
      <4> SUFFICES ASSUME ~(i <= Len(Expected))  PROVE FALSE  OBVIOUS
      <4>1. i - 1 \in Len(Expected) .. Len(installed) - 1 /\ i - 1 < Len(snapshot)
        BY <1>2, <3>2
      <4>2. i - 1 \in LastCut(CutToSize)  BY <2>1, <4>1 DEF LastCut
      <4>3. Unprotected(i - 1)  BY <2>2, <4>1 DEF Unprotected
      <4> QED BY <3>1, <4>2, <4>3 DEF Removed
    <3>4. i \in 1 .. Len(Expected) /\ DOMAIN Expected = 1 .. Len(Expected)
      BY <1>2, <3>2, <3>3, ExpectedType DEF Image
    <3> QED BY <1>3, <3>2, <3>4 DEF Agree
  <2>3. OldKept'  BY <2>1, <2>2 DEF OldKept, Protected
  <2>4. OldSaved'  BY <1>2, <2>1 DEF OldSaved
  <2> QED BY <1>2, <1>5, <2>1, <2>3, <2>4 DEF LegacyInv, Working
<1>6. CASE pc' = "complete" /\ UNCHANGED <<vars, env>>
  BY <1>1, <1>2, <1>6 DEF LegacyInv, Working, OldSaved, OldKept, Protected, vars
<1> QED BY <1>2, <1>4, <1>5, <1>6 DEF Finalize, Record, Fail

LEMMA LegacyCompletes ==
  ASSUME EnvTypeInv, LegacyInv, LegacyHandled, CompleteUpdate
  PROVE  LegacyInv'
<1>1. OldSaved /\ OldKept  BY DEF LegacyInv
<1> DEFINE c == Completion(installState)
<1>2. /\ installed' = c.installed /\ backups' = backups /\ snapshot' = snapshot
      /\ rollbackReady' = rollbackReady /\ pc' = "done"
  BY DEF CompleteUpdate, Complete, safety
<1>3. RequireBackup /\ rollbackReady => Protected(c.installed, backups)
  BY <1>1, CompletionProtects DEF OldKept
<1> HIDE DEF c
<1>4. OldKept'  BY <1>2, <1>3 DEF OldKept, Protected
<1>5. OldSaved'  BY <1>1, <1>2 DEF OldSaved
<1> QED BY <1>2, <1>4, <1>5 DEF LegacyInv, Working

LEMMA LegacyInit == EnvInit => LegacyInv
<1> SUFFICES ASSUME EnvInit  PROVE LegacyInv  OBVIOUS
<1>1. /\ Init /\ working = installed /\ idOf = << >> /\ remaining = 0 .. Len(Expected) - 1
      /\ steps = 0 /\ pc \in {"choose", "finish"}
  BY DEF EnvInit
<1>2. /\ snapshot = installed /\ backups = << >> /\ installState = "ready" /\ errors = {}
  BY <1>1 DEF Init
<1>3. TypeInv  BY <1>1, InitType
<1>4. Len(installed) \in Nat /\ DOMAIN backups = {} /\ DOMAIN idOf = {}
  BY <1>1, <1>2, <1>3, ImageLengths
<1>5. Tracked
  <2>1. Len(installed) .. Len(working) - 1 = {}  BY <1>1, <1>4
  <2> QED BY <1>1, <1>2, <1>4, <2>1 DEF Tracked
<1>6. Saving  BY <1>1 DEF Saving, Between
<1>7. Processed
  <2>1. \A t \in 0 .. Len(Expected) - 1 : Pending(t)  BY <1>1 DEF Pending
  <2> QED BY <1>2, <2>1 DEF Processed
<1>8. OldSaved  BY <1>4 DEF OldSaved
<1>9. OldKept  BY <1>2, SnapshotProtected DEF OldKept
<1> QED BY <1>1, <1>2, <1>5, <1>6, <1>7, <1>8, <1>9 DEF LegacyInv

LEMMA LegacyStep ==
  ASSUME ImagesRead, EnvTypeInv, LegacyInv, [EnvNext]_envVars
  PROVE  LegacyInv'
<1>1. CASE LegacyHandled
  <2>1. ASSUME NEW t \in remaining, StructuredAction(t)  PROVE FALSE
    <3>1. PICK op : StructuredOp(t, op)  BY <2>1, StructuredStep
    <3>2. op.op \in StructuredKind /\ op.op \in actions  BY <3>1 DEF StructuredOp
    <3> QED BY <1>1, <3>2 DEF LegacyHandled, LegacyAgent, Legacy, StructuredKind
  <2>2. ASSUME NEW t \in remaining, NEW action \in Legacy, ApplyLegacy(action, t)
        PROVE  LegacyInv'
    BY <1>1, <2>2, LegacyChoice
  <2>3. CASE LegacyBackup  BY <1>1, <2>3, LegacySaves
  <2>4. ASSUME pc = "modify", NEW op \in Modifications(current.target), Modify(op)
        PROVE  LegacyInv'
    BY <1>1, <2>4, LegacyModifies
  <2>5. CASE Finalize  BY <1>1, <2>5, LegacyFinalizes
  <2>6. CASE CompleteUpdate  BY <1>1, <2>6, LegacyCompletes
  <2>7. CASE UNCHANGED envVars
    <3>1. UNCHANGED <<vars, working, idOf, remaining, steps, actions, pc, current>>
      BY <2>7 DEF envVars
    <3>2. Tracked' = Tracked  BY <3>1 DEF vars, Tracked, Numbered
    <3>3. Saving' = Saving  BY <3>1 DEF vars, Saving, Between, DefaultBackupId
    <3>4. Processed' = Processed  BY <3>1 DEF vars, Processed, Pending, Between, Target
    <3>5. OldSaved' = OldSaved /\ OldKept' = OldKept
      BY <3>1 DEF vars, OldSaved, OldKept, Protected
    <3> QED BY <1>1, <3>1, <3>2, <3>3, <3>4, <3>5 DEF LegacyInv, Working, vars
  <2> QED BY <2>1, <2>2, <2>3, <2>4, <2>5, <2>6, <2>7 DEF EnvNext, StructuredAction
<1>2. CASE ~LegacyHandled
  <2>1. actions' = actions /\ snapshot' = snapshot  BY ActionsKept, SnapshotKept
  <2> QED BY <1>2, <2>1 DEF LegacyInv, LegacyHandled, LegacyAgent
<1> QED BY <1>1, <1>2

-----------------------------------------------------------------------------
(* An agent that has no action at all waits.                               *)
IdleInv ==
  actions = {} /\ Len(Expected) > Len(snapshot) => pc = "choose" /\ installed = snapshot

LEMMA IdleInit == EnvInit => IdleInv
<1> SUFFICES ASSUME EnvInit, Len(Expected) > Len(snapshot)
             PROVE  pc = "choose" /\ installed = snapshot
  BY DEF IdleInv
<1>1. TypeInv /\ installed = snapshot  BY InitType DEF EnvInit, Init
<1>2. 0 \in 0 .. Len(Expected) - 1  BY <1>1, ImageLengths, ExpectedType
<1> QED BY <1>1, <1>2 DEF EnvInit

LEMMA IdleStep ==
  ASSUME ImagesRead, EnvTypeInv, IdleInv, [EnvNext]_envVars  PROVE IdleInv'
<1>1. actions' = actions /\ snapshot' = snapshot  BY ActionsKept, SnapshotKept
<1> SUFFICES ASSUME actions = {}, Len(Expected) > Len(snapshot)
             PROVE  pc' = "choose" /\ installed' = snapshot
  BY <1>1 DEF IdleInv
<1>2. pc = "choose" /\ installed = snapshot  BY DEF IdleInv
<1>3. CASE UNCHANGED envVars  BY <1>2, <1>3 DEF envVars, vars
<1>4. ASSUME NEW t \in remaining, StructuredAction(t)  PROVE FALSE
  <2>1. PICK op : StructuredOp(t, op)  BY <1>4, StructuredStep
  <2> QED BY <2>1 DEF StructuredOp
<1>5. ASSUME NEW t, NEW action, ApplyLegacy(action, t)  PROVE FALSE
  BY <1>5 DEF ApplyLegacy, Chooses
<1>6. ~LegacyBackup /\ pc # "modify" /\ ~Finalize /\ ~CompleteUpdate
  BY <1>2 DEF LegacyBackup, Finalize, CompleteUpdate
<1> QED BY <1>3, <1>4, <1>5, <1>6 DEF EnvNext, StructuredAction

(* The invariants of an episode together.                                  *)
EpisodeInv ==
  Episode /\ (policy # "baseline" => MirrorInv /\ LegacyInv /\ IdleInv)

LEMMA EpisodeCorrect ==
  ASSUME ImagesRead  PROVE PolicySpec => []EpisodeInv
<1>1. PolicyInit => EpisodeInv
  BY PolicyFrameInit, EnvTypeInit, MirrorInit, LegacyInit, IdleInit DEF EpisodeInv, Episode
<1>2. EpisodeInv /\ [PolicyNext]_policyVars => EpisodeInv'
  BY PolicyStep, EnvTypeNext, MirrorStep, LegacyStep, IdleStep DEF EpisodeInv, Episode
<1> QED BY <1>1, <1>2, PTL DEF PolicySpec

(* For images that are read from files, whatever the agent or the policy:  *)
(* between two actions every block of the working image can be had from    *)
(* the device, the installed blocks in place and the virtual ones from the *)
(* backups their index stands for (_write_old_block, _sync_installed_from_ *)
(* deployment, _backup_index_to_id).                                       *)
THEOREM WorkingImageTracked ==
  ASSUME ImagesRead  PROVE PolicySpec => []WorkingTracksDevice
<1>1. EpisodeInv => WorkingTracksDevice
  <2> SUFFICES ASSUME EpisodeInv, Handled, pc = "choose"
               PROVE  /\ Len(installed) <= Len(working)
                      /\ \A i \in 0 .. Len(working) - 1 :
                           IF i < Len(installed)
                             THEN working[i + 1] = installed[i + 1]
                             ELSE /\ i \in DOMAIN idOf /\ idOf[i] \in DOMAIN backups
                                  /\ working[i + 1] = backups[idOf[i]].block
    BY DEF WorkingTracksDevice
  <2>1. policy # "baseline"  BY DEF EpisodeInv, Episode, PolicyFrame
  <2>2. EnvTypeInv /\ MirrorInv /\ LegacyInv  BY <2>1 DEF EpisodeInv, Episode
  <2>3. Len(installed) \in Nat /\ Len(working) \in Nat
    BY <2>2, ImageLengths DEF EnvTypeInv, FrameInv, Image
  <2>4. CASE Structured
    <3>1. working = installed  BY <2>2, <2>4 DEF MirrorInv
    <3> QED BY <2>3, <3>1
  <2>5. CASE LegacyHandled
    <3>1. Tracked  BY <2>2, <2>5 DEF LegacyInv, Working
    <3>2. \A i \in 0 .. Len(working) - 1 :
            i < Len(installed) => i + 1 \in 1 .. Len(installed)
      BY <2>3
    <3>3. \A i \in 0 .. Len(working) - 1 :
            ~(i < Len(installed)) => i \in Len(installed) .. Len(working) - 1
      BY <2>3
    <3> QED BY <3>1, <3>2, <3>3 DEF Tracked
  <2> QED BY <2>4, <2>5 DEF Handled, Structured, LegacyHandled
<1> QED BY <1>1, EpisodeCorrect, PTL

(* For images that are read from files and a new image that fits its slot: *)
(* an action that the mask allows is never refused by the simulator, be it *)
(* chosen by a policy or by an agent (get_action_mask, _source_reference,  *)
(* _record_operation).                                                     *)
THEOREM MaskedAccepted ==
  ASSUME ImagesRead, SlotFits  PROVE PolicySpec => []MaskedStepsAccepted
<1>1. EpisodeInv => MaskedStepsAccepted
  <2> SUFFICES ASSUME EpisodeInv, Handled  PROVE pc # "raised"
    BY DEF MaskedStepsAccepted
  <2>1. CASE policy = "baseline"  BY <2>1 DEF EpisodeInv, Episode, PolicyFrame
  <2>2. CASE policy # "baseline"
    BY <2>2 DEF EpisodeInv, MirrorInv, LegacyInv, Handled, Structured, LegacyHandled
  <2> QED BY <2>1, <2>2
<1> QED BY <1>1, EpisodeCorrect, PTL

(* For images that are read from files: whenever a plan of legacy actions  *)
(* leaves rollback_ready set, every block of the old image that is no      *)
(* longer in place is in the backup area with its old content, whatever    *)
(* the agent or the action policy (_apply_legacy_action,                   *)
(* _mark_overwrite_if_unprotected).                                        *)
THEOREM LegacyPlansRevertible ==
  ASSUME ImagesRead
  PROVE  PolicySpec => [](policy # "baseline" => LegacyPreservesRollback)
<1>1. EpisodeInv => (policy # "baseline" => LegacyPreservesRollback)
  <2> SUFFICES ASSUME EpisodeInv, policy # "baseline", Handled, LegacyAgent,
                      RequireBackup, rollbackReady, NEW i \in DOMAIN snapshot
               PROVE  \/ i \in DOMAIN installed /\ installed[i] = snapshot[i]
                      \/ \E id \in DOMAIN backups :
                           backups[id] = [index |-> i - 1, block |-> snapshot[i]]
    BY DEF LegacyPreservesRollback, RollbackDataPreserved
  <2>1. EnvTypeInv /\ LegacyInv /\ IdleInv /\ TypeInv
    BY DEF EpisodeInv, Episode, EnvTypeInv
  <2>2. CASE LegacyHandled
    <3>1. OldSaved /\ Protected(installed, backups)
      BY <2>1, <2>2 DEF LegacyInv, OldKept
    <3>2. ASSUME NEW id \in DOMAIN backups, backups[id].index = i - 1
          PROVE  backups[id] = [index |-> i - 1, block |-> snapshot[i]]
      <4>1. backups[id] \in BackupRecord  BY <2>1 DEF TypeInv, BackupArea
      <4>2. i \in Nat  BY <2>1, OldBlocks
      <4>3. (i - 1) + 1 = i  BY <4>2
      <4>4. backups[id].block = snapshot[i]  BY <3>1, <3>2, <4>3 DEF OldSaved
      <4> QED BY <3>2, <4>1, <4>4 DEF BackupRecord
    <3> QED BY <3>1, <3>2 DEF Protected
  <2>3. CASE ~LegacyHandled
    <3>1. actions = {}  BY <2>3 DEF Handled, LegacyAgent, LegacyHandled
    <3>2. Len(Expected) > Len(snapshot)
      BY <2>1, <2>3, ImageLengths, ExpectedType DEF LegacyHandled
    <3>3. installed = snapshot  BY <2>1, <3>1, <3>2 DEF IdleInv
    <3> QED BY <3>3
  <2> QED BY <2>2, <2>3
<1> QED BY <1>1, EpisodeCorrect, PTL

-----------------------------------------------------------------------------
(* What a finished episode has installed.                                  *)
LEMMA ExpectedShape ==
  ASSUME ImagesRead
  PROVE  /\ FullUntil(Expected, Len(Expected))
         /\ Len(Expected) # 0 =>
              ImageBytes(Expected) = (Len(Expected) - 1) * BlockSize + Len(Expected[Len(Expected)])
<1>1. Expected \in Image /\ Len(Expected) \in Nat  BY ExpectedType
<1>2. FullUntil(Expected, Len(Expected))  BY <1>1, ReadImage DEF ImagesRead
<1>3. ASSUME Len(Expected) # 0
      PROVE  ImageBytes(Expected)
               = (Len(Expected) - 1) * BlockSize + Len(Expected[Len(Expected)])
  <2>1. Len(Expected) \in 1 .. Len(Expected)  BY <1>1, <1>3
  <2> QED BY <1>1, <1>2, <2>1, BlockInBytes
<1> QED BY <1>2, <1>3

(* An image with more bytes than the new one is of the first shape.        *)
LEMMA LongImage ==
  ASSUME ImagesRead, EnvTypeInv, Shape, Placed, Len(Expected) # 0,
         ImageBytes(installed) > ImageBytes(Expected)
  PROVE  Len(installed) >= Len(Expected) /\ FullUntil(installed, Len(Expected))
<1> SUFFICES ASSUME Len(installed) <= Len(Expected),
                    Len(installed) = Len(Expected) => Len(Expected) - 1 \notin remaining
             PROVE  FALSE
  BY DEF Shape
<1> DEFINE n == Len(Expected)
           m == Len(installed)
<1>1. /\ n \in Nat /\ m \in Nat /\ installed \in Image /\ Fits(installed)
      /\ BlockSize \in Nat
  BY ExpectedType, ImageLengths, BlockSizeAssumption DEF EnvTypeInv, BoundInv
<1>2. n - 1 \in Nat /\ (n - 1) * BlockSize \in Nat  BY <1>1
<1>3. /\ ImageBytes(Expected) = (n - 1) * BlockSize + Len(Expected[n])
      /\ Len(Expected[n]) \in Nat
      /\ ImageBytes(installed) \in Nat /\ ImageBytes(Expected) \in Nat
  <2>1. ImageBytes(Expected) = (n - 1) * BlockSize + Len(Expected[n])  BY ExpectedShape
  <2>2. n \in 1 .. n  BY <1>1
  <2>3. Expected[n] \in Block  BY <2>2, ExpectedType DEF Image
  <2>4. Len(Expected[n]) \in Nat  BY <2>3 DEF Block
  <2>5. ImageBytes(installed) \in Nat /\ ImageBytes(Expected) \in Nat
    BY <1>1, ExpectedType, BytesType
  <2> QED BY <2>1, <2>4, <2>5
<1>4. CASE m < n
  <2>1. ImageBytes(installed) <= m * BlockSize  BY <1>1, BytesFit
  <2>2. m <= n - 1  BY <1>1, <1>4
  <2>3. m * BlockSize <= (n - 1) * BlockSize  BY <1>1, <1>2, <2>2, MulMonotone
  <2>4. m * BlockSize \in Nat  BY <1>1
  <2> HIDE DEF n, m
  <2> QED BY <1>2, <1>3, <2>1, <2>3, <2>4
<1>5. CASE m = n
  <2>1. n - 1 \in 0 .. n - 1 /\ n - 1 \notin remaining /\ (n - 1) + 1 = n
    BY <1>1, <1>5
  <2>2. installed[(n - 1) + 1] = Target(n - 1)  BY <2>1 DEF Placed
  <2>3. installed[n] = Expected[n]  BY <2>1, <2>2 DEF Target
  <2>4. ImageBytes(installed) <= (m - 1) * BlockSize + Len(installed[m])
    BY <1>1, <1>5, LastBytes
  <2>5. ImageBytes(installed) <= ImageBytes(Expected)  BY <1>3, <1>5, <2>3, <2>4
  <2> QED BY <1>3, <2>5
<1> QED BY <1>1, <1>4, <1>5

(* A step that keeps the blocks the new image has keeps both.              *)
LEMMA FrontKept ==
  ASSUME Placed, FullUntil(installed, Len(Expected)), Len(Expected) \in Nat,
         Len(installed') \in Nat, DOMAIN installed' = 1 .. Len(installed'),
         Len(installed') >= Len(Expected), remaining' = remaining,
         \A i \in 1 .. Len(Expected) : installed'[i] = installed[i]
  PROVE  Shape' /\ Placed'
<1>1. FullUntil(installed, Len(Expected))'
  <2> SUFFICES ASSUME NEW i \in 1 .. Len(Expected) - 1
               PROVE  Len(installed'[i]) = BlockSize
    BY DEF FullUntil
  <2>1. i \in 1 .. Len(Expected)  OBVIOUS
  <2> QED BY <2>1 DEF FullUntil
<1>2. Placed'
  <2> SUFFICES ASSUME NEW x \in 0 .. Len(Expected) - 1, x \notin remaining
               PROVE  x + 1 \in DOMAIN installed' /\ installed'[x + 1] = Target(x)
    BY DEF Placed, Target
  <2>1. x + 1 \in 1 .. Len(Expected) /\ x + 1 \in 1 .. Len(installed')  OBVIOUS
  <2> QED BY <2>1 DEF Placed
<1> QED BY <1>1, <1>2 DEF Shape

(* Every structured action but commit keeps the shape and what is placed.  *)
LEMMA ProgressKept ==
  ASSUME ImagesRead, EnvTypeInv, MirrorInv, Structured, Shape, Placed,
         NEW t, NEW op, StructuredOp(t, op), op.op \notin {"rollback", "commit"}
  PROVE  Shape' /\ Placed'
<1> DEFINE n == Len(Expected)
           m == Len(installed)
<1>1. /\ working = installed /\ Running /\ Succeed(op) /\ Done(t, op) /\ Masked(t, op)
      /\ remaining' = remaining \ ProcessedBy(t, op)
  BY StructuredAccepted
<1>2. t \in remaining /\ EnvOp(op) /\ op.op \in StructuredKind /\ op \in Operation
  BY DEF StructuredOp, EnvOp
<1>3. t \in 0 .. n - 1 /\ remaining \subseteq 0 .. n - 1  BY <1>2 DEF EnvTypeInv, FrameInv
<1>4. /\ n \in Nat /\ m \in Nat /\ installed \in Image /\ DOMAIN installed = 1 .. m
      /\ Expected \in Image /\ t \in Nat /\ n # 0 /\ t < n
  BY <1>3, ExpectedType, ImageLengths DEF EnvTypeInv
<1>5. TypeInv  BY DEF EnvTypeInv
<1>6. TypeInv'  BY <1>1, <1>2, RecordKeepsBounds
<1>7. DOMAIN installed' = 1 .. Len(installed') /\ Len(installed') \in Nat
  BY <1>6 DEF TypeInv, Image
<1>8. CASE op.op \in {"keep", "backup", "checkpoint", "verify"}
  <2>1. Yields(installed, backups, {})
          \/ \E area : Yields(installed, area, {})
    BY <1>1, <1>8, SucceedYields
  <2>2. installed' = installed  BY <2>1 DEF Yields
  <2>3. op.op = "keep" => op.target = t /\ CanKeep(t)  BY <1>1 DEF Masked
  <2>4. remaining' = (IF op.op = "keep" THEN remaining \ {t} ELSE remaining)
    BY <1>1, <1>8 DEF ProcessedBy, Writes
  <2>5. Shape'
    <3>1. n - 1 \in remaining' => n - 1 \in remaining  BY <2>4
    <3> QED BY <2>2, <3>1 DEF Shape, FullUntil
  <2>6. op.op = "keep" => t + 1 \in DOMAIN installed /\ installed[t + 1] = Target(t)
    BY <1>1, <1>4, <2>3 DEF CanKeep, InWorking
  <2>7. Placed'  BY <2>2, <2>4, <2>6 DEF Placed, Target
  <2> QED BY <2>5, <2>7
<1>9. CASE op.op \in Writes
  <2>1. op.target = t /\ remaining' = remaining \ {t}
    BY <1>1, <1>9 DEF Done, ProcessedBy
  <2>2. installed' = WriteBlock(installed, t, Target(t))
    BY <1>1, <1>2, <1>5, <1>9, <2>1, WriteStep
  <2>3. /\ Len(installed') = IF t < m THEN m ELSE t + 1
        /\ installed'[t + 1] = Target(t)
        /\ \A i \in 1 .. m : i # t + 1 => installed'[i] = installed[i]
    BY <1>4, <2>2, WrittenBlocks
  <2>4. Placed'
    <3> SUFFICES ASSUME NEW x \in 0 .. n - 1, x \notin remaining'
                 PROVE  x + 1 \in DOMAIN installed' /\ installed'[x + 1] = Target(x)
      BY DEF Placed, Target
    <3>1. CASE x = t  BY <1>4, <1>7, <2>3, <3>1
    <3>2. CASE x # t
      <4>1. x + 1 \in 1 .. m /\ installed[x + 1] = Target(x)
        BY <1>4, <2>1, <3>2 DEF Placed
      <4>2. x + 1 # t + 1  BY <1>4, <3>2
      <4> QED BY <1>4, <1>7, <2>3, <4>1, <4>2
    <3> QED BY <3>1, <3>2
  <2>5. CASE m >= n /\ FullUntil(installed, n)
    <3>1. Len(installed') = m
      <4>1. t < m  BY <1>4, <2>5
      <4> QED BY <2>3, <4>1
    <3>2. ASSUME NEW i \in 1 .. n - 1  PROVE Len(installed'[i]) = BlockSize
      <4>1. CASE i = t + 1
        <5>1. installed'[i] = Expected[i]  BY <2>3, <4>1 DEF Target
        <5>2. Len(Expected[i]) = BlockSize  BY ExpectedShape DEF FullUntil
        <5> QED BY <5>1, <5>2
      <4>2. CASE i # t + 1
        <5>1. i \in 1 .. m  BY <1>4, <2>5
        <5> QED BY <2>3, <2>5, <4>2, <5>1 DEF FullUntil
      <4> QED BY <4>1, <4>2
    <3>3. FullUntil(installed', n)  BY <3>2 DEF FullUntil
    <3> QED BY <2>4, <2>5, <3>1, <3>3 DEF Shape, FullUntil
  <2>6. CASE m <= n /\ (m = n => n - 1 \notin remaining)
    <3>1. Len(installed') <= n  BY <1>4, <2>3, <2>6
    <3>2. Len(installed') = n => n - 1 \notin remaining'
      BY <1>4, <2>1, <2>3, <2>6
    <3> QED BY <2>4, <3>1, <3>2 DEF Shape
  <2> QED BY <2>5, <2>6 DEF Shape
<1>10. CASE op.op = "delete"
  <2>1. Applicable(op) /\ op.target >= n  BY <1>1, <1>10 DEF Masked
  <2>2. op.target \in Nat /\ op.count \in Nat  BY <1>2, <1>10, OperationKind DEF DeleteOp
  <2>3. op.count > 0 /\ op.target < m /\ op.target + op.count <= m
    <3>1. op.count > 0 /\ InImage(op.target) /\ InImage(op.target + op.count - 1)
      BY <1>10, <2>1 DEF Applicable
    <3> QED BY <1>4, <2>2, <3>1 DEF InImage
  <2>4. m >= n /\ FullUntil(installed, n)  BY <1>4, <2>1, <2>2, <2>3 DEF Shape
  <2>5. installed' = DeleteBlocks(installed, op.target, op.count)
    <3>1. Yields(DeleteBlocks(installed, op.target, op.count), backups,
                 Removed(op.target .. op.target + op.count - 1))
      BY <1>1, <1>10, SucceedYields
    <3> QED BY <3>1 DEF Yields
  <2>6. /\ Len(installed') = m - op.count
        /\ \A i \in 1 .. op.target : installed'[i] = installed[i]
    BY <1>4, <2>2, <2>3, <2>5, DeletedBlocks
  <2>7. Len(installed') >= n  BY <1>4, <2>1, <2>2, <2>3, <2>6
  <2>8. \A i \in 1 .. n : installed'[i] = installed[i]  BY <1>4, <2>1, <2>2, <2>6
  <2>9. remaining' = remaining  BY <1>1, <1>10 DEF ProcessedBy, Writes
  <2> QED BY <1>4, <1>7, <2>4, <2>7, <2>8, <2>9, FrontKept
<1>11. CASE op.op = "truncate"
  <2>1. op = CutToSize /\ ImageBytes(installed) > ImageBytes(Expected)
    BY <1>1, <1>11 DEF Masked
  <2>2. m >= n /\ FullUntil(installed, n)  BY <1>4, <2>1, LongImage
  <2>3. installed' = TruncateBytes(installed, ImageBytes(Expected))
    <3>1. op.unit = "bytes" /\ op.size = ImageBytes(Expected)  BY <2>1, CutOperation
    <3>2. Yields(TruncateBytes(installed, op.size), backups, Removed(LastCut(op)))
      BY <1>1, <1>11, <3>1, SucceedYields
    <3> QED BY <3>1, <3>2 DEF Yields
  <2>4. ImageBytes(Expected) <= ImageBytes(installed)
    BY <1>4, <2>1, BytesType
  <2>5. /\ Len(installed') = n /\ \A i \in 1 .. n - 1 : installed'[i] = installed[i]
        /\ installed[n] = Expected[n] => installed'[n] = installed[n]
    BY <1>4, <2>2, <2>3, <2>4, CutKeepsFront DEF ImagesRead
  <2>6. remaining' = remaining  BY <1>1, <1>11 DEF ProcessedBy, Writes
  <2>7. FullUntil(installed', n)  BY <1>4, <2>2, <2>5 DEF FullUntil
  <2>8. Placed'
    <3> SUFFICES ASSUME NEW x \in 0 .. n - 1, x \notin remaining
                 PROVE  x + 1 \in DOMAIN installed' /\ installed'[x + 1] = Target(x)
      BY <2>6 DEF Placed, Target
    <3>1. installed[x + 1] = Target(x)  BY DEF Placed
    <3>2. x + 1 \in 1 .. n  BY <1>4
    <3>3. CASE x + 1 = n
      <4>1. installed[n] = Expected[n]  BY <3>1, <3>3 DEF Target
      <4> QED BY <1>7, <2>5, <3>1, <3>2, <3>3, <4>1
    <3>4. CASE x + 1 # n
      <4>1. x + 1 \in 1 .. n - 1  BY <1>4, <3>2, <3>4
      <4> QED BY <1>7, <2>5, <3>1, <3>2, <4>1
    <3> QED BY <3>3, <3>4
  <2>9. Shape'  BY <1>4, <2>5, <2>7 DEF Shape, FullUntil
  <2> QED BY <2>8, <2>9
<1> QED BY <1>2, <1>8, <1>9, <1>10, <1>11 DEF StructuredKind, Writes

LEMMA ActivatesFits == Activates => SlotFits
BY DEF Activates, SlotFits

LEMMA PlacedInFront ==
  ASSUME NEW blocks \in Image, Len(Expected) \in Nat,
         \A t \in 0 .. Len(Expected) - 1 : t + 1 \in DOMAIN blocks /\ blocks[t + 1] = Target(t)
  PROVE  Take(BlocksToBytes(blocks), ImageBytes(Expected)) = BlocksToBytes(Expected)
<1>1. Len(blocks) \in Nat /\ DOMAIN blocks = 1 .. Len(blocks) /\ Expected \in Image
  BY ExpectedType DEF Image
<1>2. Agree(Expected, blocks, Len(Expected))
  <2> SUFFICES ASSUME NEW i \in 1 .. Len(Expected)  PROVE Expected[i] = blocks[i]
    BY DEF Agree
  <2>1. i - 1 \in 0 .. Len(Expected) - 1 /\ (i - 1) + 1 = i  OBVIOUS
  <2> QED BY <2>1 DEF Target
<1>3. Len(Expected) <= Len(blocks)
  <2> SUFFICES ASSUME Len(Expected) # 0  PROVE Len(Expected) <= Len(blocks)
    BY <1>1
  <2>1. Len(Expected) - 1 \in 0 .. Len(Expected) - 1
        /\ (Len(Expected) - 1) + 1 = Len(Expected)
    OBVIOUS
  <2> QED BY <1>1, <2>1
<1> QED BY <1>1, <1>2, <1>3, BytesInFront

LEMMA TransformedInFront == Transformed => TargetInFront
<1> DEFINE b == BlocksToBytes(Expected)
<1>1. b \in Seq(Byte) /\ Len(b) \in Nat  BY ExpectedType, BytesType DEF Block
<1> HIDE DEF b
<1>2. Take(b, Len(b)) = b  BY <1>1, TakeStart
<1> QED BY <1>2 DEF Transformed, TargetInFront, ImageBytes, b

(* Every step of an agent of structured actions keeps what its episode     *)
(* needs.                                                                  *)
LEMMA ProgressInit ==
  ASSUME ImagesRead, EnvInit  PROVE ProgressInv
<1>1. /\ installState = "ready" /\ errors = {} /\ installed \in InitialImages
      /\ remaining = 0 .. Len(Expected) - 1
      /\ pc = (IF remaining = {} THEN "finish" ELSE "choose")
  BY DEF EnvInit, Init
<1>2. /\ TypeInv /\ installed \in Image /\ Len(installed) \in Nat /\ Len(Expected) \in Nat
  BY ExpectedType, InitType, ImageLengths DEF EnvInit
<1>3. Shape
  <2>1. FullUntil(installed, Len(installed))  BY <1>1, <1>2, ReadImage DEF ImagesRead
  <2>2. CASE Len(installed) >= Len(Expected)
    <3>1. \A i \in 1 .. Len(Expected) - 1 : i \in 1 .. Len(installed) - 1
      BY <1>2, <2>2
    <3> QED BY <2>1, <2>2, <3>1 DEF Shape, FullUntil
  <2>3. CASE Len(installed) < Len(Expected)  BY <1>2, <2>3 DEF Shape
  <2> QED BY <1>2, <2>2, <2>3
<1>4. Placed  BY <1>1 DEF Placed
<1>5. ASSUME pc = "finish"  PROVE TargetInFront
  <2>1. 0 .. Len(Expected) - 1 = {}  BY <1>1, <1>5
  <2> QED BY <1>2, <2>1, PlacedInFront DEF TargetInFront
<1> QED BY <1>1, <1>3, <1>4, <1>5 DEF ProgressInv

LEMMA ProgressStep ==
  ASSUME ImagesRead, EnvTypeInv, MirrorInv, ProgressInv, [EnvNext]_envVars
  PROVE  ProgressInv'
<1>1. actions' = actions  BY ActionsKept
<1> SUFFICES ASSUME Advancing
             PROVE  /\ pc' \in {"choose", "finish", "complete"} =>
                         errors' = {} /\ installState' \in {"ready", "installing", "complete"}
                    /\ pc' = "choose" => Shape' /\ Placed'
                    /\ pc' = "finish" => TargetInFront'
  BY <1>1 DEF ProgressInv, Advancing, Structured
<1>2. Structured /\ "rollback" \notin actions /\ Activates /\ SlotFits
  BY ActivatesFits DEF Advancing
<1>3. /\ pc \in {"choose", "finish", "complete"} =>
           errors = {} /\ installState \in {"ready", "installing", "complete"}
      /\ pc = "choose" => Shape /\ Placed
      /\ pc = "finish" => TargetInFront
  BY DEF ProgressInv
<1>4. TypeInv  BY DEF EnvTypeInv
<1>5. ASSUME NEW t \in remaining, StructuredAction(t)
      PROVE  /\ errors' = {} /\ installState' \in {"installing", "complete"}
             /\ pc' = "choose" => Shape' /\ Placed'
             /\ pc' = "finish" => TargetInFront'
             /\ pc' \in {"choose", "finish"}
  <2>1. PICK op : StructuredOp(t, op)  BY <1>5, StructuredStep
  <2>2. pc = "choose" /\ op.op \in actions /\ EnvOp(op)  BY <2>1 DEF StructuredOp
  <2>3. op.op # "rollback"  BY <1>2, <2>2
  <2>4. /\ Succeed(op) /\ Masked(t, op)
        /\ pc' = (IF remaining' = {} THEN "finish" ELSE "choose")
        /\ op.op # "commit" => errors' = {} /\ installState' = "installing"
        /\ op.op = "commit" => remaining' = {}
    BY <1>2, <2>1, <2>3, StructuredAccepted
  <2>5. installed' \in Image /\ Len(Expected) \in Nat
    BY <2>2, <2>4, RecordKeepsBounds, ExpectedType DEF TypeInv
  <2>6. CASE op.op # "commit"
    <3>1. Shape' /\ Placed'  BY <1>2, <1>3, <2>1, <2>2, <2>3, <2>6, ProgressKept
    <3>2. ASSUME remaining' = {}  PROVE TargetInFront'
      <4> PICK blocks \in Image : blocks = installed'  BY <2>5
      <4>1. \A x \in 0 .. Len(Expected) - 1 :
              x + 1 \in DOMAIN blocks /\ blocks[x + 1] = Target(x)
        BY <3>1, <3>2 DEF Placed, Target
      <4>2. Take(BlocksToBytes(blocks), ImageBytes(Expected)) = BlocksToBytes(Expected)
        BY <2>5, <4>1, PlacedInFront
      <4> QED BY <4>2 DEF TargetInFront
    <3> QED BY <2>4, <2>6, <3>1, <3>2
  <2>7. CASE op.op = "commit"
    <3>1. Transformed /\ errors = {}  BY <1>3, <2>2, <2>4, <2>7 DEF Masked
    <3>2. /\ installed' = Completion("installing").installed
          /\ installState' = Completion("installing").state
          /\ errors' = Completion("installing").errors
      BY <1>4, <2>4, <2>7, CommitCompletes
    <3>3. installed' = installed /\ installState' = "complete" /\ errors' = {}
      BY <1>2, <3>1, <3>2, CompletionOfTarget
    <3>4. TargetInFront'
      <4>1. TargetInFront  BY <3>1, TransformedInFront
      <4> QED BY <3>3, <4>1 DEF TargetInFront
    <3> QED BY <2>4, <2>7, <3>3, <3>4
  <2> QED BY <2>6, <2>7
<1>6. ASSUME NEW t, NEW action \in Legacy, ApplyLegacy(action, t)  PROVE FALSE
  BY <1>2, <1>6 DEF ApplyLegacy, Chooses, Structured
<1>7. ~LegacyBackup /\ pc # "modify"  BY <1>2 DEF MirrorInv, LegacyBackup
<1>8. CASE Finalize
  <2>1. pc = "finish" /\ errors = {} /\ TargetInFront
        /\ installState \in {"ready", "installing", "complete"}
    BY <1>3, <1>8 DEF Finalize
  <2>2. Applicable(CutToSize)  BY CutOperation
  <2>3. \/ Succeed(CutToSize) /\ pc' = "complete"
        \/ pc' = "complete" /\ UNCHANGED <<vars, env>>
    BY <1>8, <2>1, <2>2 DEF Finalize, Record, Fail, Running
  <2>4. CASE Succeed(CutToSize) /\ pc' = "complete"
    BY <1>4, <2>1, <2>4, CutToExpected
  <2>5. CASE pc' = "complete" /\ UNCHANGED <<vars, env>>  BY <2>1, <2>5 DEF vars
  <2> QED BY <2>3, <2>4, <2>5
<1>9. CASE CompleteUpdate  BY <1>9 DEF CompleteUpdate
<1>10. CASE UNCHANGED envVars
  BY <1>3, <1>10 DEF envVars, vars, Shape, Placed, Target, FullUntil, TargetInFront
<1> QED BY <1>5, <1>6, <1>7, <1>8, <1>9, <1>10 DEF EnvNext, StructuredAction

LEMMA FinishFacts ==
  ASSUME EnvTypeInv, LegacyInv, ProgressInv, Handled, "rollback" \notin actions, Activates,
         pc \in {"finish", "complete"}
  PROVE  /\ errors = {} /\ installState \in {"ready", "installing", "complete"}
         /\ pc = "finish" => TargetInFront
<1>1. CASE Structured  BY <1>1 DEF ProgressInv, Advancing
<1>2. CASE LegacyHandled
  <2>1. errors = {} /\ installState \in {"ready", "installing"}
    BY <1>2 DEF LegacyInv
  <2> QED BY <1>2, <2>1, LegacyInFront
<1> QED BY <1>1, <1>2 DEF Handled, Structured, LegacyHandled

LEMMA NotLongerIsExact ==
  ASSUME installed \in Image, TargetInFront, ~(ImageBytes(installed) > ImageBytes(Expected))
  PROVE  Transformed
<1> DEFINE b == BlocksToBytes(installed)
           n == ImageBytes(Expected)
<1>1. b \in Seq(Byte) /\ Len(b) \in Nat /\ n \in Nat
  BY ExpectedType, BytesType DEF Block, ImageBytes
<1>2. Len(b) <= n  BY <1>1 DEF ImageBytes
<1> HIDE DEF b, n
<1>3. Take(b, n) = IF n <= Len(b) THEN SubSeq(b, 1, n) ELSE b  BY <1>1, TakeStart
<1>4. SubSeq(b, 1, Len(b)) = b  BY <1>1
<1>5. Take(b, n) = b
  <2>1. CASE n <= Len(b)
    <3>1. n = Len(b)  BY <1>1, <1>2, <2>1
    <3> QED BY <1>3, <1>4, <3>1
  <2>2. CASE ~(n <= Len(b))  BY <1>3, <2>2
  <2> QED BY <2>1, <2>2
<1> QED BY <1>5 DEF TargetInFront, Transformed, b, n

LEMMA EndStep ==
  ASSUME ImagesRead, EnvTypeInv, MirrorInv, LegacyInv, ProgressInv, EndInv,
         [EnvNext]_envVars
  PROVE  EndInv'
<1>1. actions' = actions /\ snapshot' = snapshot  BY ActionsKept, SnapshotKept
<1> SUFFICES ASSUME Handled, "rollback" \notin actions, Activates
             PROVE  /\ pc' = "complete" => Transformed'
                    /\ pc' = "done" => Transformed' /\ installState' = "complete"
  BY <1>1 DEF EndInv, Handled, LegacyAgent
<1>2. /\ pc = "complete" => Transformed
      /\ pc = "done" => Transformed /\ installState = "complete"
  BY DEF EndInv
<1>3. TypeInv /\ SlotFits  BY ActivatesFits DEF EnvTypeInv
<1>4. ASSUME NEW t \in remaining, StructuredAction(t)  PROVE pc' \notin {"complete", "done"}
  <2>1. PICK op : StructuredOp(t, op)  BY <1>4, StructuredStep
  <2> QED BY <2>1 DEF StructuredOp, Raised, Done, EndAction
<1>5. ASSUME NEW t, NEW action, ApplyLegacy(action, t)  PROVE pc' \notin {"complete", "done"}
  BY <1>5 DEF ApplyLegacy
<1>6. CASE LegacyBackup  BY <1>6 DEF LegacyBackup, Record
<1>7. ASSUME NEW op, Modify(op)  PROVE pc' \notin {"complete", "done"}
  BY <1>7 DEF Modify, Record, EndAction
<1>8. CASE Finalize
  <2>1. pc = "finish"  BY <1>8 DEF Finalize
  <2>2. TargetInFront  BY <2>1, FinishFacts
  <2>3. \/ Succeed(CutToSize)
        \/ pc' = "raised"
        \/ /\ ~(ImageBytes(installed) > ImageBytes(Expected)) /\ pc' = "complete"
           /\ UNCHANGED <<vars, env>>
    BY <1>8 DEF Finalize, Record
  <2>4. CASE Succeed(CutToSize)
    <3>1. installed' = Expected  BY <1>3, <2>2, <2>4, CutToExpected
    <3>2. pc' \in {"complete", "raised"}  BY <1>8 DEF Finalize, Record
    <3> QED BY <3>1, <3>2 DEF Transformed
  <2>5. CASE /\ ~(ImageBytes(installed) > ImageBytes(Expected)) /\ pc' = "complete"
             /\ UNCHANGED <<vars, env>>
    <3>1. Transformed  BY <1>3, <2>2, <2>5, NotLongerIsExact DEF TypeInv
    <3> QED BY <2>5, <3>1 DEF Transformed, vars
  <2> QED BY <2>3, <2>4, <2>5
<1>9. CASE CompleteUpdate
  <2>1. pc = "complete" /\ Complete /\ pc' = "done"  BY <1>9 DEF CompleteUpdate
  <2>2. errors = {} /\ installState \in {"ready", "installing", "complete"}
    BY <2>1, FinishFacts
  <2>3. installed' = Completion(installState).installed
        /\ installState' = Completion(installState).state
    BY <2>1 DEF Complete
  <2>4. installed' = installed /\ installState' = "complete"
    BY <1>2, <1>3, <2>1, <2>2, <2>3, CompletionOfTarget
  <2> QED BY <1>2, <2>1, <2>4 DEF Transformed
<1>10. CASE UNCHANGED envVars  BY <1>2, <1>10 DEF envVars, vars, Transformed
<1> QED BY <1>4, <1>5, <1>6, <1>7, <1>8, <1>9, <1>10 DEF EnvNext, StructuredAction

LEMMA EndInit == EnvInit => EndInv
BY DEF EnvInit, EndInv

(* For images that are read from files and a new image that fits its slot  *)
(* and boots: an episode that ends without a rollback has installed the    *)
(* new image and completed, in whatever order the targets were processed,  *)
(* from whatever sources, the old image being shorter or longer, and cut   *)
(* early or late (step, _finalize_structured_update).                      *)
THEOREM FinishedTransformed ==
  ASSUME ImagesRead, Activates  PROVE PolicySpec => []FinishedMeansTransformed
<1> DEFINE Inv == EpisodeInv /\ (policy # "baseline" => ProgressInv /\ EndInv)
<1>1. PolicyInit => Inv
  BY PolicyFrameInit, EnvTypeInit, MirrorInit, LegacyInit, IdleInit, ProgressInit, EndInit
     DEF EpisodeInv, Episode
<1>2. Inv /\ [PolicyNext]_policyVars => Inv'
  BY PolicyStep, EnvTypeNext, MirrorStep, LegacyStep, IdleStep, ProgressStep, EndStep
     DEF EpisodeInv, Episode
<1>3. Inv => FinishedMeansTransformed
  <2> SUFFICES ASSUME Inv, Handled, "rollback" \notin actions, pc = "done"
               PROVE  Transformed /\ installState = "complete"
    BY DEF FinishedMeansTransformed
  <2>1. policy # "baseline"  BY DEF EpisodeInv, Episode, PolicyFrame
  <2> QED BY <2>1 DEF EndInv
<1> QED BY <1>1, <1>2, <1>3, PTL DEF PolicySpec

-----------------------------------------------------------------------------
(* The two policies that save blocks.                                      *)
SavingPolicy == policy \in {"sequential_mb", "backup_aware_copy_delta"}
SameLength == Len(snapshot) = Len(Expected)

ReadyInv ==
  SavingPolicy /\ SameLength =>
    /\ rollbackReady
    /\ pc = "modify" =>
         current.saves \/ Target(current.target) = snapshot[current.target + 1]

SavingInv == (SavingPolicy => policy \in ActionPolicies) /\ ReadyInv

LEMMA SavingInit ==
  ASSUME PolicyInit  PROVE SavingInv
<1>1. SavingPolicy => policy \in ActionPolicies /\ EnvInit
  BY DEF SavingPolicy, PolicyInit
<1>2. EnvInit => rollbackReady /\ pc # "modify"  BY DEF EnvInit, Init
<1> QED BY <1>1, <1>2 DEF SavingInv, ReadyInv

(* What a saving policy leaves for modify to overwrite is saved before or  *)
(* stays as it is.                                                         *)
LEMMA SavingChoice ==
  ASSUME EnvTypeInv, LegacyInv, LegacyHandled, SavingPolicy, SameLength,
         NEW choice \in Offered, ApplyLegacy(choice[1], choice[2])
  PROVE  /\ rollbackReady' = rollbackReady /\ snapshot' = snapshot
         /\ pc' = "modify" =>
              \/ current'.saves
              \/ Target(current'.target) = snapshot[current'.target + 1]
<1> DEFINE action == choice[1]
           t == choice[2]
           saves == action = "MB" /\ Saves(t)
<1>1. /\ pc = "choose" /\ Working /\ t \in remaining
      /\ current' = [target |-> t, saves |-> saves,
                     block |-> IF saves THEN working[t + 1] ELSE << >>]
      /\ pc' = (IF saves THEN "backup" ELSE "modify")
      /\ UNCHANGED vars
  BY DEF ApplyLegacy, Chooses, Working
<1>2. /\ Len(installed) = Len(snapshot) /\ Len(installed) <= Len(working)
      /\ Len(installed) \in Nat /\ Len(working) \in Nat /\ Len(Expected) \in Nat
  BY <1>1, LegacyFacts
<1>3. t \in 0 .. Len(Expected) - 1 /\ remaining \subseteq Nat
  <2>1. remaining \subseteq 0 .. Len(Expected) - 1  BY DEF EnvTypeInv, FrameInv
  <2>2. t \in remaining  BY <1>1
  <2>3. 0 .. Len(Expected) - 1 \subseteq Nat  OBVIOUS
  <2> HIDE DEF t
  <2> QED BY <2>1, <2>2, <2>3
<1>4. Saves(t) /\ t < Len(snapshot)  BY <1>2, <1>3 DEF Saves, InWorking, SameLength
<1>5. current'.target = t  BY <1>1
<1>6. action = "MB" \/ ~NeedsBackup(t)
  <2>1. CASE policy = "sequential_mb"  BY <2>1 DEF Offered
  <2>2. CASE policy = "backup_aware_copy_delta"
    <3> DEFINE unchanged == {x \in remaining : ~NeedsBackup(x)}
    <3>1. CASE unchanged # {}
      <4>1. choice \in {<<"M", FirstOf(unchanged)>>}  BY <2>2, <3>1 DEF Offered
      <4>2. unchanged \subseteq Nat  BY <1>3
      <4>3. Min(unchanged) \in unchanged  BY <3>1, <4>2, MinIn
      <4>4. t = Min(unchanged)  BY <4>1 DEF FirstOf
      <4> QED BY <4>3, <4>4
    <3>2. CASE unchanged = {}
      <4>1. choice \in {<<ActionFor(x), x>> :
                          x \in IF Copyable # {} THEN {FirstOf(Copyable)} ELSE SmallestPatch}
        BY <2>2, <3>2 DEF Offered
      <4>2. action = ActionFor(t)  BY <4>1
      <4>3. NeedsBackup(t)  BY <1>1, <3>2
      <4> QED BY <4>2, <4>3 DEF ActionFor
    <3> QED BY <3>1, <3>2
  <2> QED BY <2>1, <2>2 DEF SavingPolicy
<1>7. ~saves => Target(t) = snapshot[t + 1]  BY <1>4, <1>6 DEF NeedsBackup
<1> HIDE DEF saves, t, action
<1> QED BY <1>1, <1>5, <1>7 DEF vars

LEMMA SavingModifies ==
  ASSUME EnvTypeInv, LegacyInv, LegacyHandled, rollbackReady, pc = "modify",
         current.saves \/ Target(current.target) = snapshot[current.target + 1],
         NEW op \in Modifications(current.target), Modify(op)
  PROVE  rollbackReady'
<1> DEFINE t == current.target
<1>1. Working /\ Between  BY DEF Working, Between
<1>2. TypeInv /\ Saving  BY <1>1, LegacyFacts DEF EnvTypeInv
<1>3. LegacyOp(t, op)  BY ModificationOp
<1>4. Applicable(op)  BY <1>3, LegacyAccepts
<1>5. Running  BY <1>1, LegacyFacts
<1>6. Succeed(op)  BY <1>4, <1>5 DEF Modify, Record, Fail
<1>7. EnvOp(op) /\ op.target = t /\ op.op \in {"keep", "raw_insert", "copy", "delta"}
  BY <1>3 DEF LegacyOp
<1>8. Overwritten(t, Target(t)) = {}
  <2>1. CASE current.saves
    <3>1. \E id \in DOMAIN backups : backups[id].index = t  BY <1>2, <2>1 DEF Saving
    <3>2. ~Unprotected(t)  BY <3>1 DEF Unprotected
    <3> QED BY <3>2 DEF Overwritten
  <2>2. CASE Target(t) = snapshot[t + 1]  BY <2>2 DEF Overwritten
  <2> QED BY <2>1, <2>2
<1>9. CASE op.op = "keep"
  <2>1. Yields(installed, backups, {})  BY <1>6, <1>9, SucceedYields
  <2> QED BY <2>1 DEF Yields
<1>10. CASE op.op \in Writes /\ op.op # "append"
  <2>1. rollbackReady' = (rollbackReady /\ Overwritten(op.target, Target(op.target)) = {})
    BY <1>2, <1>6, <1>7, <1>10, WriteStep
  <2> QED BY <1>7, <1>8, <2>1
<1> QED BY <1>7, <1>9, <1>10 DEF Writes

LEMMA SavingFinalizes ==
  ASSUME EnvTypeInv, LegacyInv, LegacyHandled, SameLength, Finalize
  PROVE  rollbackReady' = rollbackReady
<1>1. pc = "finish" /\ Working  BY DEF Finalize, Working
<1>2. /\ Len(installed) = Len(snapshot) /\ installed \in Image /\ Len(installed) \in Nat
  BY <1>1, LegacyFacts
<1>3. Agree(installed, Expected, Len(installed))
  BY <1>1, <1>2, LegacyInFront DEF Agree, SameLength
<1>4. ImageBytes(installed) <= ImageBytes(Expected)
  BY <1>2, <1>3, ExpectedType, BytesInFront DEF SameLength
<1>5. ~(ImageBytes(installed) > ImageBytes(Expected))
  BY <1>2, <1>4, ExpectedType, BytesType
<1> QED BY <1>5 DEF Finalize, vars

LEMMA SavingStep ==
  ASSUME ImagesRead, EpisodeInv, SavingInv, [PolicyNext]_policyVars
  PROVE  SavingInv'
<1>1. policy' = policy  BY PolicyStep DEF EpisodeInv, Episode
<1> SUFFICES ASSUME SavingPolicy, SameLength'
             PROVE  /\ rollbackReady'
                    /\ pc' = "modify" =>
                         \/ current'.saves
                         \/ Target(current'.target) = snapshot'[current'.target + 1]
  BY <1>1 DEF SavingInv, ReadyInv, SavingPolicy, Target
<1>2. policy \in ActionPolicies /\ policy # "baseline" /\ policy # "agent"
  BY PolicyNames DEF SavingInv
<1>3. /\ EnvTypeInv /\ LegacyInv /\ MirrorInv /\ IdleInv /\ [EnvNext]_envVars
      /\ actions = Legacy
  BY <1>2, PolicyStep DEF EpisodeInv, Episode, PolicyFrame
<1>4. snapshot' = snapshot /\ SameLength
  BY <1>3, SnapshotKept DEF SameLength
<1>5. LegacyHandled
  <2>1. Len(Expected) <= Len(snapshot)
    BY <1>3, <1>4, ImageLengths DEF EnvTypeInv, SameLength
  <2> QED BY <1>3, <2>1 DEF LegacyHandled, LegacyAgent
<1>6. /\ rollbackReady
      /\ pc = "modify" =>
           current.saves \/ Target(current.target) = snapshot[current.target + 1]
  BY <1>4 DEF SavingInv, ReadyInv
<1>7. CASE Choose
  <2>1. PICK choice \in Offered : ApplyLegacy(choice[1], choice[2])  BY <1>7 DEF Choose
  <2> QED BY <1>3, <1>4, <1>5, <1>6, <2>1, SavingChoice
<1>8. CASE LegacyBackup
  <2> DEFINE op == [op |-> "backup", source |-> current.target,
                    id |-> DefaultBackupId(current.target)]
  <2>1. pc = "backup" /\ Record(op, pc' = "modify" /\ UNCHANGED env)
    BY <1>8 DEF LegacyBackup
  <2>2. op.op = "backup"  OBVIOUS
  <2> HIDE DEF op
  <2>3. CASE Succeed(op) /\ pc' = "modify" /\ UNCHANGED env
    <3>1. \E area : Yields(installed, area, {})  BY <2>2, <2>3, SucceedYields
    <3>2. rollbackReady'  BY <1>6, <3>1 DEF Yields
    <3>3. current.saves /\ current' = current
      BY <1>3, <1>5, <2>1, <2>3 DEF LegacyInv, Working, Saving, env
    <3> QED BY <3>2, <3>3
  <2>4. CASE Raised(op)
    BY <1>6, <2>4 DEF Raised, Fail, safety, vars
  <2> QED BY <2>1, <2>3, <2>4 DEF Record, Raised
<1>9. ASSUME pc = "modify", NEW op \in Modifications(current.target), Modify(op)
      PROVE  rollbackReady' /\ pc' # "modify"
  <2>1. rollbackReady'  BY <1>3, <1>5, <1>6, <1>9, SavingModifies
  <2>2. pc' # "modify"  BY <1>9 DEF Modify, Record, EndAction
  <2> QED BY <2>1, <2>2
<1>10. CASE Finalize
  <2>1. rollbackReady'  BY <1>3, <1>4, <1>5, <1>6, <1>10, SavingFinalizes
  <2>2. pc' # "modify"  BY <1>10 DEF Finalize, Record
  <2> QED BY <2>1, <2>2
<1>11. CASE CompleteUpdate
  BY <1>6, <1>11 DEF CompleteUpdate, Complete, safety
<1>12. CASE UNCHANGED policyVars
  BY <1>6, <1>12 DEF policyVars, envVars, vars, Target
<1> QED BY <1>2, <1>7, <1>8, <1>9, <1>10, <1>11, <1>12 DEF PolicyNext, GoOn

(* For images that are read from files, the new one of as many blocks as   *)
(* the old one: under sequential_mb and backup_aware_copy_delta the device *)
(* is ready to roll back after every step (_target_needs_backup,           *)
(* _action_for_target, _apply_legacy_action).                              *)
THEOREM SavingPoliciesReady ==
  ASSUME ImagesRead  PROVE PolicySpec => []SavingPoliciesStayReady
<1>1. PolicyInit => SavingInv  BY SavingInit
<1>2. EpisodeInv /\ SavingInv /\ [PolicyNext]_policyVars => SavingInv'  BY SavingStep
<1>3. SavingInv => SavingPoliciesStayReady
  BY DEF SavingInv, ReadyInv, SavingPolicy, SameLength, SavingPoliciesStayReady
<1> QED BY <1>1, <1>2, <1>3, EpisodeCorrect, PTL DEF PolicySpec
=============================================================================

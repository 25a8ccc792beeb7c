--------------------------- MODULE AgreementProofs ---------------------------
(***************************************************************************)
(* The simulator and the replay engine, for every plan, configuration and  *)
(* image: a step of the simulator on one slot is a step of the engine or   *)
(* none, cuts are exact and normal, and a peak above a budget is reported  *)
(* when the package is staged whole.  The operators are the same in both,  *)
(* so the refinement rests on what an operation yields (DeploymentProofs). *)
(***************************************************************************)
EXTENDS ReplayAgreement, DeploymentProofs

(* The operators that both implementations are built from are the same.    *)
LEMMA SameOperators ==
  /\ \A S : R!Max(S) = Max(S)
  /\ \A b : R!BlocksToBytes(b) = BlocksToBytes(b)
  /\ \A b : R!ImageBytes(b) = ImageBytes(b)
  /\ \A b, t, d : R!WriteBlock(b, t, d) = WriteBlock(b, t, d)
  /\ \A b, t, n : R!DeleteBlocks(b, t, n) = DeleteBlocks(b, t, n)
  /\ \A s, n : R!Take(s, n) = Take(s, n)
  /\ \A b, n : R!TruncateBytes(b, n) = TruncateBytes(b, n)
  /\ \A a, i, r : R!SaveBackup(a, i, r) = SaveBackup(a, i, r)
  /\ \A h, v : R!HashMatches(h, v) <=> HashMatches(h, v)
  /\ R!NoLimit = NoLimit
<1>1. \A S : R!Max(S) = Max(S)  BY DEF R!Max, Max
<1>2. \A S : R!Min(S) = Min(S)  BY DEF R!Min, Min
<1>3. \A b : R!BlocksToBytes(b) = BlocksToBytes(b)
  BY DEF R!FlattenSeq, FlattenSeq, R!BlocksToBytes, BlocksToBytes
<1>4. \A s, n : R!Take(s, n) = Take(s, n)  BY <1>2 DEF R!Take, Take
<1>5. \A d : R!BytesToBlocks(d) = BytesToBlocks(d)
  BY <1>2 DEF R!BytesToBlocks, BytesToBlocks
<1>6. \A b, n : R!TruncateBytes(b, n) = TruncateBytes(b, n)
  BY <1>3, <1>4, <1>5 DEF R!TruncateBytes, TruncateBytes
<1>7. \A b, t, d : R!WriteBlock(b, t, d) = WriteBlock(b, t, d)
  BY <1>1 DEF R!WriteBlock, WriteBlock
<1>8. \A b : R!ImageBytes(b) = ImageBytes(b)  BY <1>3 DEF R!ImageBytes, ImageBytes
<1>9. \A b, t, n : R!DeleteBlocks(b, t, n) = DeleteBlocks(b, t, n)
  BY DEF R!DeleteBlocks, DeleteBlocks
<1>10. \A a, i, r : R!SaveBackup(a, i, r) = SaveBackup(a, i, r)
  BY DEF R!SaveBackup, SaveBackup
<1>11. (\A h, v : R!HashMatches(h, v) <=> HashMatches(h, v)) /\ R!NoLimit = NoLimit
  BY DEF R!HashMatches, HashMatches, R!NoLimit, NoLimit
<1> QED BY <1>1, <1>3, <1>4, <1>6, <1>7, <1>8, <1>9, <1>10, <1>11

(* Both refuse the same operations.                                        *)
LEMMA SameRefusals ==
  ASSUME NEW op
  PROVE  R!Applicable(op) <=> Applicable(op)
BY SameOperators
DEF Applicable, InImage, Readable, SourceBlock, R!Applicable, R!CanKeep, R!CanCopy,
    R!CanPatch, R!CanAppend, R!CanDelete, R!CanRollback, R!CanVerify, R!InImage,
    R!Readable, R!SourceBlock
-----------------------------------------------------------------------------
(* On one slot the end of an update changes neither the image nor the      *)
(* errors.                                                                 *)
LEMMA OneSlotCompletion ==
  ASSUME ~EnableAB, NEW state
  PROVE  Completion(state).installed = installed /\ Completion(state).errors = errors
BY DEF Completion, Finalizes

(* A device with a failed operation takes no other: the strict replay has  *)
(* stopped.                                                                *)
StoppedFails == "operation" \in errors => ~Running

ObservedType ==
  /\ history \in Seq(Plan) /\ Len(history) = applied
  /\ peakBlocks \in Nat /\ verified \in Nat
  /\ rolledBack \in BOOLEAN /\ committed \in BOOLEAN

ReplayInv == TypeInv /\ ObservedType

LEMMA AppendIsWrite ==
  ASSUME NEW blocks \in Image, NEW block \in Block
  PROVE  WriteBlock(blocks, Len(blocks), block) = Append(blocks, block)
<1>1. Len(blocks) \in Nat  BY DEF Image
<1> DEFINE n == Len(blocks)
<1>2. Max({n, n + 1}) = n + 1
  <2>1. n + 1 \in {n, n + 1} /\ \A y \in {n, n + 1} : n + 1 >= y  BY <1>1
  <2>2. \A x \in {n, n + 1} : (\A y \in {n, n + 1} : x >= y) => x = n + 1  BY <1>1
  <2> QED BY <2>1, <2>2 DEF Max
<1>3. WriteBlock(blocks, n, block) =
        [i \in 1 .. n + 1 |-> IF i = n + 1 THEN block
                             ELSE IF i <= n THEN blocks[i] ELSE << >>]
  BY <1>2 DEF WriteBlock
<1>4. /\ Append(blocks, block) \in Seq(Block) /\ Len(Append(blocks, block)) = n + 1
      /\ \A i \in 1 .. n : Append(blocks, block)[i] = blocks[i]
      /\ Append(blocks, block)[n + 1] = block
  BY AppendProperties DEF Image
<1>5. Append(blocks, block) = [i \in 1 .. n + 1 |-> Append(blocks, block)[i]]
  <2> DEFINE a == Append(blocks, block)
  <2>1. a \in Seq(Block) /\ Len(a) = n + 1  BY <1>4
  <2> HIDE DEF a
  <2>2. a \in [1 .. n + 1 -> Block]  BY <2>1, LenProperties
  <2> QED BY <2>2 DEF a
<1>6. \A i \in 1 .. n + 1 : i # n + 1 => i \in 1 .. n  BY <1>1
<1> QED BY <1>1, <1>3, <1>4, <1>5, <1>6

(* A step of the replay for each operation that succeeds.                  *)
LEMMA SucceedReplays ==
  ASSUME ~EnableAB, ReplayInv, StoppedFails, NEW op \in Plan, Succeed(op), Observe(op)
  PROVE  R!ReplayNext /\ errors' = errors
<1>0. /\ Running /\ applied < MaxOps /\ applied' = applied + 1 /\ snapshot' = snapshot
  BY SucceedYields
<1>1. errors' = errors  BY SucceedYields, OneSlotCompletion
<1>2. R!Counted(op)
  <2>1. "operation" \notin errors  BY <1>0 DEF StoppedFails
  <2> QED BY <1>0, <1>1, <2>1 DEF R!Counted, Observe
<1>3. R!Applicable(op) <=> Applicable(op)  BY SameRefusals
<1>4. /\ op.op # "rollback" => rolledBack' = rolledBack
      /\ op.op # "commit" => committed' = committed
      /\ op.op # "verify" => verified' = verified
      /\ ~Grows(op) => peakBlocks' = peakBlocks
  BY DEF ReplayInv, ObservedType, Observe
<1>5. CASE op.op \in {"keep", "skip"}
  <2>1. Applicable(op) /\ installed' = installed /\ backups' = backups
    BY <1>5, SucceedYields DEF Yields
  <2>2. R!CanKeep(op)  BY <1>3, <1>5, <2>1 DEF R!Applicable
  <2>3. R!Keep(op)  BY <1>2, <1>4, <1>5, <2>1, <2>2 DEF R!Keep, Grows
  <2> QED BY <1>1, <2>3 DEF R!ReplayNext
<1>6. CASE op.op = "verify"
  <2>1. Applicable(op) /\ installed' = installed /\ backups' = backups
    BY <1>6, SucceedYields DEF Yields
  <2>2. R!CanVerify(op)  BY <1>3, <1>6, <2>1 DEF R!Applicable
  <2>3. verified' = verified + 1  BY <1>6 DEF Observe
  <2>4. R!Verify(op)  BY <1>2, <1>4, <1>6, <2>1, <2>2, <2>3 DEF R!Verify, Grows
  <2> QED BY <1>1, <2>4 DEF R!ReplayNext
<1>7. CASE op.op \in {"checkpoint", "commit"}
  <2>1. installed' = installed /\ backups' = backups
    BY <1>7, SucceedYields, OneSlotCompletion DEF Yields
  <2>2. committed' = (committed \/ op.op = "commit")  BY DEF Observe
  <2>3. R!Control(op)  BY <1>2, <1>4, <1>7, <2>1, <2>2 DEF R!Control, Grows
  <2> QED BY <1>1, <2>3 DEF R!ReplayNext
<1>8. CASE op.op = "backup"
  <2>1. /\ Applicable(op) /\ installed' = installed
        /\ backups' = SaveBackup(backups, op.id, [index |-> op.source,
                                                 block |-> installed[op.source + 1]])
    BY <1>8, SucceedYields DEF Yields
  <2>2. R!InImage(op.source)  BY <1>3, <1>8, <2>1 DEF R!Applicable
  <2>3. backups' = R!SaveBackup(backups, op.id, [index |-> op.source,
                                                 block |-> installed[op.source + 1]])
    BY <2>1, SameOperators
  <2>4. R!Backup(op)  BY <1>2, <1>4, <1>8, <2>1, <2>2, <2>3 DEF R!Backup, Grows
  <2> QED BY <1>1, <2>4 DEF R!ReplayNext
<1>9. ASSUME Grows(op), NEW target, NEW block,
             installed' = WriteBlock(installed, target, block)
      PROVE  R!Write(target, block)
  <2>1. peakBlocks' = Max({peakBlocks, Len(installed')})  BY <1>9 DEF Observe
  <2> QED BY <1>9, <2>1, SameOperators DEF R!Write
<1>10. CASE op.op = "copy"
  <2>1. /\ Applicable(op) /\ backups' = backups
        /\ installed' = WriteBlock(installed, op.target, SourceBlock(op.source))
    BY <1>10, SucceedYields DEF Yields
  <2>2. R!CanCopy(op)  BY <1>3, <1>10, <2>1 DEF R!Applicable
  <2>3. R!SourceBlock(op.source) = SourceBlock(op.source)
    BY SameOperators DEF R!SourceBlock, SourceBlock
  <2>4. R!Write(op.target, R!SourceBlock(op.source))
    BY <1>9, <1>10, <2>1, <2>3 DEF Grows
  <2>5. R!Copy(op)  BY <1>2, <1>4, <1>10, <2>1, <2>2, <2>4 DEF R!Copy
  <2> QED BY <1>1, <2>5 DEF R!ReplayNext
<1>11. CASE op.op = "delta"
  <2>1. /\ Applicable(op) /\ backups' = backups
        /\ installed' = WriteBlock(installed, op.target, op.result)
    BY <1>11, SucceedYields DEF Yields
  <2>2. R!CanPatch(op)  BY <1>3, <1>11, <2>1 DEF R!Applicable
  <2>3. R!Write(op.target, op.result)  BY <1>9, <1>11, <2>1 DEF Grows
  <2>4. R!Delta(op)  BY <1>2, <1>4, <1>11, <2>1, <2>2, <2>3 DEF R!Delta
  <2> QED BY <1>1, <2>4 DEF R!ReplayNext
<1>12. CASE op.op = "raw_insert"
  <2>1. backups' = backups /\ installed' = WriteBlock(installed, op.target, op.data)
    BY <1>12, SucceedYields DEF Yields
  <2>2. R!Write(op.target, op.data)  BY <1>9, <1>12, <2>1 DEF Grows
  <2>3. R!RawInsert(op)  BY <1>2, <1>4, <1>12, <2>1, <2>2 DEF R!RawInsert
  <2> QED BY <1>1, <2>3 DEF R!ReplayNext
<1>13. CASE op.op = "append"
  <2>1. /\ Applicable(op) /\ backups' = backups
        /\ installed' = WriteBlock(installed, Len(installed), op.data)
    BY <1>13, SucceedYields DEF Yields
  <2>2. R!CanAppend(op)  BY <1>3, <1>13, <2>1 DEF R!Applicable
  <2>3. op.data \in Block /\ installed \in Image
    BY <1>13, DeploymentAssumption, OperationKind DEF AppendOp, ReplayInv, TypeInv
  <2>4. installed' = Append(installed, op.data)  BY <2>1, <2>3, AppendIsWrite
  <2>5. peakBlocks' = R!Max({peakBlocks, Len(installed')})
    BY <1>13, SameOperators DEF Observe, Grows
  <2>6. R!AppendBlock(op)  BY <1>2, <1>4, <1>13, <2>1, <2>2, <2>4, <2>5 DEF R!AppendBlock
  <2> QED BY <1>1, <2>6 DEF R!ReplayNext
<1>14. CASE op.op = "delete"
  <2>1. /\ Applicable(op) /\ backups' = backups
        /\ installed' = DeleteBlocks(installed, op.target, op.count)
    BY <1>14, SucceedYields DEF Yields
  <2>2. R!CanDelete(op)  BY <1>3, <1>14, <2>1 DEF R!Applicable
  <2>3. installed' = R!DeleteBlocks(installed, op.target, op.count)
    BY <2>1, SameOperators
  <2>4. R!Delete(op)  BY <1>2, <1>4, <1>14, <2>1, <2>2, <2>3 DEF R!Delete, Grows
  <2> QED BY <1>1, <2>4 DEF R!ReplayNext
<1>15. CASE op.op = "truncate"
  <2>1. /\ backups' = backups
        /\ installed' = IF op.unit = "bytes" THEN TruncateBytes(installed, op.size)
                                             ELSE Take(installed, op.size)
    BY <1>15, SucceedYields DEF Yields
  <2>2. installed' = IF op.unit = "bytes" THEN R!TruncateBytes(installed, op.size)
                                          ELSE R!Take(installed, op.size)
    BY <2>1, SameOperators
  <2>3. R!Truncate(op)  BY <1>2, <1>4, <1>15, <2>1, <2>2 DEF R!Truncate, Grows
  <2> QED BY <1>1, <2>3 DEF R!ReplayNext
<1>16. CASE op.op = "rollback"
  <2>1. rolledBack' = TRUE  BY <1>16 DEF Observe
  <2>2. CASE op.id = SnapshotId
    <3>1. installed' = snapshot /\ backups' = backups
      BY <1>16, <2>2, SucceedYields DEF Yields
    <3>2. R!Rollback(op)
      BY <1>2, <1>4, <1>16, <2>1, <2>2, <3>1 DEF R!Rollback, R!CanRollback, Grows
    <3> QED BY <1>1, <3>2 DEF R!ReplayNext
  <2>3. CASE op.id # SnapshotId
    <3>1. /\ Applicable(op) /\ backups' = backups
          /\ installed' = WriteBlock(installed, backups[op.id].index, backups[op.id].block)
      BY <1>16, <2>3, SucceedYields DEF Yields
    <3>2. R!CanRollback(op)  BY <1>3, <1>16, <3>1 DEF R!Applicable
    <3>3. R!Write(backups[op.id].index, backups[op.id].block)
      BY <1>9, <1>16, <2>3, <3>1 DEF Grows
    <3>4. R!Rollback(op)
      BY <1>2, <1>4, <1>16, <2>1, <2>3, <3>1, <3>2, <3>3 DEF R!Rollback
    <3> QED BY <1>1, <3>4 DEF R!ReplayNext
  <2> QED BY <2>2, <2>3
<1>17. op.op \in {"keep", "skip", "verify", "checkpoint", "commit", "backup", "copy", "delta",
                  "raw_insert", "append", "delete", "truncate", "rollback"}
  BY SucceedYields
<1> QED BY <1>5, <1>6, <1>7, <1>8, <1>10, <1>11, <1>12, <1>13, <1>14, <1>15, <1>16, <1>17

LEMMA FailReplays ==
  ASSUME StoppedFails, NEW op \in Plan, Fail(op), UNCHANGED observed
  PROVE  R!ReplayNext /\ StoppedFails'
<1>1. "operation" \notin errors /\ "operation" \in errors'
  BY DEF Fail, StoppedFails
<1>2. ~R!Applicable(op) /\ applied < MaxOps  BY SameRefusals DEF Fail
<1>3. R!Stop(op)  BY <1>1, <1>2 DEF R!Stop, Fail, image, observed
<1>4. ~Running'  BY DEF Fail, Running
<1> QED BY <1>3, <1>4 DEF R!ReplayNext, StoppedFails

-----------------------------------------------------------------------------
(* The types of the history variables.                                     *)
LEMMA AgreementIsUpdate == [AgreementNext]_agreementVars => [Next]_vars
BY DEF AgreementNext, agreementVars, Next, UpdateNext, Apply

LEMMA ObservedTypeStep ==
  ASSUME ReplayInv, [AgreementNext]_agreementVars
  PROVE  ReplayInv'
<1>1. TypeInv'  BY NextType, AgreementIsUpdate DEF ReplayInv
<1>2. ASSUME NEW op \in Plan, Succeed(op), Observe(op)
      PROVE  ObservedType'
  <2>1. applied' = applied + 1  BY <1>2, SucceedYields
  <2>2. /\ history' \in Seq(Plan) /\ Len(history') = applied'
    BY <1>2, <2>1, AppendProperties DEF ReplayInv, ObservedType, Observe
  <2>3. peakBlocks' \in Nat
    <3>1. Len(installed') \in Nat  BY <1>1 DEF TypeInv, Image
    <3> QED BY <1>2, <3>1, MaxOfTwo DEF ReplayInv, ObservedType, Observe
  <2>4. verified' \in Nat  BY <1>2 DEF ReplayInv, ObservedType, Observe
  <2>5. rolledBack' \in BOOLEAN /\ committed' \in BOOLEAN
    BY <1>2 DEF ReplayInv, ObservedType, Observe
  <2> QED BY <2>2, <2>3, <2>4, <2>5 DEF ObservedType
<1>3. ASSUME UNCHANGED observed, applied' = applied  PROVE ObservedType'
  <2>1. /\ history' = history /\ peakBlocks' = peakBlocks /\ verified' = verified
        /\ rolledBack' = rolledBack /\ committed' = committed
    BY <1>3 DEF observed
  <2> QED BY <1>3, <2>1, Zenon DEF ReplayInv, ObservedType
<1>4. ASSUME NEW op \in Plan, Fail(op), UNCHANGED observed  PROVE ObservedType'
  <2>1. applied' = applied  BY <1>4 DEF Fail
  <2> QED BY <1>3, <1>4, <2>1
<1>5. ASSUME Interrupt \/ Complete, UNCHANGED observed  PROVE ObservedType'
  <2>1. applied' = applied  BY <1>5 DEF Interrupt, Complete
  <2> QED BY <1>3, <1>5, <2>1
<1>6. ASSUME UNCHANGED agreementVars  PROVE ObservedType'
  BY <1>3, <1>6 DEF agreementVars, vars
<1>7. ObservedType'  BY <1>2, <1>4, <1>5, <1>6 DEF AgreementNext
<1> QED BY <1>1, <1>7 DEF ReplayInv

LEMMA ObservedTypeInit == AgreementInit => ReplayInv
<1> SUFFICES ASSUME AgreementInit PROVE ReplayInv  OBVIOUS
<1>1. TypeInv  BY InitType DEF AgreementInit
<1>2. Len(installed) \in Nat  BY <1>1 DEF TypeInv, Image
<1>3. << >> \in Seq(Plan) /\ Len(<< >>) = 0  BY EmptySeq
<1>4. history = << >> /\ applied = 0 /\ peakBlocks = Len(installed) /\ verified = 0
  BY DEF AgreementInit, Init
<1>5. rolledBack \in BOOLEAN /\ committed \in BOOLEAN  BY DEF AgreementInit
<1>6. history \in Seq(Plan) /\ Len(history) = applied  BY <1>3, <1>4
<1> QED BY <1>1, <1>2, <1>4, <1>5, <1>6 DEF ReplayInv, ObservedType

LEMMA ReplayTypes == ReplayInv => ReplayTypeOK
<1> SUFFICES ASSUME ReplayInv PROVE ReplayTypeOK  OBVIOUS
<1>1. R!Image = Image  BY DEF R!Image, Image, R!Block, Block
<1>2. R!IsBackupArea(backups)
  <2>1. IsBackupArea(backups)  BY BackupAreaPredicate DEF ReplayInv, TypeInv
  <2>2. R!BackupRecord = BackupRecord  BY DEF R!BackupRecord, BackupRecord, R!Block, Block
  <2> QED BY <2>1, <2>2 DEF R!IsBackupArea, IsBackupArea, R!IsFiniteSet, IsFiniteSet
<1> QED BY <1>1, <1>2 DEF ReplayTypeOK, R!ReplayTypeOK, ReplayInv, ObservedType, TypeInv

(* The state that a deployment shows to a replay has the types of          *)
(* ReplayState, and counts as many operations as it records, whatever is   *)
(* refused, interrupted, activated or completed (ReplayState).             *)
THEOREM ReplayTypesCorrect == AgreementSpec => []ReplayTypeOK
<1>1. ReplayInv /\ [AgreementNext]_agreementVars => ReplayInv'  BY ObservedTypeStep
<1> QED BY <1>1, ObservedTypeInit, ReplayTypes, PTL DEF AgreementSpec

-----------------------------------------------------------------------------
(* Deploying on one slot is replaying.                                     *)
LEMMA OneSlotSteps ==
  ASSUME ~EnableAB, Running, StoppedFails, Interrupt \/ Complete, UNCHANGED observed
  PROVE  UNCHANGED R!replayVars /\ StoppedFails'
<1>1. installed' = installed /\ errors' = errors
  BY OneSlotCompletion DEF Interrupt, Complete, image
<1>2. UNCHANGED <<snapshot, backups, applied>>  BY DEF Interrupt, Complete, image
<1>3. "operation" \notin errors'  BY <1>1 DEF StoppedFails
<1> QED BY <1>1, <1>2, <1>3 DEF R!replayVars, observed, StoppedFails

LEMMA ReplayStep ==
  ASSUME ~EnableAB, ReplayInv, StoppedFails, [AgreementNext]_agreementVars
  PROVE  [R!ReplayNext]_R!replayVars /\ StoppedFails'
<1>1. ASSUME NEW op \in Plan, Succeed(op), Observe(op)
      PROVE  R!ReplayNext /\ StoppedFails'
  <2>1. R!ReplayNext /\ errors' = errors  BY <1>1, SucceedReplays
  <2>2. "operation" \notin errors  BY <1>1, SucceedYields DEF StoppedFails
  <2> QED BY <2>1, <2>2 DEF StoppedFails
<1>2. ASSUME NEW op \in Plan, Fail(op), UNCHANGED observed
      PROVE  R!ReplayNext /\ StoppedFails'
  BY <1>2, FailReplays
<1>3. CASE Running /\ (Interrupt \/ Complete) /\ UNCHANGED observed
  BY <1>3, OneSlotSteps
<1>4. CASE UNCHANGED agreementVars
  BY <1>4 DEF agreementVars, vars, observed, R!replayVars, StoppedFails, Running
<1> QED BY <1>1, <1>2, <1>3, <1>4 DEF AgreementNext

LEMMA ReplayStart == AgreementInit => R!ReplayInit /\ StoppedFails
BY DEF AgreementInit, Init, R!ReplayInit, StoppedFails

(* "Correct replay versus feasible deployment": without A/B slots the      *)
(* deployment simulator implements the replay engine: for every plan,      *)
(* image and setting, each of its steps is the replay step of the same     *)
(* operation, or changes nothing that a replay sees, and both stop at the  *)
(* same operation (simulate_deployment, replay_operations).                *)
THEOREM DeploymentImplementsReplay ==
  ASSUME ~EnableAB
  PROVE  AgreementSpec => DeploymentIsReplay
<1>1. AgreementInit => ReplayInv /\ StoppedFails /\ R!ReplayInit
  BY ObservedTypeInit, ReplayStart
<1>2. ReplayInv /\ StoppedFails /\ [AgreementNext]_agreementVars
        => ReplayInv' /\ StoppedFails' /\ [R!ReplayNext]_R!replayVars
  BY ObservedTypeStep, ReplayStep
<1> QED BY <1>1, <1>2, PTL DEF AgreementSpec, DeploymentIsReplay, R!ReplaySpec

-----------------------------------------------------------------------------
(* What a cut leaves, for every image an update can reach.                 *)
LEMMA CutOfImage ==
  ASSUME installed \in Image, NEW size \in Nat
  PROVE  LET bytes == Take(BlocksToBytes(installed), size)
         IN  bytes \in Block /\ TruncateBytes(installed, size) = BytesToBlocks(bytes)
<1>1. BlocksToBytes(installed) \in Seq(Byte)  BY BytesType DEF Block
<1> QED BY <1>1, TakeType DEF TruncateBytes, Block

LEMMA TypedCuts == TypeInv => TruncationExact /\ TruncationNormal
<1> SUFFICES ASSUME TypeInv PROVE TruncationExact /\ TruncationNormal  OBVIOUS
<1>1. installed \in Image  BY DEF TypeInv
<1>2. ASSUME NEW size \in 0 .. R!ImageBytes(installed) + 1  PROVE size \in Nat
  BY <1>1, BytesType, SameOperators
<1>3. TruncationExact
  <2> SUFFICES ASSUME NEW size \in 0 .. R!ImageBytes(installed) + 1
               PROVE  R!BlocksToBytes(R!TruncateBytes(installed, size))
                        = R!Take(R!BlocksToBytes(installed), size)
    BY DEF TruncationExact, R!TruncationExact
  <2>1. BlocksToBytes(TruncateBytes(installed, size)) = Take(BlocksToBytes(installed), size)
    BY <1>1, <1>2, CutOfImage, CutIsExact
  <2> QED BY <2>1, SameOperators
<1>4. TruncationNormal
  <2> SUFFICES ASSUME NEW size \in 0 .. R!ImageBytes(installed) + 1
               PROVE  LET cut == R!TruncateBytes(installed, size) IN
                      \A i \in DOMAIN cut :
                        /\ i < Len(cut) => Len(cut[i]) = BlockSize
                        /\ i = Len(cut) => Len(cut[i]) \in 1 .. BlockSize
    BY DEF TruncationNormal, R!TruncationNormal
  <2> DEFINE bytes == Take(BlocksToBytes(installed), size)
  <2>1. bytes \in Block /\ R!TruncateBytes(installed, size) = BytesToBlocks(bytes)
    BY <1>1, <1>2, CutOfImage, SameOperators
  <2> HIDE DEF bytes
  <2> QED BY <2>1, CutIsNormal
<1> QED BY <1>3, <1>4

LEMMA AgreementTypes == AgreementSpec => []TypeInv
<1>1. AgreementInit => TypeInv  BY InitType DEF AgreementInit
<1>2. TypeInv /\ [AgreementNext]_agreementVars => TypeInv'  BY NextType, AgreementIsUpdate
<1> QED BY <1>1, <1>2, PTL DEF AgreementSpec

(* Cutting any image that operations left, with holes and short blocks in  *)
(* the middle, at any byte keeps exactly the bytes in front of the cut     *)
(* (blocks_to_bytes, bytes_to_blocks and truncate together).               *)
THEOREM CutsExact == AgreementSpec => []TruncationExact
BY AgreementTypes, TypedCuts, PTL

(* ... and leaves an image as read_blocks would read it.                   *)
THEOREM CutsNormal == AgreementSpec => []TruncationNormal
BY AgreementTypes, TypedCuts, PTL

-----------------------------------------------------------------------------
(* peak_blocks.  The image an update starts from is read block by block    *)
(* (read_blocks); what the plan writes may be of any length.               *)
ImagesFit == \A old \in InitialImages : Fits(old)

NoneLong == \A i \in DOMAIN history : ~R!WritesLong(history[i])

(* Blocks fit until a long one is written, and then a cut at a byte leaves *)
(* no more blocks than it finds.  The peak covers the old image as well,   *)
(* to which a rollback returns without a refresh.                          *)
PeakInv ==
  /\ NoneLong => Fits(installed) /\ SavedFit(backups)
  /\ Fits(snapshot) /\ Len(snapshot) <= peakBlocks
  /\ PeakBlocksCover

(* The block that an operation copies is as long as the others.            *)
LEMMA SourceFits ==
  ASSUME TypeInv, Fits(installed), SavedFit(backups), NEW source \in Source,
         Readable(source), source.area # "image"
  PROVE  Len(SourceBlock(source)) <= BlockSize
<1>1. CASE source.area = "installed"
  <2>1. source.index \in Nat /\ InImage(source.index)  BY <1>1 DEF Source, Readable
  <2>2. source.index + 1 \in DOMAIN installed  BY <2>1 DEF InImage, TypeInv, Image
  <2> QED BY <1>1, <2>2 DEF Fits, SourceBlock
<1>2. CASE source.area = "backup"
  <2>1. source.id \in DOMAIN backups  BY <1>2 DEF Readable
  <2> QED BY <1>2, <2>1 DEF SavedFit, SourceBlock
<1> QED BY <1>1, <1>2 DEF Source

LEMMA DataLength ==
  ASSUME NEW data \in Block  PROVE Len(data) > BlockSize \/ Len(data) <= BlockSize
BY BlockSizeAssumption DEF Block

LEMMA SucceedFits ==
  ASSUME ReplayInv, Fits(installed), SavedFit(backups), Fits(snapshot),
         NEW op \in Plan, Succeed(op), ~R!WritesLong(op)
  PROVE  Fits(installed') /\ SavedFit(backups')
<1>1. TypeInv /\ installed \in Image /\ Len(installed) \in Nat
  BY DEF ReplayInv, ObservedType, TypeInv, Image
<1>2. op \in Operation  BY DeploymentAssumption
<1>3. /\ op.op \in {"raw_insert", "append"} => ~(Len(op.data) > BlockSize)
      /\ op.op = "delta" => ~(Len(op.result) > BlockSize)
      /\ op.op = "copy" => op.source.area # "image"
  BY DEF R!WritesLong
<1>4. CASE op.op \in {"keep", "skip", "verify", "checkpoint"}
  <2>1. installed' = installed /\ backups' = backups  BY <1>4, SucceedYields DEF Yields
  <2> QED BY <2>1
<1>5. CASE op.op = "backup"
  <2>1. /\ Applicable(op) /\ installed' = installed
        /\ backups' = SaveBackup(backups, op.id, [index |-> op.source,
                                                 block |-> installed[op.source + 1]])
    BY <1>5, SucceedYields DEF Yields
  <2>2. op.source + 1 \in DOMAIN installed
    BY <1>1, <1>2, <1>5, <2>1, OperationKind DEF Applicable, InImage, BackupOp, Image
  <2>3. Len(installed[op.source + 1]) <= BlockSize  BY <2>2 DEF Fits
  <2>4. SavedFit(backups')  BY <2>1, <2>3 DEF SavedFit, SaveBackup
  <2> QED BY <2>1, <2>4
<1>6. CASE op.op = "copy"
  <2>1. /\ Applicable(op) /\ backups' = backups
        /\ installed' = WriteBlock(installed, op.target, SourceBlock(op.source))
    BY <1>6, SucceedYields DEF Yields
  <2>2. op.target \in Nat /\ op.source \in Source /\ Readable(op.source)
    BY <1>2, <1>6, <2>1, OperationKind DEF CopyOp, Applicable
  <2>3. Len(SourceBlock(op.source)) <= BlockSize
    BY <1>1, <1>3, <1>6, <2>2, SourceFits
  <2>4. SourceBlock(op.source) \in Block  BY <1>1, <2>2, SourceBlockType
  <2> QED BY <1>1, <2>1, <2>2, <2>3, <2>4, WriteFits
<1>7. CASE op.op = "delta"
  <2>1. backups' = backups /\ installed' = WriteBlock(installed, op.target, op.result)
    BY <1>7, SucceedYields DEF Yields
  <2>2. op.target \in Nat /\ op.result \in Block /\ Len(op.result) <= BlockSize
    BY <1>2, <1>3, <1>7, OperationKind, DataLength DEF DeltaOp
  <2> QED BY <1>1, <2>1, <2>2, WriteFits
<1>8. CASE op.op \in {"raw_insert", "append"}
  <2>1. PICK target \in Nat : installed' = WriteBlock(installed, target, op.data)
    <3>1. CASE op.op = "raw_insert"
      <4>1. installed' = WriteBlock(installed, op.target, op.data)
        BY <3>1, SucceedYields DEF Yields
      <4>2. op.target \in Nat  BY <1>2, <3>1, OperationKind DEF RawOp
      <4> QED BY <4>1, <4>2
    <3>2. CASE op.op = "append"
      <4>1. installed' = WriteBlock(installed, Len(installed), op.data)
        BY <3>2, SucceedYields DEF Yields
      <4> QED BY <1>1, <4>1
    <3> QED BY <1>8, <3>1, <3>2
  <2>2. backups' = backups  BY <1>8, SucceedYields DEF Yields
  <2>3. op.data \in Block /\ Len(op.data) <= BlockSize
    BY <1>2, <1>3, <1>8, OperationKind, DataLength DEF RawOp, AppendOp
  <2> QED BY <1>1, <2>1, <2>2, <2>3, WriteFits
<1>9. CASE op.op = "delete"
  <2>1. /\ Applicable(op) /\ backups' = backups
        /\ installed' = DeleteBlocks(installed, op.target, op.count)
    BY <1>9, SucceedYields DEF Yields
  <2>2. /\ op.target \in Nat /\ op.count \in Nat /\ op.count > 0
        /\ InImage(op.target + op.count - 1)
    BY <1>2, <1>9, <2>1, OperationKind DEF DeleteOp, Applicable
  <2>3. op.target + op.count <= Len(installed)  BY <1>1, <2>2 DEF InImage
  <2>4. Fits(installed') /\ Len(installed') <= Len(installed)
    BY <1>1, <2>1, <2>2, <2>3, DeleteFits
  <2> QED BY <2>1, <2>4
<1>10. CASE op.op = "truncate"
  <2>1. op.size \in Nat /\ op.unit \in {"blocks", "bytes"}
    BY <1>2, <1>10, OperationKind DEF TruncateOp
  <2>2. /\ backups' = backups
        /\ installed' = IF op.unit = "bytes" THEN TruncateBytes(installed, op.size)
                                             ELSE Take(installed, op.size)
    BY <1>10, SucceedYields DEF Yields
  <2>3. installed' \in Image /\ Fits(installed') /\ Len(installed') <= Len(installed)
    <3>1. CASE op.unit = "bytes"
      BY <1>1, <2>1, <2>2, <3>1, TruncateFits
    <3>2. CASE op.unit = "blocks"
      <4> DEFINE n == Min({op.size, Len(installed)})
      <4>1. n \in Nat /\ n <= Len(installed)  BY <1>1, <2>1, MinOfTwo
      <4> HIDE DEF n
      <4>2. /\ SubSeq(installed, 1, n) \in Image /\ Fits(SubSeq(installed, 1, n))
            /\ Len(SubSeq(installed, 1, n)) = n
        BY <1>1, <4>1, PartFits
      <4>3. installed' = SubSeq(installed, 1, n)  BY <2>2, <3>2 DEF Take, n
      <4> QED BY <4>1, <4>2, <4>3
    <3> QED BY <2>1, <3>1, <3>2
  <2> QED BY <2>2, <2>3
<1>11. CASE op.op = "rollback" /\ op.id = SnapshotId
  <2>1. installed' = snapshot /\ backups' = backups
    BY <1>11, SucceedYields DEF Yields
  <2> QED BY <2>1
<1>12. CASE op.op = "rollback" /\ op.id # SnapshotId
  <2>1. /\ Applicable(op) /\ backups' = backups
        /\ installed' = WriteBlock(installed, backups[op.id].index, backups[op.id].block)
    BY <1>12, SucceedYields DEF Yields
  <2>2. op.id \in DOMAIN backups  BY <1>12, <2>1 DEF Applicable
  <2>3. backups[op.id].index \in Nat /\ backups[op.id].block \in Block
    BY <1>1, <2>2, BackupTypes
  <2>4. Len(backups[op.id].block) <= BlockSize  BY <2>2 DEF SavedFit
  <2> QED BY <1>1, <2>1, <2>3, <2>4, WriteFits
<1>13. CASE op.op = "commit"
  <2>1. installed' = Completion("installing").installed /\ backups' = backups
    BY <1>13, SucceedYields DEF Yields
  <2>2. installed' \in {installed, snapshot}
    BY <2>1 DEF Completion, FailBeforeActivation, Switch
  <2> QED BY <2>1, <2>2
<1>14. op.op \in {"keep", "skip", "verify", "checkpoint", "commit", "backup", "copy", "delta",
                  "raw_insert", "append", "delete", "truncate", "rollback"}
  BY SucceedYields
<1> QED BY <1>4, <1>5, <1>6, <1>7, <1>8, <1>9, <1>10, <1>11, <1>12, <1>13, <1>14

(* The operations that neither write nor cut at a byte leave at most as    *)
(* many blocks as there were.                                              *)
LEMMA OthersShorten ==
  ASSUME TypeInv, NEW op \in Plan, Succeed(op), ~R!Replaces(op), ~R!CutsAtByte(op)
  PROVE  Len(installed') <= Len(installed) \/ installed' = snapshot
<1>1. installed \in Image /\ Len(installed) \in Nat  BY DEF TypeInv, Image
<1>2. op \in Operation  BY DeploymentAssumption
<1>3. CASE op.op \in {"keep", "skip", "verify", "checkpoint", "backup"}
  <2>1. installed' = installed  BY <1>3, SucceedYields DEF Yields
  <2> QED BY <1>1, <2>1
<1>4. CASE op.op = "delete"
  <2>1. Applicable(op) /\ installed' = DeleteBlocks(installed, op.target, op.count)
    BY <1>4, SucceedYields DEF Yields
  <2>2. /\ op.target \in Nat /\ op.count \in Nat /\ op.count > 0
        /\ InImage(op.target + op.count - 1)
    BY <1>2, <1>4, <2>1, OperationKind DEF DeleteOp, Applicable
  <2>3. op.target + op.count <= Len(installed)  BY <1>1, <2>2 DEF InImage
  <2>4. Len(installed') = Len(installed) - op.count
    BY <1>1, <2>1, <2>2, <2>3, DeletedBlocks
  <2> QED BY <1>1, <2>2, <2>4
<1>5. CASE op.op = "truncate"
  <2>1. op.size \in Nat /\ op.unit \in {"blocks", "bytes"}
    BY <1>2, <1>5, OperationKind DEF TruncateOp
  <2>2. op.unit = "blocks"  BY <1>5, <2>1 DEF R!CutsAtByte
  <2> DEFINE n == Min({op.size, Len(installed)})
  <2>3. n \in Nat /\ n <= Len(installed)  BY <1>1, <2>1, MinOfTwo
  <2>4. installed' = SubSeq(installed, 1, n)
    BY <1>5, <2>2, SucceedYields DEF Yields, Take
  <2> HIDE DEF n
  <2>5. \A i \in 1 .. n : installed[i] \in Block  BY <1>1, <2>3 DEF Image
  <2>6. Len(SubSeq(installed, 1, n)) = n  BY <2>3, <2>5, SubSeqProperties
  <2> QED BY <2>3, <2>4, <2>6
<1>6. CASE op.op = "commit"
  <2>1. installed' = Completion("installing").installed
    BY <1>6, SucceedYields DEF Yields
  <2>2. installed' \in {installed, snapshot}
    BY <2>1 DEF Completion, FailBeforeActivation, Switch
  <2> QED BY <1>1, <2>2
<1>7. op.op \in {"keep", "skip", "verify", "checkpoint", "commit", "backup", "delete", "truncate"}
  BY SucceedYields DEF R!Replaces
<1> QED BY <1>3, <1>4, <1>5, <1>6, <1>7

(* What a further operation does to the history of the writes and cuts.    *)
LEMMA HistoryGrows ==
  ASSUME history \in Seq(Plan), NEW op \in Plan, history' = Append(history, op)
  PROVE  /\ NoneLong' => NoneLong /\ ~R!WritesLong(op)
         /\ R!LongBlockCut /\ ~R!Replaces(op) => R!LongBlockCut'
         /\ ~NoneLong /\ R!CutsAtByte(op) => R!LongBlockCut'
<1> DEFINE n == Len(history)
<1>1. /\ n \in Nat /\ DOMAIN history = 1 .. n
      /\ DOMAIN history' = 1 .. n + 1 /\ Len(history') = n + 1
      /\ \A i \in 1 .. n : history'[i] = history[i]
      /\ history'[n + 1] = op
  OBVIOUS
<1> HIDE DEF n
<1>2. NoneLong' => NoneLong /\ ~R!WritesLong(op)
  <2>1. NoneLong' => \A i \in 1 .. n + 1 : ~R!WritesLong(history'[i])
    BY <1>1 DEF NoneLong
  <2>2. \A i \in 1 .. n : i \in 1 .. n + 1  BY <1>1
  <2>3. n + 1 \in 1 .. n + 1  BY <1>1
  <2> QED BY <1>1, <2>1, <2>2, <2>3 DEF NoneLong
<1>3. ASSUME R!LongBlockCut, ~R!Replaces(op)  PROVE R!LongBlockCut'
  <2>1. PICK cut \in 1 .. n :
          /\ R!CutsAtByte(history[cut])
          /\ \E i \in 1 .. cut - 1 : R!WritesLong(history[i])
          /\ \A i \in cut + 1 .. n : ~R!Replaces(history[i])
    BY <1>1, <1>3 DEF R!LongBlockCut, n
  <2>2. PICK i \in 1 .. cut - 1 : R!WritesLong(history[i])  BY <2>1
  <2>3. cut \in 1 .. n + 1 /\ i \in 1 .. n  BY <1>1, <2>2
  <2>4. \A k \in cut + 1 .. n + 1 : ~R!Replaces(history'[k])
    <3> TAKE k \in cut + 1 .. n + 1
    <3>1. k = n + 1 \/ (k \in cut + 1 .. n /\ k \in 1 .. n)  BY <1>1, <2>1
    <3> QED BY <1>1, <1>3, <2>1, <3>1
  <2>5. R!CutsAtByte(history'[cut]) /\ R!WritesLong(history'[i])
    BY <1>1, <2>1, <2>2, <2>3
  <2> QED BY <1>1, <2>2, <2>3, <2>4, <2>5 DEF R!LongBlockCut
<1>4. ASSUME ~NoneLong, R!CutsAtByte(op)  PROVE R!LongBlockCut'
  <2>1. PICK i \in 1 .. n : R!WritesLong(history[i])  BY <1>1, <1>4 DEF NoneLong
  <2>2. n + 1 \in 1 .. n + 1 /\ i \in 1 .. (n + 1) - 1  BY <1>1
  <2>3. \A k \in (n + 1) + 1 .. n + 1 : FALSE  BY <1>1
  <2>4. R!CutsAtByte(history'[n + 1]) /\ R!WritesLong(history'[i])
    BY <1>1, <1>4, <2>1
  <2> QED BY <1>1, <2>2, <2>3, <2>4 DEF R!LongBlockCut
<1> QED BY <1>2, <1>3, <1>4

(* A write refreshes the peak, the snapshot is below it, and everything    *)
(* else shortens the image, unless a cut splits a long block.              *)
LEMMA SucceedCovers ==
  ASSUME ReplayInv, PeakInv, NEW op \in Plan, Succeed(op), Observe(op)
  PROVE  Len(snapshot') <= peakBlocks' /\ PeakBlocksCover'
<1>1. /\ TypeInv /\ history \in Seq(Plan) /\ history' = Append(history, op)
      /\ Len(installed) \in Nat /\ Len(snapshot) \in Nat /\ peakBlocks \in Nat
  BY DEF ReplayInv, ObservedType, TypeInv, Image, Observe
<1>2. Len(installed') \in Nat
  <2>1. AgreementNext  BY DEF AgreementNext
  <2>2. ReplayInv'  BY <2>1, ObservedTypeStep
  <2> QED BY <2>2 DEF ReplayInv, TypeInv, Image
<1>3. /\ peakBlocks' \in Nat /\ peakBlocks <= peakBlocks'
      /\ Grows(op) => Len(installed') <= peakBlocks'
  BY <1>1, <1>2, MaxOfTwo DEF Observe
<1>4. Len(snapshot) <= peakBlocks' /\ snapshot' = snapshot
  <2>1. Len(snapshot) <= peakBlocks  BY DEF PeakInv
  <2>2. snapshot' = snapshot  BY SucceedYields
  <2> QED BY <1>1, <1>3, <2>1, <2>2
<1>5. Len(installed) <= peakBlocks \/ R!LongBlockCut
  BY DEF PeakInv, PeakBlocksCover, R!PeakBlocksCover
<1>6. CASE R!Replaces(op)
  <2>1. Grows(op) \/ (op.op = "rollback" /\ op.id = SnapshotId)
    BY <1>6 DEF R!Replaces, Grows
  <2>2. op.op = "rollback" /\ op.id = SnapshotId => installed' = snapshot
    BY SucceedYields DEF Yields
  <2>3. Len(installed') <= peakBlocks'  BY <1>3, <1>4, <2>1, <2>2
  <2> QED BY <1>4, <2>3 DEF PeakBlocksCover, R!PeakBlocksCover
<1>7. CASE R!CutsAtByte(op)
  <2>1. CASE ~NoneLong
    <3>1. R!LongBlockCut'  BY <1>1, <1>7, <2>1, HistoryGrows
    <3> QED BY <1>4, <3>1 DEF PeakBlocksCover, R!PeakBlocksCover
  <2>2. CASE NoneLong
    <3>1. ~R!LongBlockCut
      <4>1. SUFFICES ASSUME R!LongBlockCut  PROVE FALSE  OBVIOUS
      <4>2. PICK cut \in DOMAIN history : \E i \in 1 .. cut - 1 : R!WritesLong(history[i])
        BY <4>1 DEF R!LongBlockCut
      <4>3. \A i \in 1 .. cut - 1 : i \in DOMAIN history  BY <1>1, <4>2
      <4> QED BY <2>2, <4>2, <4>3 DEF NoneLong
    <3>2. op.op = "truncate" /\ op.unit = "bytes"  BY <1>7 DEF R!CutsAtByte
    <3>3. op.size \in Nat
      BY <3>2, DeploymentAssumption, OperationKind DEF TruncateOp
    <3>4. installed' = TruncateBytes(installed, op.size)
      BY <3>2, SucceedYields DEF Yields
    <3>5. installed \in Image /\ Fits(installed)  BY <1>1, <2>2 DEF PeakInv, TypeInv
    <3>6. Len(installed') <= Len(installed)  BY <3>3, <3>4, <3>5, TruncateFits
    <3>7. Len(installed') <= peakBlocks'  BY <1>1, <1>2, <1>3, <1>5, <3>1, <3>6
    <3> QED BY <1>4, <3>7 DEF PeakBlocksCover, R!PeakBlocksCover
  <2> QED BY <2>1, <2>2
<1>8. CASE ~R!Replaces(op) /\ ~R!CutsAtByte(op)
  <2>1. Len(installed') <= Len(installed) \/ installed' = snapshot
    BY <1>1, <1>8, OthersShorten
  <2>2. R!LongBlockCut => R!LongBlockCut'  BY <1>1, <1>8, HistoryGrows
  <2>3. Len(installed') <= peakBlocks' \/ R!LongBlockCut'
    BY <1>1, <1>2, <1>3, <1>4, <1>5, <2>1, <2>2
  <2> QED BY <1>4, <2>3 DEF PeakBlocksCover, R!PeakBlocksCover
<1> QED BY <1>6, <1>7, <1>8

LEMMA PeakStep ==
  ASSUME ReplayInv, PeakInv, [AgreementNext]_agreementVars
  PROVE  PeakInv'
<1>1. ASSUME NEW op \in Plan, Succeed(op), Observe(op)  PROVE PeakInv'
  <2>1. history \in Seq(Plan) /\ history' = Append(history, op)
    BY <1>1 DEF ReplayInv, ObservedType, Observe
  <2>2. NoneLong' => NoneLong /\ ~R!WritesLong(op)  BY <2>1, HistoryGrows
  <2>3. Fits(snapshot) /\ snapshot' = snapshot  BY <1>1, SucceedYields DEF PeakInv
  <2>4. NoneLong' => Fits(installed') /\ SavedFit(backups')
    BY <1>1, <2>2, <2>3, SucceedFits DEF PeakInv
  <2>5. Len(snapshot') <= peakBlocks' /\ PeakBlocksCover'  BY <1>1, SucceedCovers
  <2> QED BY <2>3, <2>4, <2>5 DEF PeakInv
<1>2. ASSUME UNCHANGED observed, installed' \in {installed, snapshot},
             UNCHANGED <<snapshot, backups>>
      PROVE  PeakInv'
  <2>1. /\ history' = history /\ peakBlocks' = peakBlocks /\ backups' = backups
        /\ snapshot' = snapshot
    BY <1>2 DEF observed
  <2>2. NoneLong' = NoneLong /\ R!LongBlockCut' = R!LongBlockCut
    BY <2>1 DEF NoneLong, R!LongBlockCut
  <2> QED BY <1>2, <2>1, <2>2 DEF PeakInv, PeakBlocksCover, R!PeakBlocksCover
<1>3. ASSUME NEW op \in Plan, Fail(op), UNCHANGED observed  PROVE PeakInv'
  BY <1>2, <1>3 DEF Fail, image
<1>4. ASSUME Interrupt, UNCHANGED observed  PROVE PeakInv'
  BY <1>2, <1>4 DEF Interrupt, image
<1>5. ASSUME Complete, UNCHANGED observed  PROVE PeakInv'
  <2>1. installed' = Completion(installState).installed /\ UNCHANGED <<snapshot, backups>>
    BY <1>5 DEF Complete
  <2>2. installed' \in {installed, snapshot}
    BY <2>1 DEF Completion, FailBeforeActivation, Switch
  <2> QED BY <1>2, <1>5, <2>1, <2>2
<1>6. ASSUME UNCHANGED agreementVars  PROVE PeakInv'
  BY <1>2, <1>6 DEF agreementVars, vars
<1> QED BY <1>1, <1>3, <1>4, <1>5, <1>6 DEF AgreementNext

LEMMA PeakStart ==
  ASSUME ImagesFit, AgreementInit  PROVE PeakInv
<1>1. ReplayInv  BY ObservedTypeInit
<1>2. Len(installed) \in Nat  BY <1>1 DEF ReplayInv, TypeInv, Image
<1>3. installed \in InitialImages /\ snapshot = installed /\ backups = << >>
      /\ peakBlocks = Len(installed)
  BY DEF AgreementInit, Init
<1>4. SavedFit(<< >>)  BY DEF SavedFit
<1> QED BY <1>2, <1>3, <1>4 DEF PeakInv, ImagesFit, PeakBlocksCover, R!PeakBlocksCover

LEMMA PeakCovers == PeakInv => PeakBlocksCover
BY DEF PeakInv

(* Of every plan, those that write the whole image as one block included:  *)
(* peak_blocks, which writes, appends and restored blocks refresh and      *)
(* deletes, cuts and rollbacks to the snapshot do not, is at least the     *)
(* number of blocks of the image, except between a cut at a byte that      *)
(* follows a write of a long block and the next write or rollback          *)
(* (_write_block, truncate).                                               *)
THEOREM PeakBlocksCorrect ==
  ASSUME ImagesFit
  PROVE  AgreementSpec => []PeakBlocksCover
<1>1. AgreementInit => ReplayInv /\ PeakInv  BY ObservedTypeInit, PeakStart
<1>2. ReplayInv /\ PeakInv /\ [AgreementNext]_agreementVars => ReplayInv' /\ PeakInv'
  BY ObservedTypeStep, PeakStep
<1> QED BY <1>1, <1>2, PeakCovers, PTL DEF AgreementSpec

-----------------------------------------------------------------------------
(* Budgets.  With the whole package staged, every storage level that a     *)
(* step refreshes the peak with is one that the budget is checked at: the  *)
(* level after the download, or the one the operation leaves.              *)
Reported == Exceeds(peakStorage, StorageBudget) => "storage" \in violations

RestoresNoBlock == \A i \in DOMAIN history : history[i].op = "rollback" => history[i].id = SnapshotId

Settled(e) == \A l \in e.refreshed : l = Level(e.installed, e.backups, e.staged)

LEMMA PerformReports ==
  ASSUME TypeInv, TypeInv', Staging = "full_package", Reported,
         NEW op \in Operation, NEW e, Settled(e), Perform(op, e)
  PROVE  Reported'
<1> DEFINE download == Level(installed, backups, Staged(op))
           final == Level(e.installed, e.backups, e.staged)
           levels == {peakStorage, download} \cup e.refreshed
           peak == Max(levels)
<1>1. download \in Nat /\ peakStorage \in Nat  BY StagedType, LevelType DEF TypeInv
<1>2. final \in Nat
  <2>1. e.installed = installed' /\ e.backups = backups' /\ e.staged = staging'  BY DEF Perform
  <2> QED BY <2>1, LevelType DEF TypeInv
<1>3. levels \subseteq {peakStorage, download, final}  BY DEF Settled
<1>4. /\ peakStorage' = Max({peak, final}) /\ violations \subseteq violations'
      /\ Exceeds(download, StorageBudget) => "storage" \in violations'
      /\ Exceeds(final, StorageBudget) => "storage" \in violations'
  BY DEF Perform, Exceeded
<1> HIDE DEF download, final
<1>5. peak \in levels /\ peak \in Nat
  <2>1. levels \subseteq Nat /\ levels # {}  BY <1>1, <1>2, <1>3
  <2>2. peakStorage + download + final \in Nat
        /\ \A l \in levels : l <= peakStorage + download + final
    BY <1>1, <1>2, <1>3
  <2> HIDE DEF levels
  <2> QED BY <2>1, <2>2, MaxOfBounded
<1> HIDE DEF levels, peak
<1>6. Max({peak, final}) \in {peak, final}
  <2>1. /\ {peak, final} \subseteq Nat /\ {peak, final} # {} /\ peak + final \in Nat
        /\ \A l \in {peak, final} : l <= peak + final
    BY <1>2, <1>5
  <2> QED BY <2>1, MaxOfBounded
<1>7. peakStorage' \in {peakStorage, download, final}  BY <1>3, <1>4, <1>5, <1>6
<1> QED BY <1>4, <1>7 DEF Reported

LEMMA WriteSettles ==
  ASSUME NEW op, NEW target, NEW block, NEW lost, NEW ram
  PROVE  Settled(WriteEffect(op, target, block, lost, ram))
BY DEF Settled, WriteEffect, NoEffect

LEMMA QuietSettles ==
  ASSUME NEW op  PROVE Settled(NoEffect(op))
BY DEF Settled, NoEffect

(* A cut refreshes nothing by itself.                                      *)
LEMMA CutSettles ==
  ASSUME NEW op, NEW cut, NEW lost
  PROVE  Settled([NoEffect(op) EXCEPT !.installed = cut, !.lost = lost])
BY DEF Settled, NoEffect

LEMMA SucceedSettles ==
  ASSUME ~EnableAB, NEW op, Succeed(op), op.op = "rollback" => op.id = SnapshotId
  PROVE  \E e : Settled(e) /\ Perform(op, e)
<1>1. CASE Keep(op) \/ Verify(op) \/ TakeCheckpoint(op)
  BY <1>1, QuietSettles DEF Keep, Verify, TakeCheckpoint
<1>2. CASE Backup(op)
  <2> DEFINE block == installed[op.source + 1]
             area  == SaveBackup(backups, op.id, [index |-> op.source, block |-> block])
             e == [NoEffect(op) EXCEPT
                     !.backups = area, !.ram = Len(block), !.written = Len(block),
                     !.checked = {Level(installed, area, Staged(op))}]
  <2>1. Perform(op, e)  BY <1>2 DEF Backup
  <2>2. e.refreshed = {}  BY DEF NoEffect
  <2> HIDE DEF e
  <2> QED BY <2>1, <2>2 DEF Settled
<1>3. CASE Copy(op)  BY <1>3, WriteSettles DEF Copy
<1>4. CASE Delta(op)  BY <1>4, WriteSettles DEF Delta
<1>5. CASE RawInsert(op)  BY <1>5, WriteSettles DEF RawInsert
<1>6. CASE AppendBlock(op)  BY <1>6, WriteSettles DEF AppendBlock
<1>7. CASE Delete(op)  BY <1>7, CutSettles DEF Delete
<1>8. CASE TruncateToBytes(op)
  <2>1. Perform(op, [NoEffect(op) EXCEPT !.installed = TruncateBytes(installed, op.size),
                                         !.lost = Removed(LastCut(op))])
    BY <1>8 DEF TruncateToBytes, LastCut
  <2> QED BY <2>1, CutSettles
<1>9. CASE TruncateToBlocks(op)  BY <1>9, CutSettles DEF TruncateToBlocks
<1>10. CASE RollbackToSnapshot(op)
  <2> DEFINE e == [NoEffect(op) EXCEPT
                     !.installed = snapshot, !.state = "rolled_back", !.staged = 0,
                     !.refreshed = {Level(snapshot, backups, 0)}]
  <2>1. Perform(op, e)  BY <1>10 DEF RollbackToSnapshot
  <2>2. Settled(e)  BY DEF Settled, NoEffect
  <2> QED BY <2>1, <2>2
<1>11. CASE Commit(op)
  <2> DEFINE c == Completion("installing")
             e == [NoEffect(op) EXCEPT
                     !.installed = c.installed, !.state = c.state, !.errors = c.errors,
                     !.violations = c.violations, !.ab = c.ab, !.staged = 0,
                     !.refreshed = CompletionLevels(c)]
  <2>1. Perform(op, e)  BY <1>11 DEF Commit
  <2>2. c.installed = installed  BY OneSlotCompletion
  <2> HIDE DEF c
  <2>3. Settled(e)  BY <2>2 DEF Settled, NoEffect, CompletionLevels
  <2> QED BY <2>1, <2>3
<1>12. ~RollbackToBackup(op)  BY DEF RollbackToBackup
<1> QED BY <1>1, <1>2, <1>3, <1>4, <1>5, <1>6, <1>7, <1>8, <1>9, <1>10, <1>11, <1>12
     DEF Succeed

(* The end of an update empties the staging area and stores nothing.       *)
LEMMA CompleteReports ==
  ASSUME TypeInv, ~EnableAB, PeakCoversStorage, Reported, Complete
  PROVE  Reported'
<1> DEFINE c == Completion(installState)
           level == Level(installed, backups, 0)
<1>1. level \in Nat /\ peakStorage \in Nat /\ level <= peakStorage
  <2>1. /\ ImageBytes(installed) \in Nat /\ BackupBytes(backups) \in Nat
        /\ staging \in Nat /\ peakStorage \in Nat
    BY BytesType, BackupBytesType DEF TypeInv
  <2> QED BY <2>1 DEF Level, PeakCoversStorage
<1>2. c.installed = installed  BY OneSlotCompletion
<1>3. /\ peakStorage' = Max({peakStorage} \cup CompletionLevels(c))
      /\ violations \subseteq violations'
  BY DEF Complete
<1> HIDE DEF c
<1>4. CompletionLevels(c) = {level}  BY <1>2 DEF CompletionLevels
<1> HIDE DEF level
<1>5. {peakStorage} \cup CompletionLevels(c) = {peakStorage, level}  BY <1>4
<1>6. Max({peakStorage, level}) = peakStorage
  <2>1. /\ {peakStorage, level} \subseteq Nat /\ {peakStorage, level} # {}
        /\ \A l \in {peakStorage, level} : l <= peakStorage
    BY <1>1
  <2>2. /\ Max({peakStorage, level}) \in {peakStorage, level}
        /\ Max({peakStorage, level}) >= peakStorage
    BY <1>1, <2>1, MaxOfBounded
  <2> QED BY <1>1, <2>2
<1> QED BY <1>3, <1>5, <1>6 DEF Reported

LEMMA ReportedStep ==
  ASSUME ReplayInv, ~EnableAB, Staging = "full_package", PeakCoversStorage,
         RestoresNoBlock => Reported, [AgreementNext]_agreementVars
  PROVE  RestoresNoBlock' => Reported'
<1>0. TypeInv /\ history \in Seq(Plan)  BY DEF ReplayInv, ObservedType
<1>1. ASSUME NEW op \in Plan, Succeed(op), Observe(op), RestoresNoBlock'
      PROVE  Reported'
  <2>1. history' = Append(history, op)  BY <1>1 DEF Observe
  <2>2. RestoresNoBlock /\ (op.op = "rollback" => op.id = SnapshotId)
    <3>1. /\ Len(history) \in Nat /\ DOMAIN history = 1 .. Len(history)
          /\ DOMAIN history' = 1 .. Len(history) + 1
          /\ \A i \in 1 .. Len(history) : history'[i] = history[i]
          /\ history'[Len(history) + 1] = op
      BY <1>0, <2>1
    <3> QED BY <1>1, <3>1 DEF RestoresNoBlock
  <2>3. PICK e : Settled(e) /\ Perform(op, e)  BY <1>1, <2>2, SucceedSettles
  <2>4. TypeInv'  BY ObservedTypeStep DEF ReplayInv
  <2>5. op \in Operation  BY DeploymentAssumption
  <2> QED BY <1>0, <2>2, <2>3, <2>4, <2>5, PerformReports
<1>2. ASSUME UNCHANGED observed  PROVE RestoresNoBlock' = RestoresNoBlock
  BY <1>2 DEF observed, RestoresNoBlock
<1>3. ASSUME NEW op \in Plan, Fail(op), UNCHANGED observed, RestoresNoBlock'
      PROVE  Reported'
  <2> DEFINE download == Level(installed, backups, Staged(op))
  <2>1. download \in Nat /\ peakStorage \in Nat
    BY <1>0, DeploymentAssumption, StagedType, LevelType DEF TypeInv
  <2>2. /\ peakStorage' = Max({peakStorage, download}) /\ violations \subseteq violations'
        /\ Exceeds(download, StorageBudget) => "storage" \in violations'
    BY <1>3 DEF Fail, Exceeded
  <2> HIDE DEF download
  <2>3. Max({peakStorage, download}) \in {peakStorage, download}
    <3>1. /\ {peakStorage, download} \subseteq Nat /\ {peakStorage, download} # {}
          /\ peakStorage + download \in Nat
          /\ \A l \in {peakStorage, download} : l <= peakStorage + download
      BY <2>1
    <3> QED BY <3>1, MaxOfBounded
  <2> QED BY <1>2, <1>3, <2>2, <2>3 DEF Reported
<1>4. ASSUME Interrupt, UNCHANGED observed, RestoresNoBlock'  PROVE Reported'
  BY <1>2, <1>4 DEF Interrupt, cost, Reported
<1>5. ASSUME Complete, UNCHANGED observed, RestoresNoBlock'  PROVE Reported'
  BY <1>0, <1>2, <1>5, CompleteReports
<1>6. ASSUME UNCHANGED agreementVars, RestoresNoBlock'  PROVE Reported'
  BY <1>2, <1>6 DEF agreementVars, vars, Reported
<1> QED BY <1>1, <1>3, <1>4, <1>5, <1>6 DEF AgreementNext

ImagesInBudget == \A old \in InitialImages : ~Exceeds(ImageBytes(old), StorageBudget)

LEMMA ReportedStart ==
  ASSUME ImagesInBudget, AgreementInit  PROVE Reported
<1>1. installed \in InitialImages /\ peakStorage = Level(installed, << >>, 0)
  BY DEF AgreementInit, Init
<1>2. BackupBytes(<< >>) = 0
  <2>1. DOMAIN << >> = {}  OBVIOUS
  <2>2. UNION {{id} \X (1 .. Len(<< >>[id].block)) : id \in {}} = {}  OBVIOUS
  <2>3. Cardinality({}) = 0  BY FS_EmptySet
  <2> QED BY <2>1, <2>2, <2>3 DEF BackupBytes
<1>3. ImageBytes(installed) \in Nat  BY <1>1, DeploymentAssumption, BytesType
<1>4. peakStorage = ImageBytes(installed)  BY <1>1, <1>2, <1>3 DEF Level
<1> QED BY <1>1, <1>4 DEF ImagesInBudget, Reported

LEMMA AgreementIsSpec == AgreementSpec => Spec
<1>1. AgreementInit => Init  BY DEF AgreementInit
<1> QED BY <1>1, AgreementIsUpdate, PTL DEF AgreementSpec, Spec

(* On one slot, with the whole package staged and an old image within the  *)
(* storage budget, a storage or RAM peak above its budget is a reported    *)
(* violation, whatever the plan, until a saved block is written back       *)
(* (_refresh_peak_storage, _check_budgets).                                *)
THEOREM PeaksReportedCorrect ==
  ASSUME ~EnableAB, Staging = "full_package", ImagesInBudget
  PROVE  AgreementSpec => []PeaksReported
<1>1. AgreementInit => ReplayInv /\ Reported  BY ObservedTypeInit, ReportedStart
<1>2. ReplayInv /\ PeakCoversStorage /\ (RestoresNoBlock => Reported)
        /\ [AgreementNext]_agreementVars
        => ReplayInv' /\ (RestoresNoBlock' => Reported')
  BY ObservedTypeStep, ReportedStep
<1>3. (RestoresNoBlock => Reported) /\ RamBudgetReported => PeaksReported
  BY DEF PeaksReported, BudgetsReported, RamBudgetReported, RestoresNoBlock, Reported
<1> QED BY <1>1, <1>2, <1>3, AgreementIsSpec, PeakCorrect, RamCorrect, PTL DEF AgreementSpec
=============================================================================

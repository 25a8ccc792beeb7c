----------------------------- MODULE Environment -----------------------------
(***************************************************************************)
(* The planning environment, env/ota_env.py: an agent writes an update     *)
(* plan by taking actions; each action records operations, which are       *)
(* deployed at once on a simulator, while the environment keeps a working  *)
(* image of its own to look for sources in.  A target block is processed   *)
(* once; when none is left the image is cut to its size and completed.     *)
(*                                                                         *)
(* The legacy actions M and MB choose the operation themselves.  MB saves  *)
(* the block first and appends it to the working image, at a virtual index *)
(* that the device does not have: later operations that find a source      *)
(* there must read the backup instead.                                     *)
(*                                                                         *)
(* One action here is one operation recorded, `pc` being the position in   *)
(* step().  Actions that the environment refuses before it records         *)
(* anything change nothing and are left out, as are rewards, observations  *)
(* and the textual encoding; the plan itself is the operations the         *)
(* simulator has accepted.                                                 *)
(***************************************************************************)
EXTENDS Deployment

CONSTANTS
  ActionSets,   \* the sets of actions that the agents of the runs use
  MaxSteps      \* bound of the runs: actions in one episode

Legacy == {"M", "MB"}
ActionName == Legacy \cup
  {"keep", "copy", "delta", "raw_insert", "backup", "append", "delete",
   "truncate", "checkpoint", "verify", "commit", "rollback"}

ASSUME EnvironmentAssumption ==
  /\ Expected # NoImage
  /\ ActionSets \subseteq SUBSET ActionName
  /\ MaxSteps \in Nat
  /\ \A step \in 1 .. MaxSteps, old \in InitialImages :
       \A i \in 0 .. Len(old) + Len(Expected) : <<step, i>> \in BackupId

VARIABLES
  working,     \* _old_blocks: the installed image, then the virtual blocks
  idOf,        \* _backup_index_to_id
  remaining,   \* _blocks_remaining
  steps,       \* _steps
  actions,     \* the actions this agent uses
  pc,          \* the position in step()
  current      \* of a legacy action: its target, and what it saves

env == <<working, idOf, remaining, steps, actions, current>>
envVars == <<vars, working, idOf, remaining, steps, actions, pc, current>>

Target(t) == Expected[t + 1]
InWorking(i) == i \in 0 .. Len(working) - 1
Transformed == BlocksToBytes(installed) = BlocksToBytes(Expected)

EnvInit ==
  /\ Init
  /\ working = installed
  /\ idOf = << >>
  /\ remaining = 0 .. Len(Expected) - 1
  /\ steps = 0
  /\ actions \in ActionSets
  /\ pc = IF remaining = {} THEN "finish" ELSE "choose"
  /\ current = << >>

-----------------------------------------------------------------------------
(* _record_operation: the simulator applies the operation, or raises, and  *)
(* the exception leaves step().                                            *)
Record(op, next) ==
  \/ Succeed(op) /\ next
  \/ /\ IF Running THEN Fail(op) ELSE UNCHANGED vars
     /\ pc' = "raised"
     /\ UNCHANGED env

(* The end of an action: the targets it has processed are done with, and   *)
(* the episode ends when none is left.                                     *)
EndAction(processed, blocks, ids) ==
  /\ working' = blocks
  /\ idOf' = ids
  /\ remaining' = remaining \ processed
  /\ steps' = steps + 1
  /\ pc' = IF remaining' = {} THEN "finish" ELSE "choose"
  /\ UNCHANGED <<actions, current>>

Written(t) == WriteBlock(working, t, Target(t))

(* Variant: numbered by the steps done.                                    *)
LastBackupId(i) == <<steps, i>>

(* _default_backup_id: unique, an action saving one block at most.         *)
DefaultBackupId(i) == <<steps + 1, i>>

(* _backup_index_to_id once block i stands for a backup.                   *)
NameBlock(i, id) == [j \in DOMAIN idOf \cup {i} |-> IF j = i THEN id ELSE idOf[j]]

-----------------------------------------------------------------------------
(* _source_refs: what copy and delta may read, as the agent names it.      *)
References ==
  [area : {"installed"}, index : 0 .. Len(working) - 1] \cup
  [area : {"backup"}, id : DOMAIN backups]

ReferredBlock(ref) ==
  IF ref.area = "installed" THEN working[ref.index + 1] ELSE backups[ref.id].block

CanKeep(t) == InWorking(t) /\ working[t + 1] = Target(t)

(* get_action_mask, for a pending target.                                  *)
Mask(t) ==
  {"M", "MB", "raw_insert", "checkpoint"} \cup
  {a \in {"keep"}     : CanKeep(t)} \cup
  {a \in {"copy"}     : \E ref \in References : ReferredBlock(ref) = Target(t)} \cup
  {a \in {"delta"}    : References # {}} \cup
  {a \in {"append"}   : t = Len(working)} \cup
  {a \in {"backup"}   : working # << >>} \cup
  {a \in {"delete"}   : Len(installed) > Len(Expected)} \cup
  {a \in {"truncate"} : ImageBytes(working) > ImageBytes(Expected)} \cup
  {a \in {"verify", "commit"} : Transformed} \cup
  {a \in {"rollback"} : backups # << >> \/ installed # << >>}

Chooses(action, t) ==
  /\ pc = "choose" /\ steps < MaxSteps
  /\ t \in remaining
  /\ action \in actions \cap Mask(t)

-----------------------------------------------------------------------------
(* The structured actions, one handler each.                               *)
ApplyKeep(t) ==
  /\ Chooses("keep", t)
  /\ Record([op |-> "keep", target |-> t, hash |-> Target(t)],
            EndAction({t}, working, idOf))

ApplyCopy(t, ref) ==
  /\ Chooses("copy", t) /\ ReferredBlock(ref) = Target(t)
  /\ Record([op |-> "copy", source |-> ref, target |-> t, hash |-> Target(t)],
            EndAction({t}, Written(t), idOf))

(* A patch against the referred block.                                     *)
DeltaFrom(source, block, t) ==
  [op |-> "delta", codec |-> "bsdiff4", source |-> source, target |-> t,
   base |-> block, result |-> Target(t), patch |-> 1, hash |-> Target(t)]

ApplyDelta(t, ref) ==
  /\ Chooses("delta", t)
  /\ Record(DeltaFrom(ref, ReferredBlock(ref), t), EndAction({t}, Written(t), idOf))

ApplyRawInsert(t) ==
  /\ Chooses("raw_insert", t)
  /\ Record([op |-> "raw_insert", target |-> t, data |-> Target(t)],
            EndAction({t}, Written(t), idOf))

ApplyAppend(t) ==
  /\ Chooses("append", t)
  /\ Record([op |-> "append", target |-> t, data |-> Target(t)],
            EndAction({t}, Written(t), idOf))

ApplyBackup(t, i) ==
  /\ Chooses("backup", t) /\ i \in 0 .. Len(installed) - 1
  /\ Record([op |-> "backup", source |-> i, id |-> DefaultBackupId(i)],
            EndAction({}, working, NameBlock(i, DefaultBackupId(i))))

(* delete and truncate reach the tail behind the target image only.  These *)
(* three take over the image of the simulator.                             *)
ApplyDelete(t, i, count) ==
  /\ Chooses("delete", t)
  /\ i >= Len(Expected) /\ i + count <= Len(working)
  /\ Record([op |-> "delete", target |-> i, count |-> count],
            EndAction({}, installed', idOf))

CutToSize == [op |-> "truncate", unit |-> "bytes", size |-> ImageBytes(Expected)]

ApplyTruncate(t) ==
  /\ Chooses("truncate", t)
  /\ Record(CutToSize, EndAction({}, installed', idOf))

ApplyRollback(t, id) ==
  /\ Chooses("rollback", t)
  /\ Record([op |-> "rollback", id |-> id], EndAction({}, installed', idOf))

ApplyCheckpoint(t) ==
  /\ Chooses("checkpoint", t)
  /\ Record([op |-> "checkpoint"], EndAction({}, working, idOf))

ApplyVerify(t) ==
  /\ Chooses("verify", t)
  /\ Record([op |-> "verify", hash |-> BlocksToBytes(Expected),
             size |-> ImageBytes(Expected)], EndAction({}, working, idOf))

(* A commit needs the target image in place and does with all targets.     *)
ApplyCommit(t) ==
  /\ Chooses("commit", t)
  /\ Record([op |-> "commit"], EndAction(remaining, working, idOf))

-----------------------------------------------------------------------------
(* The legacy actions.  The target is done with before anything may fail.  *)
Saves(t) == InWorking(t) /\ t < Len(installed)

ApplyLegacy(action, t) ==
  /\ Chooses(action, t)
  /\ remaining' = remaining \ {t}
  /\ LET saves == action = "MB" /\ Saves(t) IN
     /\ current' = [target |-> t, saves |-> saves,
                    block |-> IF saves THEN working[t + 1] ELSE << >>]
     /\ pc' = IF saves THEN "backup" ELSE "modify"
  /\ UNCHANGED <<vars, working, idOf, steps, actions>>

LegacyBackup ==
  /\ pc = "backup"
  /\ Record([op |-> "backup", source |-> current.target,
             id |-> DefaultBackupId(current.target)],
            pc' = "modify" /\ UNCHANGED env)

(* Variant: the device is taken to have the virtual blocks.                *)
InstalledReference(i) == [area |-> "installed", index |-> i]

(* _source_reference                                                       *)
SourceReference(i) ==
  IF i \in DOMAIN idOf THEN [area |-> "backup", id |-> idOf[i]]
                       ELSE [area |-> "installed", index |-> i]

Matches(t) == {i \in 0 .. Len(working) - 1 : working[i + 1] = Target(t)}

(* _delta_source_indices, of which the smallest patch is taken: any block  *)
(* of the old image, similarity being computed once, when it is read; the  *)
(* target or the last block when the old image had none.                   *)
DeltaIndices(t) ==
  LET similar == 0 .. Min({Len(snapshot), Len(working)}) - 1
  IN  IF similar # {} THEN similar ELSE {Min({t, Len(working) - 1})}

(* modify: the operation it records, and what it leaves in the working     *)
(* image.                                                                  *)
Modifications(t) ==
  IF CanKeep(t) THEN {[op |-> "keep", target |-> t, hash |-> Target(t)]}
  ELSE IF Matches(t) # {}
    THEN {[op |-> "copy", source |-> SourceReference(Min(Matches(t))),
           target |-> t, hash |-> Target(t)]}
  ELSE IF working = << >>
    THEN {[op |-> "raw_insert", target |-> t, data |-> Target(t)]}
  ELSE {DeltaFrom(SourceReference(i), working[i + 1], t) : i \in DeltaIndices(t)}

(* Variant: the index after the one the block is appended at.              *)
NextIndex(blocks) == Len(blocks) + 1

VirtualIndex(blocks) == Len(blocks)

Modify(op) ==
  /\ pc = "modify" /\ op \in Modifications(current.target)
  /\ LET blocks == Written(current.target) IN
     Record(op,
       IF current.saves
         THEN EndAction({}, Append(blocks, current.block),
                NameBlock(VirtualIndex(blocks), DefaultBackupId(current.target)))
         ELSE EndAction({}, blocks, idOf))

-----------------------------------------------------------------------------
(* Variant: the tail of a longer old image stays.                          *)
FinalizeKeepsTail ==
  pc = "finish" /\ pc' = "complete" /\ UNCHANGED <<vars, env>>

(* _finalize_structured_update                                             *)
Finalize ==
  /\ pc = "finish"
  /\ IF ImageBytes(installed) > ImageBytes(Expected)
       THEN Record(CutToSize, /\ working' = installed' /\ pc' = "complete"
                              /\ UNCHANGED <<idOf, remaining, steps, actions, current>>)
       ELSE pc' = "complete" /\ UNCHANGED <<vars, env>>

CompleteUpdate ==
  pc = "complete" /\ Complete /\ pc' = "done" /\ UNCHANGED env

EnvNext ==
  \/ \E t \in remaining :
       \/ ApplyKeep(t) \/ ApplyRawInsert(t) \/ ApplyAppend(t) \/ ApplyTruncate(t)
       \/ ApplyCheckpoint(t) \/ ApplyVerify(t) \/ ApplyCommit(t)
       \/ \E ref \in References : ApplyCopy(t, ref) \/ ApplyDelta(t, ref)
       \/ \E i \in 0 .. Len(installed) - 1 : ApplyBackup(t, i)
       \/ \E i \in 0 .. Len(working), count \in 1 .. Len(working) : ApplyDelete(t, i, count)
       \/ \E id \in {SnapshotId} \cup DOMAIN backups : ApplyRollback(t, id)
       \/ \E action \in Legacy : ApplyLegacy(action, t)
  \/ LegacyBackup
  \/ pc = "modify" /\ \E op \in Modifications(current.target) : Modify(op)
  \/ Finalize
  \/ CompleteUpdate

EnvSpec == EnvInit /\ [][EnvNext]_envVars

-----------------------------------------------------------------------------
(* An agent that mixes no legacy action with structured ones, on an old    *)
(* image not shorter than the new one if it uses legacy actions: what the  *)
(* environment handles.                                                    *)
LegacyAgent == actions \subseteq Legacy
Handled ==
  \/ actions \cap Legacy = {}
  \/ LegacyAgent /\ Len(Expected) <= Len(snapshot)

(* The working image is an image, and its virtual blocks have backup names *)
(* that the environment gives (_backup_index_to_id, _blocks_remaining).    *)
EnvTypeOK ==
  /\ working \in Image
  /\ remaining \subseteq 0 .. Len(Expected) - 1
  /\ \A i \in DOMAIN idOf : i \in Nat /\ idOf[i] \in BackupId
  /\ steps \in 0 .. MaxSteps
  /\ pc \in {"choose", "backup", "modify", "finish", "complete", "done", "raised",
              "idle"}   \* idle: there is no environment, see Policies

(* An action that the mask allows is never refused by the simulator: the   *)
(* sources it finds in the working image are on the device, with the       *)
(* content it saw, although blocks are overwritten, saved, cut and brought *)
(* back (get_action_mask, _source_reference, _record_operation).           *)
MaskedStepsAccepted == Handled => pc # "raised"

(* Between two actions every block of the working image can be had from    *)
(* the device: the installed blocks in place, the virtual ones from the    *)
(* backups their index stands for (_write_old_block, _sync_installed_      *)
(* from_deployment, _backup_index_to_id).                                  *)
WorkingTracksDevice ==
  Handled /\ pc = "choose" =>
    /\ Len(installed) <= Len(working)
    /\ \A i \in 0 .. Len(working) - 1 :
         IF i < Len(installed)
           THEN working[i + 1] = installed[i + 1]
           ELSE /\ i \in DOMAIN idOf /\ idOf[i] \in DOMAIN backups
                /\ working[i + 1] = backups[idOf[i]].block

(* An episode that ends without a rollback has installed the new image and *)
(* completed, in whatever order the targets were processed, from whatever  *)
(* sources, with a shorter or a longer old image, cut early or late        *)
(* (step, _finalize_structured_update).                                    *)
FinishedMeansTransformed ==
  Handled /\ "rollback" \notin actions /\ pc = "done" =>
    Transformed /\ installState = "complete"

(* For the plans of legacy agents rollback_ready is as good as its word:   *)
(* all that was overwritten is saved with its old content, which the       *)
(* simulator does not promise for any plan (RollbackDataPreserved).        *)
LegacyPreservesRollback == Handled /\ LegacyAgent => RollbackDataPreserved

(* "MB: modify current block in place and backup old block": a legacy      *)
(* action is accepted on any image.                                        *)
LegacyAccepted == LegacyAgent => pc # "raised"

(* After boot attempts that all failed the old image is back and stays.    *)
FailedBootRestoresOldImage == pc = "done" /\ ab.rolledBack => installed = snapshot
=============================================================================

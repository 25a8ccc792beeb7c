----------------------------- MODULE Deployment -----------------------------
(***************************************************************************)
(* The deployment simulator, deployment/semantics.py: a device installing  *)
(* an update in place.  It applies the operations of a plan to the         *)
(* installed image while it accounts for package bytes, staging, RAM,      *)
(* flash and storage, decides whether the old image is still recoverable,  *)
(* takes checkpoints, may be interrupted and restored, and activates the   *)
(* result through A/B slots.                                               *)
(*                                                                         *)
(* Times are left out: they are linear in the bytes counted here.  So is   *)
(* network_bytes, which every step changes exactly as package_size_bytes.  *)
(***************************************************************************)
EXTENDS Operations

CONSTANTS
  InitialImages,        \* the images an update may start from
  Plan,                 \* the operations a plan may contain
  MaxOps,               \* bound of the runs: operations applied to one state
  Overhead,             \* bytes of metadata downloaded with any operation
  RequireBackup,        \* require_backup_for_overwrite
  CheckpointInterval,   \* checkpoint_interval_ops, 0 for None
  Staging,              \* staging_strategy
  StorageBudget,        \* storage_budget_bytes, or NoLimit
  RamBudget,            \* ram_budget_bytes, or NoLimit
  EnableAB,             \* enable_ab_slots
  SlotCapacity,         \* slot_capacity_bytes, or NoLimit
  MaxBootAttempts,      \* max_boot_attempts
  HealthCheck,          \* health_check_mode
  InactiveInstall,      \* require_inactive_slot_install
  Expected,             \* expected_blocks, or NoImage
  NoImage

ASSUME DeploymentAssumption ==
  /\ InitialImages \subseteq Image
  /\ Plan \subseteq Operation
  /\ MaxOps \in Nat
  /\ Overhead \in Nat
  /\ RequireBackup \in BOOLEAN
  /\ CheckpointInterval \in Nat
  /\ Staging \in {"streaming", "full_package"}
  /\ StorageBudget \in Nat \cup {NoLimit}
  /\ RamBudget \in Nat \cup {NoLimit}
  /\ EnableAB \in BOOLEAN
  /\ SlotCapacity \in Nat \cup {NoLimit}
  /\ MaxBootAttempts \in Nat \ {0}
  /\ HealthCheck \in {"always_pass", "forced_fail"}
  /\ InactiveInstall \in BOOLEAN
  /\ Expected \in {NoImage} \cup Image

VARIABLES
  installed,        \* installed_blocks: the image in place
  snapshot,         \* snapshot_blocks: the image before the update
  backups,          \* backup_area
  applied,          \* applied_operations
  installState,     \* install_state
  errors,           \* errors: the kinds of the messages collected
  rollbackReady,    \* rollback_ready
  unsafe,           \* unsafe_overwrites
  checkpoints,      \* checkpoints, in the order they were taken
  package,          \* package_size_bytes
  staging,          \* staging_area_bytes
  flash,            \* flash_write_bytes
  peakRam,          \* peak_ram_bytes
  peakStorage,      \* peak_persistent_storage_bytes
  violations,       \* budget_violations
  ab                \* the fields of the A/B slots

image == <<installed, backups>>
safety == <<rollbackReady, unsafe>>
cost == <<package, staging, flash, peakRam, peakStorage, violations>>
vars == <<installed, snapshot, backups, applied, installState, errors,
          rollbackReady, unsafe, checkpoints, package, staging, flash,
          peakRam, peakStorage, violations, ab>>

-----------------------------------------------------------------------------
(* current_persistent_storage_bytes                                        *)
BackupBytes(area) ==
  Cardinality(UNION {{id} \X (1 .. Len(area[id].block)) : id \in DOMAIN area})

Level(blocks, area, staged) == ImageBytes(blocks) + BackupBytes(area) + staged

Init ==
  /\ installed \in InitialImages
  /\ snapshot = installed
  /\ backups = << >>
  /\ applied = 0
  /\ installState = "ready"
  /\ errors = {}
  /\ rollbackReady = TRUE
  /\ unsafe = {}
  /\ checkpoints = << >>
  /\ package = 0 /\ staging = 0 /\ flash = 0 /\ peakRam = 0
  /\ peakStorage = Level(installed, << >>, 0)
  /\ violations = {}
  /\ ab = [active |-> "A", inactive |-> "B",
           activeVersion |-> BlocksToBytes(installed),
           inactiveVersion |-> BlocksToBytes(installed),
           slotBytes |-> ImageBytes(installed), slotViolation |-> FALSE,
           boots |-> 0, reboots |-> 0, switches |-> 0, verdict |-> "not_run",
           activated |-> FALSE, healthy |-> FALSE, rolledBack |-> FALSE,
           rollbackReady |-> EnableAB, valid |-> FALSE, finalized |-> FALSE]

-----------------------------------------------------------------------------
(* _require_index, _resolve_source_block, _assert_target_hash              *)
InImage(index) == index \in 0 .. Len(installed) - 1

Readable(source) ==
  CASE source.area = "installed" -> InImage(source.index)
    [] source.area = "backup"    -> source.id \in DOMAIN backups
    [] source.area = "image"     -> TRUE

SourceBlock(source) ==
  CASE source.area = "installed" -> installed[source.index + 1]
    [] source.area = "backup"    -> backups[source.id].block
    [] source.area = "image"     -> BlocksToBytes(installed)

(* The checks that come before an operation changes anything.              *)
Applicable(op) ==
  CASE op.op \in {"keep", "skip"} ->
         InImage(op.target) /\ HashMatches(op.hash, installed[op.target + 1])
    [] op.op = "backup" -> InImage(op.source)
    [] op.op = "copy" ->
         Readable(op.source) /\ HashMatches(op.hash, SourceBlock(op.source))
    [] op.op = "delta" ->
         /\ op.codec = "bsdiff4"
         /\ Readable(op.source) /\ SourceBlock(op.source) = op.base
         /\ HashMatches(op.hash, op.result)
    [] op.op = "append" -> op.target \in {NoLimit, Len(installed)}
    [] op.op = "delete" ->
         /\ op.count > 0
         /\ InImage(op.target) /\ InImage(op.target + op.count - 1)
    [] op.op = "verify" ->
         HashMatches(op.hash,
           IF op.size = NoLimit THEN BlocksToBytes(installed)
                                ELSE Take(BlocksToBytes(installed), op.size))
    [] op.op = "rollback" -> op.id = SnapshotId \/ op.id \in DOMAIN backups
    [] OTHER -> TRUE

-----------------------------------------------------------------------------
(* Variant: a backup of any block protects.                              *)
UnprotectedByAny(target) ==
  RequireBackup /\ target < Len(snapshot) /\ DOMAIN backups = {}

(* _mark_overwrite_if_unprotected: the snapshot blocks that an operation   *)
(* loses for a rollback, being neither backed up nor written unchanged.    *)
Unprotected(target) ==
  /\ RequireBackup
  /\ target < Len(snapshot)
  /\ \A id \in DOMAIN backups : backups[id].index # target

Overwritten(target, block) ==
  {t \in {target} : Unprotected(t) /\ block # snapshot[t + 1]}

Removed(targets) == {t \in targets : Unprotected(t)}

(* operation_payload_size + metadata_overhead_bytes                        *)
DownloadBytes(op) ==
  Overhead + CASE op.op = "delta" -> op.patch
               [] op.op \in {"append", "raw_insert"} -> Len(op.data)
               [] OTHER -> 0

Staged(op) ==
  IF Staging = "full_package" THEN staging + DownloadBytes(op)
                              ELSE DownloadBytes(op)

(* What an operation does once it is downloaded: the fields it assigns,    *)
(* the storage levels the peak is refreshed at, and the levels the budget  *)
(* is checked at, besides the level right after the download.              *)
NoEffect(op) ==
  [installed |-> installed, backups |-> backups, state |-> "installing",
   errors |-> errors, ab |-> ab, violations |-> {}, lost |-> {},
   written |-> 0, ram |-> 0, staged |-> Staged(op),
   refreshed |-> {}, checked |-> {}]

WriteEffect(op, target, block, lost, ram) ==
  LET written == WriteBlock(installed, target, block) IN
  [NoEffect(op) EXCEPT
     !.installed = written, !.lost = lost, !.ram = ram,
     !.written = Holes(installed, target) * BlockSize + Len(block),
     !.refreshed = {Level(written, backups, Staged(op))}]

-----------------------------------------------------------------------------
(* Variant: RAM is not checked.                                          *)
ExceededStorage(levels, ram) ==
  {"storage" : x \in {l \in levels : Exceeds(l, StorageBudget)}}

(* Variant: storage is not checked.                                      *)
ExceededRam(levels, ram) ==
  {"ram" : x \in {r \in {ram} : Exceeds(r, RamBudget)}}

(* _check_budgets, at the given levels and transient RAM.                  *)
Exceeded(levels, ram) ==
  {"storage" : x \in {l \in levels : Exceeds(l, StorageBudget)}} \cup
  {"ram" : x \in {r \in {ram} : Exceeds(r, RamBudget)}}

(* Variant: backups and overwrites are copied before the operation.      *)
EarlyCheckpoint(index, e, peak, over) ==
  [index |-> index, installed |-> e.installed, backups |-> backups,
   package |-> package', flash |-> flash', peakRam |-> peakRam',
   peakStorage |-> peak, rollbackReady |-> rollbackReady',
   unsafe |-> unsafe, violations |-> over, errors |-> e.errors]

(* _create_checkpoint                                                      *)
Checkpoint(index, e, peak, over) ==
  [index |-> index, installed |-> e.installed, backups |-> e.backups,
   package |-> package', flash |-> flash', peakRam |-> peakRam',
   peakStorage |-> peak, rollbackReady |-> rollbackReady',
   unsafe |-> unsafe', violations |-> over, errors |-> e.errors]

(* Variant: the interval is one too long.                                *)
TakesCheckpointLate(op) ==
  \/ op.op = "checkpoint"
  \/ CheckpointInterval > 0 /\ (applied + 1) % (CheckpointInterval + 1) = 0

(* A checkpoint operation takes one, and any other operation is followed   *)
(* by one when its number is a multiple of the interval.                   *)
TakesCheckpoint(op) ==
  \/ op.op = "checkpoint"
  \/ CheckpointInterval > 0 /\ (applied + 1) % CheckpointInterval = 0

Running == installState \notin {"failed", "interrupted"}

(* apply_operation, for an operation that does not raise.                  *)
Perform(op, e) ==
  LET download == Level(installed, backups, Staged(op))
      peak     == Max({peakStorage, download} \cup e.refreshed)
      over     == violations \cup e.violations \cup
                  Exceeded({download} \cup e.checked, e.ram)
      rest     == IF Staging = "streaming" THEN 0 ELSE e.staged
      final    == Level(e.installed, e.backups, rest)
  IN
  /\ Running /\ applied < MaxOps
  /\ installed' = e.installed
  /\ backups' = e.backups
  /\ installState' = e.state
  /\ errors' = e.errors
  /\ rollbackReady' = (rollbackReady /\ e.lost = {})
  /\ unsafe' = unsafe \cup {[operation |-> applied + 1, target |-> t] : t \in e.lost}
  /\ applied' = applied + 1
  /\ package' = package + DownloadBytes(op)
  /\ staging' = rest
  /\ flash' = flash + e.written
  /\ peakRam' = Max({peakRam, e.ram})
  /\ checkpoints' = IF TakesCheckpoint(op)
                      THEN Append(checkpoints, Checkpoint(applied + 1, e, peak, over))
                      ELSE checkpoints
  /\ peakStorage' = Max({peak, final})
  /\ violations' = over \cup Exceeded({final}, 0)
  /\ ab' = e.ab
  /\ UNCHANGED snapshot

(* apply_operation, for an operation that raises: it has been downloaded.  *)
Fail(op) ==
  LET download == Level(installed, backups, Staged(op)) IN
  /\ Running /\ applied < MaxOps /\ ~Applicable(op)
  /\ installState' = "failed"
  /\ errors' = errors \cup {"operation"}
  /\ package' = package + DownloadBytes(op)
  /\ staging' = Staged(op)
  /\ peakStorage' = Max({peakStorage, download})
  /\ violations' = violations \cup Exceeded({download}, 0)
  /\ UNCHANGED <<image, snapshot, applied, safety, checkpoints, flash, peakRam, ab>>

-----------------------------------------------------------------------------
Keep(op) ==
  op.op \in {"keep", "skip"} /\ Applicable(op) /\ Perform(op, NoEffect(op))

(* The record is in place when RAM and storage are checked.                *)
Backup(op) ==
  /\ op.op = "backup" /\ Applicable(op)
  /\ LET block == installed[op.source + 1]
         area  == SaveBackup(backups, op.id, [index |-> op.source, block |-> block])
     IN  Perform(op, [NoEffect(op) EXCEPT
           !.backups = area, !.ram = Len(block), !.written = Len(block),
           !.checked = {Level(installed, area, Staged(op))}])

Copy(op) ==
  /\ op.op = "copy" /\ Applicable(op)
  /\ LET block == SourceBlock(op.source)
     IN  Perform(op, WriteEffect(op, op.target, block,
                       Overwritten(op.target, block), Len(block)))

Delta(op) ==
  /\ op.op = "delta" /\ Applicable(op)
  /\ Perform(op, WriteEffect(op, op.target, op.result,
       Overwritten(op.target, op.result),
       Len(op.base) + op.patch + Len(op.result)))

RawInsert(op) ==
  /\ op.op = "raw_insert"
  /\ Perform(op, WriteEffect(op, op.target, op.data,
       Overwritten(op.target, op.data), Len(op.data)))

(* append grows the image and overwrites nothing.                          *)
AppendBlock(op) ==
  /\ op.op = "append" /\ Applicable(op)
  /\ Perform(op, WriteEffect(op, Len(installed), op.data, {}, Len(op.data)))

Delete(op) ==
  /\ op.op = "delete" /\ Applicable(op)
  /\ Perform(op, [NoEffect(op) EXCEPT
       !.installed = DeleteBlocks(installed, op.target, op.count),
       !.lost = Removed(op.target .. op.target + op.count - 1)])

(* Cutting at a byte marks the last block that is left, when it changed,   *)
(* and the blocks behind it.                                               *)
TruncateToBytes(op) ==
  /\ op.op = "truncate" /\ op.unit = "bytes"
  /\ LET cut  == TruncateBytes(installed, op.size)
         left == Len(cut)
         last == {i \in {left - 1} : /\ left > 0 /\ left <= Len(installed)
                                     /\ cut[left] # installed[left]}
     IN  Perform(op, [NoEffect(op) EXCEPT
           !.installed = cut,
           !.lost = Removed(last \cup (left .. Len(installed) - 1))])

TruncateToBlocks(op) ==
  /\ op.op = "truncate" /\ op.unit = "blocks"
  /\ Perform(op, [NoEffect(op) EXCEPT
       !.installed = Take(installed, op.size),
       !.lost = Removed(op.size .. Len(installed) - 1)])

Verify(op) == op.op = "verify" /\ Applicable(op) /\ Perform(op, NoEffect(op))

TakeCheckpoint(op) == op.op = "checkpoint" /\ Perform(op, NoEffect(op))

(* rollback: the snapshot comes back whole, unaccounted in flash; a backup *)
(* is written to the index it was read from.  Neither marks anything.      *)
RollbackToSnapshot(op) ==
  /\ op.op = "rollback" /\ op.id = SnapshotId
  /\ Perform(op, [NoEffect(op) EXCEPT
       !.installed = snapshot, !.state = "rolled_back", !.staged = 0,
       !.refreshed = {Level(snapshot, backups, 0)}])

(* Variant: the snapshot comes back instead of the saved block.          *)
RollbackWholeImage(op) ==
  /\ op.op = "rollback" /\ op.id # SnapshotId /\ Applicable(op)
  /\ Perform(op, [NoEffect(op) EXCEPT
       !.installed = snapshot, !.state = "rolled_back", !.staged = 0,
       !.refreshed = {Level(snapshot, backups, 0)}])

RollbackToBackup(op) ==
  /\ op.op = "rollback" /\ op.id # SnapshotId /\ Applicable(op)
  /\ LET saved == backups[op.id]
     IN  Perform(op, [WriteEffect(op, saved.index, saved.block, {}, 0)
                        EXCEPT !.state = "rolled_back", !.staged = 0])

-----------------------------------------------------------------------------
(* _finalize_ab_update and _finalize_active_slot_update: the candidate is  *)
(* refused before activation, or booted until it is healthy or the boot    *)
(* attempts are used up, in which case the old image comes back.           *)
Candidate == BlocksToBytes(installed)

(* Variant: the content is not compared.                                 *)
RefusalBySize ==
  IF InactiveInstall /\ Exceeds(Len(Candidate), SlotCapacity) THEN {"slot_capacity"} ELSE {}

Refusal ==
  IF InactiveInstall /\ Exceeds(Len(Candidate), SlotCapacity) THEN {"slot_capacity"}
  ELSE IF Expected # NoImage /\ Candidate # BlocksToBytes(Expected) THEN {"slot_content"}
  ELSE {}

Healthy == HealthCheck = "always_pass"
(* Variant: one attempt more than allowed.                               *)
BootsOnceMore == IF Healthy THEN 1 ELSE MaxBootAttempts + 1

Boots == IF Healthy THEN 1 ELSE MaxBootAttempts

Refused ==
  [ab EXCEPT
     !.finalized = TRUE, !.valid = FALSE, !.rollbackReady = TRUE,
     !.slotBytes = Len(Candidate),
     !.slotViolation = @ \/ "slot_capacity" \in Refusal,
     !.inactiveVersion = IF InactiveInstall THEN Candidate ELSE ab.activeVersion]

Booted ==
  [ab EXCEPT
     !.finalized = TRUE, !.activated = TRUE, !.rollbackReady = TRUE,
     !.slotBytes = Len(Candidate),
     !.boots = Boots, !.reboots = @ + Boots,
     !.verdict = IF Healthy THEN "pass" ELSE "fail",
     !.healthy = Healthy, !.valid = Healthy,
     !.rolledBack = @ \/ ~Healthy,
     !.activeVersion = IF Healthy THEN Candidate ELSE @,
     !.inactiveVersion = IF InactiveInstall /\ ~Healthy THEN Candidate
                                                       ELSE ab.activeVersion,
     !.active = IF InactiveInstall /\ Healthy THEN ab.inactive ELSE @,
     !.inactive = IF InactiveInstall /\ Healthy THEN ab.active ELSE @,
     !.switches = IF InactiveInstall THEN @ + (IF Healthy THEN 1 ELSE 2) ELSE @]

(* complete(), entered with install_state = state.                         *)
Completed(state) ==
  IF errors # {} /\ ~(EnableAB /\ ab.finalized /\ state = "rolled_back")
    THEN "failed"
    ELSE IF state = "rolled_back" THEN state ELSE "complete"

(* Variant: finalized is tested the wrong way round.                     *)
FinalizesAfterCommit(state) ==
  EnableAB /\ Completed(state) = "complete" /\ ab.finalized

Finalizes(state) == EnableAB /\ Completed(state) = "complete" /\ ~ab.finalized

(* Variant: the refused image stays.                                     *)
RefusalInPlace ==
  [installed |-> installed, state |-> "failed", errors |-> errors \cup Refusal,
   violations |-> Refusal \cap {"slot_capacity"}, ab |-> Refused]

(* _fail_ab_before_activation                                              *)
FailBeforeActivation ==
  [installed |-> snapshot, state |-> "failed", errors |-> errors \cup Refusal,
   violations |-> Refusal \cap {"slot_capacity"}, ab |-> Refused]

(* Variant: the image that failed to boot stays.                         *)
SwitchInPlace ==
  [installed |-> installed, state |-> IF Healthy THEN "complete" ELSE "rolled_back",
   errors |-> errors, violations |-> {}, ab |-> Booted]

(* The end of _finalize_ab_update and of _finalize_active_slot_update.     *)
Switch ==
  IF Healthy
    THEN [installed |-> installed, state |-> "complete", errors |-> errors,
          violations |-> {}, ab |-> Booted]
    ELSE [installed |-> snapshot, state |-> "rolled_back",
          errors |-> errors \cup {"boot_health"}, violations |-> {}, ab |-> Booted]

Completion(state) ==
  IF ~Finalizes(state)
    THEN [installed |-> installed, state |-> Completed(state), errors |-> errors,
          violations |-> {}, ab |-> ab]
  ELSE IF Refusal # {} THEN FailBeforeActivation ELSE Switch

(* The peak is refreshed with the staging emptied, before and after the    *)
(* slots are finalized.                                                    *)
CompletionLevels(c) == {Level(installed, backups, 0), Level(c.installed, backups, 0)}

Commit(op) ==
  /\ op.op = "commit"
  /\ LET c == Completion("installing")
     IN  Perform(op, [NoEffect(op) EXCEPT
           !.installed = c.installed, !.state = c.state, !.errors = c.errors,
           !.violations = c.violations, !.ab = c.ab, !.staged = 0,
           !.refreshed = CompletionLevels(c)])

-----------------------------------------------------------------------------
(* complete() at the end of a plan.                                        *)
Complete ==
  /\ LET c == Completion(installState) IN
       /\ installed' = c.installed
       /\ installState' = c.state
       /\ errors' = c.errors
       /\ violations' = violations \cup c.violations
       /\ ab' = c.ab
       /\ peakStorage' = Max({peakStorage} \cup CompletionLevels(c))
  /\ staging' = 0
  /\ UNCHANGED <<snapshot, backups, applied, safety, checkpoints, package,
                 flash, peakRam>>

(* interrupt(): power is lost between two operations.                      *)
Interrupt ==
  /\ installState' = "interrupted"
  /\ UNCHANGED <<image, snapshot, applied, errors, safety, checkpoints, cost, ab>>

(* rollback() after an interruption.                                       *)
RollbackInstall ==
  /\ installState = "interrupted"
  /\ installed' = snapshot
  /\ installState' = "rolled_back"
  /\ staging' = 0
  /\ peakStorage' = Max({peakStorage, Level(snapshot, backups, 0)})
  /\ UNCHANGED <<snapshot, backups, applied, errors, safety, checkpoints,
                 package, flash, peakRam, violations, ab>>

(* Variant: nothing is dropped.                                          *)
KeptAll(c) == checkpoints

(* Variant: everything is dropped.                                       *)
KeptNone(c) == << >>

(* restore_checkpoint: every field a checkpoint holds comes back; the      *)
(* checkpoints taken after it are dropped; the A/B fields stay.  The code  *)
(* keeps the checkpoints whose number is not above c's, which are the      *)
(* first ones of the list: CheckpointOrder.                                *)
Kept(c) ==
  SubSeq(checkpoints, 1,
         Cardinality({i \in DOMAIN checkpoints : checkpoints[i].index <= c.index}))

(* Variant: the peak is not refreshed.                                   *)
StoredPeak(c) == c.peakStorage

(* The peak is refreshed with what is restored.                            *)
RestoredPeak(c) == Max({c.peakStorage, Level(c.installed, c.backups, 0)})

RestoreCheckpoint(c) ==
  /\ installed' = c.installed
  /\ backups' = c.backups
  /\ package' = c.package
  /\ flash' = c.flash
  /\ applied' = c.index
  /\ installState' = "ready"
  /\ staging' = 0
  /\ peakRam' = c.peakRam
  /\ peakStorage' = RestoredPeak(c)
  /\ rollbackReady' = c.rollbackReady
  /\ unsafe' = c.unsafe
  /\ violations' = c.violations
  /\ errors' = c.errors
  /\ checkpoints' = IF \E i \in DOMAIN Kept(c) : Kept(c)[i].index = c.index
                      THEN Kept(c) ELSE Append(Kept(c), c)
  /\ UNCHANGED <<snapshot, ab>>

Resume(i) ==
  /\ installState = "interrupted"
  /\ i \in DOMAIN checkpoints
  /\ RestoreCheckpoint(checkpoints[i])

-----------------------------------------------------------------------------
(* clone: the fields of a DeploymentState, and a device that is given a    *)
(* state again.                                                            *)
State ==
  [installed |-> installed, backups |-> backups, applied |-> applied,
   installState |-> installState, errors |-> errors, rollbackReady |-> rollbackReady,
   unsafe |-> unsafe, checkpoints |-> checkpoints, package |-> package,
   staging |-> staging, flash |-> flash, peakRam |-> peakRam,
   peakStorage |-> peakStorage, violations |-> violations, ab |-> ab]

Become(s) ==
  /\ installed' = s.installed /\ backups' = s.backups /\ applied' = s.applied
  /\ installState' = s.installState /\ errors' = s.errors
  /\ rollbackReady' = s.rollbackReady /\ unsafe' = s.unsafe
  /\ checkpoints' = s.checkpoints /\ package' = s.package /\ staging' = s.staging
  /\ flash' = s.flash /\ peakRam' = s.peakRam /\ peakStorage' = s.peakStorage
  /\ violations' = s.violations /\ ab' = s.ab
  /\ UNCHANGED snapshot

-----------------------------------------------------------------------------
Succeed(op) ==
  \/ Keep(op) \/ Backup(op) \/ Copy(op) \/ Delta(op) \/ RawInsert(op)
  \/ AppendBlock(op) \/ Delete(op) \/ TruncateToBytes(op) \/ TruncateToBlocks(op)
  \/ Verify(op) \/ TakeCheckpoint(op) \/ RollbackToSnapshot(op)
  \/ RollbackToBackup(op) \/ Commit(op)

Apply(op) == Succeed(op) \/ Fail(op)

(* simulate_deployment: operations, then an interruption or the end.       *)
UpdateNext ==
  \/ \E op \in Plan : Apply(op)
  \/ Running /\ Interrupt
  \/ Running /\ Complete

UpdateSpec == Init /\ [][UpdateNext]_vars

(* The whole interface: an interrupted device may also be rolled back or   *)
(* restored from any checkpoint, the last one or an earlier, and go on.    *)
Next ==
  \/ UpdateNext
  \/ RollbackInstall
  \/ \E i \in DOMAIN checkpoints : Resume(i)

Spec == Init /\ [][Next]_vars
-----------------------------------------------------------------------------
(* Types.                                                                  *)
Slot == {"A", "B"}
InstallState ==
  {"ready", "installing", "complete", "failed", "interrupted", "rolled_back"}
Violation == {"storage", "ram", "slot_capacity"}
Error == {"operation", "slot_capacity", "slot_content", "boot_health"}
Marker == [operation : Nat, target : Nat]

IsCheckpoint(c) ==
  /\ IsBackupArea(c.backups)
  /\ c \in [index : Nat, installed : Image, backups : {c.backups}, package : Nat,
            flash : Nat, peakRam : Nat, peakStorage : Nat, rollbackReady : BOOLEAN,
            unsafe : SUBSET Marker, violations : SUBSET Violation, errors : SUBSET Error]

SlotState ==
  [active : Slot, inactive : Slot, activeVersion : Block, inactiveVersion : Block,
   slotBytes : Nat, slotViolation : BOOLEAN, boots : Nat, reboots : Nat,
   switches : Nat, verdict : {"not_run", "pass", "fail"}, activated : BOOLEAN,
   healthy : BOOLEAN, rolledBack : BOOLEAN, rollbackReady : BOOLEAN,
   valid : BOOLEAN, finalized : BOOLEAN]

(* Every field keeps its type: images are lists of byte blocks, counters   *)
(* are naturals, and checkpoints are records of such fields.               *)
TypeOK ==
  /\ installed \in Image
  /\ snapshot \in Image
  /\ IsBackupArea(backups)
  /\ applied \in Nat
  /\ installState \in InstallState
  /\ errors \in SUBSET Error
  /\ rollbackReady \in BOOLEAN
  /\ unsafe \in SUBSET Marker
  /\ checkpoints \in Seq(ToSet(checkpoints))
  /\ \A i \in DOMAIN checkpoints : IsCheckpoint(checkpoints[i])
  /\ package \in Nat /\ staging \in Nat /\ flash \in Nat
  /\ peakRam \in Nat /\ peakStorage \in Nat
  /\ violations \in SUBSET Violation
  /\ ab \in SlotState

-----------------------------------------------------------------------------
(* Safety.                                                                 *)

(* Checkpoints carry strictly increasing operation numbers, none ahead of  *)
(* the operations applied: explicit checkpoint operations, automatic ones  *)
(* and restores never record one position twice or out of order, so the    *)
(* last checkpoint is the furthest one (latest_checkpoint).                *)
CheckpointOrder ==
  /\ \A i, j \in DOMAIN checkpoints :
        i < j => checkpoints[i].index < checkpoints[j].index
  /\ \A i \in DOMAIN checkpoints : checkpoints[i].index <= applied

(* rollback_ready says exactly that no unsafe overwrite is recorded, and   *)
(* every record names a block of the old image and an operation that has   *)
(* been applied: in the state, and in every checkpoint that may replace    *)
(* it, so that a restore forgets the overwrites it undoes and no others.   *)
Accounted(ready, records, index) ==
  /\ ready <=> records = {}
  /\ \A r \in records : r.operation \in 1 .. index /\ r.target < Len(snapshot)

OverwritesAccounted ==
  /\ Accounted(rollbackReady, unsafe, applied)
  /\ \A i \in DOMAIN checkpoints :
       Accounted(checkpoints[i].rollbackReady, checkpoints[i].unsafe, checkpoints[i].index)

(* While rollback_ready holds, every block of the old image is still in    *)
(* place or a backup was taken from its index (_mark_overwrite_if_         *)
(* unprotected).  It needs plans that move no blocks (no delete, no cut at *)
(* a byte) and name a backup after its source index.                       *)
ReadyMeansProtected ==
  RequireBackup /\ rollbackReady =>
    \A i \in DOMAIN snapshot :
      \/ i \in DOMAIN installed /\ installed[i] = snapshot[i]
      \/ \E id \in DOMAIN backups : backups[id].index = i - 1

(* The stronger promise of the operation table, "Preserves rollback data": *)
(* while rollback_ready holds, the old content of a block that is no       *)
(* longer in place is still in the backup area.                            *)
RollbackDataPreserved ==
  RequireBackup /\ rollbackReady =>
    \A i \in DOMAIN snapshot :
      \/ i \in DOMAIN installed /\ installed[i] = snapshot[i]
      \/ \E id \in DOMAIN backups : backups[id] = [index |-> i - 1, block |-> snapshot[i]]

(* The reported peak is never below what is stored (_refresh_peak_storage),*)
(* whatever was restored, rolled back or activated.                        *)
PeakCoversStorage == Level(installed, backups, staging) <= peakStorage

(* A peak above a budget is reported as a violation (_check_budgets).      *)
BudgetsReported ==
  /\ Exceeds(peakStorage, StorageBudget) => "storage" \in violations
  /\ Exceeds(peakRam, RamBudget) => "ram" \in violations

(* The RAM half of it.                                                     *)
RamBudgetReported == Exceeds(peakRam, RamBudget) => "ram" \in violations

(* The active slot holds an image that was booted healthily, or the old    *)
(* one: whatever is applied, committed, interrupted, rolled back, restored *)
(* or completed, in any order, the version the device runs is the old one  *)
(* until a health check passed, and the expected one from then on; a       *)
(* failed boot switches back; the slots are finalized at most once, so the *)
(* reboots are those of one round of boot attempts.                        *)
ActiveSlotTrusted ==
  /\ ab.active # ab.inactive
  /\ ab.active = "A" <=> ab.switches % 2 = 0
  /\ ab.reboots = ab.boots /\ ab.boots <= MaxBootAttempts
  /\ IF ab.valid
       THEN ab.healthy /\ (Expected # NoImage =>
                             ab.activeVersion = BlocksToBytes(Expected))
       ELSE ab.activeVersion = BlocksToBytes(snapshot)

(* Activation is all or nothing: the step that finalizes the slots either  *)
(* leaves the candidate installed, complete and valid, in the slot that    *)
(* was inactive when the inactive slot is used, or leaves the old image    *)
(* and version in the old slot and does not say complete.                  *)
AtomicActivation ==
  [][ab'.finalized /\ ~ab.finalized =>
       \/ /\ ab'.valid /\ installState' # "failed" /\ installed' = installed
          /\ ab'.activeVersion = BlocksToBytes(installed)
          /\ ab'.active = IF InactiveInstall THEN ab.inactive ELSE ab.active
       \/ /\ ~ab'.valid /\ installState' \in {"failed", "rolled_back"}
          /\ installed' = snapshot
          /\ ab'.activeVersion = ab.activeVersion /\ ab'.active = ab.active]_vars

(* The list of checkpoints only grows, but for a restore, which cuts it    *)
(* back to the checkpoint it restores: the device is then exactly at the   *)
(* last checkpoint, so a second power loss before the next one comes back  *)
(* to the same place (restore_checkpoint, latest_checkpoint).              *)
CheckpointsSurvive ==
  [][\/ IsPrefix(checkpoints, checkpoints')
     \/ /\ checkpoints' # << >> /\ IsPrefix(checkpoints', checkpoints)
        /\ LET last == checkpoints'[Len(checkpoints')] IN
           /\ applied' = last.index /\ installed' = last.installed
           /\ backups' = last.backups /\ rollbackReady' = last.rollbackReady]_vars
=============================================================================

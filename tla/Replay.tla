------------------------------- MODULE Replay -------------------------------
(***************************************************************************)
(* The replay engine, encoding/replay.py: what a plan means.  It applies   *)
(* operations to an in-memory image and knows nothing of packages, flash,  *)
(* slots or power cuts; the repository calls the image it computes the     *)
(* correctness of a plan, apart from the feasibility of its deployment.    *)
(* It is the abstract specification that Deployment is checked against.    *)
(***************************************************************************)
EXTENDS Operations

CONSTANTS
  InitialImages,   \* the images an update may start from
  Plan,            \* the operations a plan may contain
  MaxOps           \* bound of the runs: operations applied to one state

VARIABLES
  blocks,       \* the image
  snapshot,     \* snapshot_blocks: the image before the update
  backups,      \* backups, by backup_id
  applied,      \* applied_count
  history,      \* history: the operations applied
  peakBlocks,   \* peak_blocks
  rolledBack,   \* rolled_back
  committed,    \* committed
  verified,     \* verified_count
  stopped       \* an operation raised and the strict replay stopped

replayVars == <<blocks, snapshot, backups, applied, history, peakBlocks,
                rolledBack, committed, verified, stopped>>

ReplayInit ==
  /\ blocks \in InitialImages
  /\ snapshot = blocks
  /\ backups = << >>
  /\ applied = 0
  /\ history = << >>
  /\ peakBlocks = Len(blocks)
  /\ rolledBack = FALSE
  /\ committed = FALSE
  /\ verified = 0
  /\ stopped = FALSE

-----------------------------------------------------------------------------
InImage(index) == index \in 0 .. Len(blocks) - 1

Readable(source) ==
  CASE source.area = "installed" -> InImage(source.index)
    [] source.area = "backup"    -> source.id \in DOMAIN backups
    [] source.area = "image"     -> TRUE

SourceBlock(source) ==
  CASE source.area = "installed" -> blocks[source.index + 1]
    [] source.area = "backup"    -> backups[source.id].block
    [] source.area = "image"     -> BlocksToBytes(blocks)

(* Every operation that succeeds is counted and recorded.                  *)
Counted(op) ==
  /\ ~stopped
  /\ applied < MaxOps
  /\ applied' = applied + 1
  /\ history' = Append(history, op)
  /\ UNCHANGED <<snapshot, stopped>>

Write(target, block) ==
  /\ blocks' = WriteBlock(blocks, target, block)
  /\ peakBlocks' = Max({peakBlocks, Len(blocks')})

-----------------------------------------------------------------------------
(* keep, skip: the block must be there and be the expected one.            *)
CanKeep(op) == /\ InImage(op.target)
               /\ HashMatches(op.hash, blocks[op.target + 1])

Keep(op) ==
  /\ op.op \in {"keep", "skip"} /\ CanKeep(op) /\ Counted(op)
  /\ UNCHANGED <<blocks, backups, peakBlocks, rolledBack, committed, verified>>

Backup(op) ==
  /\ op.op = "backup" /\ InImage(op.source) /\ Counted(op)
  /\ backups' = SaveBackup(backups, op.id,
                  [index |-> op.source, block |-> blocks[op.source + 1]])
  /\ UNCHANGED <<blocks, peakBlocks, rolledBack, committed, verified>>

CanCopy(op) == Readable(op.source) /\ HashMatches(op.hash, SourceBlock(op.source))

Copy(op) ==
  /\ op.op = "copy" /\ CanCopy(op) /\ Counted(op)
  /\ Write(op.target, SourceBlock(op.source))
  /\ UNCHANGED <<backups, rolledBack, committed, verified>>

(* Only bsdiff4 patches can be applied, and only to their own base.        *)
CanPatch(op) ==
  /\ op.codec = "bsdiff4"
  /\ Readable(op.source) /\ SourceBlock(op.source) = op.base
  /\ HashMatches(op.hash, op.result)

Delta(op) ==
  /\ op.op = "delta" /\ CanPatch(op) /\ Counted(op)
  /\ Write(op.target, op.result)
  /\ UNCHANGED <<backups, rolledBack, committed, verified>>

RawInsert(op) ==
  /\ op.op = "raw_insert" /\ Counted(op)
  /\ Write(op.target, op.data)
  /\ UNCHANGED <<backups, rolledBack, committed, verified>>

CanAppend(op) == op.target \in {NoLimit, Len(blocks)}

AppendBlock(op) ==
  /\ op.op = "append" /\ CanAppend(op) /\ Counted(op)
  /\ blocks' = Append(blocks, op.data)
  /\ peakBlocks' = Max({peakBlocks, Len(blocks')})
  /\ UNCHANGED <<backups, rolledBack, committed, verified>>

CanDelete(op) ==
  op.count > 0 /\ InImage(op.target) /\ InImage(op.target + op.count - 1)

Delete(op) ==
  /\ op.op = "delete" /\ CanDelete(op) /\ Counted(op)
  /\ blocks' = DeleteBlocks(blocks, op.target, op.count)
  /\ UNCHANGED <<backups, peakBlocks, rolledBack, committed, verified>>

Truncate(op) ==
  /\ op.op = "truncate" /\ Counted(op)
  /\ blocks' = IF op.unit = "bytes" THEN TruncateBytes(blocks, op.size)
                                    ELSE Take(blocks, op.size)
  /\ UNCHANGED <<backups, peakBlocks, rolledBack, committed, verified>>

(* rollback: the whole snapshot, or one saved block at its old index.      *)
CanRollback(op) == op.id = SnapshotId \/ op.id \in DOMAIN backups

Rollback(op) ==
  /\ op.op = "rollback" /\ CanRollback(op) /\ Counted(op)
  /\ IF op.id = SnapshotId
       THEN blocks' = snapshot /\ UNCHANGED peakBlocks
       ELSE Write(backups[op.id].index, backups[op.id].block)
  /\ rolledBack' = TRUE
  /\ UNCHANGED <<backups, committed, verified>>

(* verify: the digest of the image, or of its first `size` bytes.          *)
CanVerify(op) ==
  HashMatches(op.hash,
    IF op.size = NoLimit THEN BlocksToBytes(blocks)
                         ELSE Take(BlocksToBytes(blocks), op.size))

Verify(op) ==
  /\ op.op = "verify" /\ CanVerify(op) /\ Counted(op)
  /\ verified' = verified + 1
  /\ UNCHANGED <<blocks, backups, peakBlocks, rolledBack, committed>>

Control(op) ==
  /\ op.op \in {"checkpoint", "commit"} /\ Counted(op)
  /\ committed' = (committed \/ op.op = "commit")
  /\ UNCHANGED <<blocks, backups, peakBlocks, rolledBack, verified>>

-----------------------------------------------------------------------------
Applicable(op) ==
  CASE op.op \in {"keep", "skip"} -> CanKeep(op)
    [] op.op = "backup"   -> InImage(op.source)
    [] op.op = "copy"     -> CanCopy(op)
    [] op.op = "delta"    -> CanPatch(op)
    [] op.op = "append"   -> CanAppend(op)
    [] op.op = "delete"   -> CanDelete(op)
    [] op.op = "rollback" -> CanRollback(op)
    [] op.op = "verify"   -> CanVerify(op)
    [] OTHER              -> TRUE

(* The first operation that raises stops a strict replay.                  *)
Stop(op) ==
  /\ ~stopped /\ applied < MaxOps /\ ~Applicable(op)
  /\ stopped' = TRUE
  /\ UNCHANGED <<blocks, snapshot, backups, applied, history, peakBlocks,
                 rolledBack, committed, verified>>

ReplayNext ==
  \E op \in Plan :
    \/ Keep(op) \/ Backup(op) \/ Copy(op) \/ Delta(op) \/ RawInsert(op)
    \/ AppendBlock(op) \/ Delete(op) \/ Truncate(op) \/ Rollback(op)
    \/ Verify(op) \/ Control(op) \/ Stop(op)

ReplaySpec == ReplayInit /\ [][ReplayNext]_replayVars

-----------------------------------------------------------------------------
(* The state of a replay has the types of ReplayState: images of blocks,   *)
(* backups that remember index and content, as many operations recorded as *)
(* counted, whatever was rolled back.                                      *)
ReplayTypeOK ==
  /\ blocks \in Image
  /\ snapshot \in Image
  /\ IsBackupArea(backups)
  /\ applied = Len(history)
  /\ history \in Seq(Plan)
  /\ peakBlocks \in Nat
  /\ rolledBack \in BOOLEAN
  /\ committed \in BOOLEAN
  /\ verified \in Nat
  /\ stopped \in BOOLEAN

(* peak_blocks counts blocks, and is refreshed by writes only.  A block    *)
(* longer than block_size is one block when it is written and several      *)
(* after a cut at a byte: full_replacement and whole_file_bsdiff write     *)
(* the whole new image at index 0 and cut it to its size.                  *)
WritesLong(op) ==
  \/ op.op \in {"raw_insert", "append"} /\ Len(op.data) > BlockSize
  \/ op.op = "delta" /\ Len(op.result) > BlockSize
  \/ op.op = "copy" /\ op.source.area = "image"

CutsAtByte(op) == op.op = "truncate" /\ op.unit = "bytes"

Replaces(op) == op.op \in {"copy", "delta", "raw_insert", "append", "rollback"}

(* Some time after a long block was written the image was cut at a byte,   *)
(* and nothing was written or rolled back since.                           *)
LongBlockCut ==
  \E cut \in DOMAIN history :
    /\ CutsAtByte(history[cut])
    /\ \E i \in 1 .. cut - 1 : WritesLong(history[i])
    /\ \A i \in cut + 1 .. Len(history) : ~Replaces(history[i])

(* The image has at most peak_blocks blocks, whatever grew or cut it:      *)
(* writes far behind the end, appends, a saved block that comes back to    *)
(* an index that no longer exists, the snapshot.  It can have more in one  *)
(* case only: a cut at a byte has split a long block, and the next write   *)
(* or rollback is still to come (_write_block, truncate).                  *)
PeakBlocksCover == Len(blocks) <= peakBlocks \/ LongBlockCut

(* A cut at any byte keeps exactly the bytes in front of it, on images     *)
(* that operations left with holes, short blocks in the middle or nothing  *)
(* (blocks_to_bytes, bytes_to_blocks and truncate together).               *)
TruncationExact ==
  \A size \in 0 .. ImageBytes(blocks) + 1 :
    BlocksToBytes(TruncateBytes(blocks, size)) = Take(BlocksToBytes(blocks), size)

(* ... and leaves an image such as read_blocks would read: full blocks,    *)
(* the last one possibly short, none empty.                                *)
TruncationNormal ==
  \A size \in 0 .. ImageBytes(blocks) + 1 :
    LET cut == TruncateBytes(blocks, size) IN
    \A i \in DOMAIN cut :
      /\ i < Len(cut) => Len(cut[i]) = BlockSize
      /\ i = Len(cut) => Len(cut[i]) \in 1 .. BlockSize
=============================================================================

----------------------------- MODULE Operations -----------------------------
(***************************************************************************)
(* The update operations of encoding/operations.py: what a plan is a list  *)
(* of.  An operation carries digests, patches and payloads; a digest is    *)
(* modelled by the value it is the digest of, and a bsdiff4 patch by the   *)
(* block it was computed against (base) and the block it yields (result).  *)
(***************************************************************************)
EXTENDS Blocks

CONSTANTS
  BackupId,     \* names of backups
  NoHash,       \* an operation without target_sha256 (verify: without sha256)
  SnapshotId    \* a rollback without backup_id

ASSUME OperationsAssumption == SnapshotId \notin BackupId /\ NoHash \notin Block

(* Where copy and delta read: source_area, and the block index or the      *)
(* backup that the area needs.                                             *)
Source == [area : {"installed"}, index : Nat] \cup
          [area : {"backup"}, id : BackupId] \cup
          [area : {"image"}]

Hash == {NoHash} \cup Block

KeepOp     == [op : {"keep", "skip"}, target : Nat, hash : Hash]
BackupOp   == [op : {"backup"}, source : Nat, id : BackupId]
CopyOp     == [op : {"copy"}, source : Source, target : Nat, hash : Hash]
DeltaOp    == [op : {"delta"}, codec : {"bsdiff4", "xdelta3", "zstd"},
               source : Source, target : Nat, base : Block, result : Block,
               patch : Nat, hash : Hash]
RawOp      == [op : {"raw_insert"}, target : Nat, data : Block]
AppendOp   == [op : {"append"}, target : Nat \cup {NoLimit}, data : Block]
DeleteOp   == [op : {"delete"}, target : Nat, count : Nat]
TruncateOp == [op : {"truncate"}, unit : {"blocks", "bytes"}, size : Nat]
VerifyOp   == [op : {"verify"}, hash : Hash, size : Nat \cup {NoLimit}]
RollbackOp == [op : {"rollback"}, id : BackupId \cup {SnapshotId}]
ControlOp  == [op : {"checkpoint", "commit"}]

Operation == KeepOp \cup BackupOp \cup CopyOp \cup DeltaOp \cup RawOp \cup
             AppendOp \cup DeleteOp \cup TruncateOp \cup VerifyOp \cup
             RollbackOp \cup ControlOp

(* A saved block and the index it was read from.                           *)
BackupRecord == [index : Nat, block : Block]

(* A dictionary of backups: a function from finitely many names.           *)
IsBackupArea(area) ==
  /\ DOMAIN area \subseteq BackupId /\ IsFiniteSet(DOMAIN area)
  /\ area \in [DOMAIN area -> BackupRecord]

(* Variant: the index of the saved block is lost.                        *)
SaveBlockOnly(area, id, record) ==
  [name \in DOMAIN area \cup {id} |-> IF name = id THEN [block |-> record.block] ELSE area[name]]

(* area[id] = record, for a new or an existing id.                         *)
SaveBackup(area, id, record) ==
  [name \in DOMAIN area \cup {id} |-> IF name = id THEN record ELSE area[name]]

(* Digests are compared only when the operation carries one.               *)
HashMatches(hash, value) == hash \in {NoHash, value}
=============================================================================

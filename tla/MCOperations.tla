---------------------------- MODULE MCOperations ----------------------------
(***************************************************************************)
(* Values shared by the runs: images of at most three blocks of at most    *)
(* two bytes over a two-byte alphabet, one block longer than that, and the *)
(* operations on them.                                                     *)
(***************************************************************************)
EXTENDS Operations

MCByte == {0, 1}
A == <<0, 0>>
B == <<1, 1>>
C == <<0, 1>>
Short == <<1>>     \* a last block that is not full

OldImage == <<A, B>>
NewImage == <<C, B>>

InPlace(i) == [area |-> "installed", index |-> i]
Saved(id)  == [area |-> "backup", id |-> id]
Whole      == [area |-> "image"]

KeepAt(i, h)         == [op |-> "keep", target |-> i, hash |-> h]
SkipAt(i)            == [op |-> "skip", target |-> i, hash |-> NoHash]
BackupOf(i, id)      == [op |-> "backup", source |-> i, id |-> id]
CopyTo(s, t, h)      == [op |-> "copy", source |-> s, target |-> t, hash |-> h]
DeltaTo(s, t, b, r)  == [op |-> "delta", codec |-> "bsdiff4", source |-> s, target |-> t,
                         base |-> b, result |-> r, patch |-> 1, hash |-> r]
XDelta               == [DeltaTo(InPlace(0), 0, A, C) EXCEPT !.codec = "xdelta3"]
Raw(t, b)            == [op |-> "raw_insert", target |-> t, data |-> b]
AppendOf(b)          == [op |-> "append", target |-> NoLimit, data |-> b]
AppendAt(t, b)       == [op |-> "append", target |-> t, data |-> b]
DeleteFrom(t, n)     == [op |-> "delete", target |-> t, count |-> n]
CutBlocks(n)         == [op |-> "truncate", unit |-> "blocks", size |-> n]
CutBytes(n)          == [op |-> "truncate", unit |-> "bytes", size |-> n]
VerifyAll(b)         == [op |-> "verify", hash |-> b, size |-> NoLimit]
VerifyFirst(n, b)    == [op |-> "verify", hash |-> b, size |-> n]
RollbackTo(id)       == [op |-> "rollback", id |-> id]
CheckpointHere       == [op |-> "checkpoint"]
CommitHere           == [op |-> "commit"]

(* One or two operations of every kind, with those that fail.              *)
EveryKind ==
  {KeepAt(0, A), SkipAt(1), BackupOf(0, "b0"), BackupOf(1, "b1"),
   CopyTo(InPlace(1), 0, NoHash), CopyTo(Saved("b0"), 2, A),
   DeltaTo(InPlace(0), 0, A, C), DeltaTo(Whole, 0, A \o B, Short), XDelta,
   Raw(0, C), Raw(3, Short), AppendOf(Short), AppendAt(2, B), DeleteFrom(0, 1),
   CutBlocks(1), CutBytes(3), VerifyAll(C \o B), VerifyFirst(2, A),
   RollbackTo(SnapshotId), RollbackTo("b0"), CheckpointHere, CommitHere}

(* The whole image as one block, as full_replacement and whole_file_bsdiff *)
(* write it, and the cut that follows.                                     *)
LongBlock == A \o B \o Short
WithLongBlocks ==
  EveryKind \cup {Raw(0, LongBlock), DeltaTo(Whole, 0, A \o B, LongBlock),
                 CutBytes(Len(LongBlock))}

OneOldImage == {OldImage}
OldImages == {OldImage, <<A, B, Short>>, << >>}
=============================================================================

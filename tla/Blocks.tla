------------------------------- MODULE Blocks -------------------------------
(***************************************************************************)
(* Firmware images as the repository stores them: a list of byte blocks.   *)
(* The replay engine (encoding/replay.py) and the deployment simulator     *)
(* (deployment/semantics.py) both work on this representation and share    *)
(* its conversions.  Block indices are the code's: they start at 0, so     *)
(* block `target` of an image is blocks[target + 1].                       *)
(*                                                                         *)
(* Here and in the modules above it, some definitions come with a faulty   *)
(* variant, written just before it and used nowhere: the runs are also     *)
(* made with the variant in its place, to see that they notice.  README.md *)
(* lists the variants.                                                     *)
(***************************************************************************)
EXTENDS Integers, SequencesExt

CONSTANTS
  Byte,        \* the values of one byte (a small alphabet in the runs)
  BlockSize    \* block_size: the length of every full block of a read image

ASSUME BlockSizeAssumption == BlockSize \in Nat \ {0}

Block == Seq(Byte)
Image == Seq(Block)

(* A limit of the configuration that is None in the code.                  *)
NoLimit == -1
Exceeds(amount, limit) == limit # NoLimit /\ amount > limit

-----------------------------------------------------------------------------
(* blocks_to_bytes: the bytes of an image.                                 *)
BlocksToBytes(blocks) == FlattenSeq(blocks)

ImageBytes(blocks) == Len(BlocksToBytes(blocks))

(* Variant: the last, short block is lost.                               *)
BytesToFullBlocks(data) ==
  [i \in 1 .. Len(data) \div BlockSize |->
     SubSeq(data, (i - 1) * BlockSize + 1, i * BlockSize)]

(* Variant: an empty block follows a full image.                         *)
BytesToBlocksAndOne(data) ==
  [i \in 1 .. (Len(data) + BlockSize) \div BlockSize |->
     SubSeq(data, (i - 1) * BlockSize + 1, Min({i * BlockSize, Len(data)}))]

(* bytes_to_blocks: data cut every BlockSize bytes, the last block being   *)
(* whatever is left.                                                       *)
BytesToBlocks(data) ==
  [i \in 1 .. (Len(data) + BlockSize - 1) \div BlockSize |->
     SubSeq(data, (i - 1) * BlockSize + 1, Min({i * BlockSize, Len(data)}))]

(* _write_block: replaces a block, or grows the image to reach the target, *)
(* filling the indices in between with empty blocks.                       *)
WriteBlock(blocks, target, block) ==
  [i \in 1 .. Max({Len(blocks), target + 1}) |->
     IF i = target + 1 THEN block
     ELSE IF i <= Len(blocks) THEN blocks[i] ELSE << >>]

(* Variant: negative for a target inside the image.                      *)
HolesUnclamped(blocks, target) == target - Len(blocks)

(* The empty blocks that _write_block inserts.                             *)
Holes(blocks, target) == Max({0, target - Len(blocks)})

(* del blocks[target : target + count]                                     *)
DeleteBlocks(blocks, target, count) ==
  SubSeq(blocks, 1, target) \o SubSeq(blocks, target + count + 1, Len(blocks))

(* sequence[:size]                                                         *)
Take(seq, size) == SubSeq(seq, 1, Min({size, Len(seq)}))

(* truncate to a number of bytes: the image is flattened, cut, and cut     *)
(* into blocks again, so every block boundary may move.                    *)
TruncateBytes(blocks, size) == BytesToBlocks(Take(BlocksToBytes(blocks), size))
=============================================================================

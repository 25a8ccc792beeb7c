---------------------------- MODULE MCEnvironment ----------------------------
(***************************************************************************)
(* Agents and images of the runs of Environment.                           *)
(***************************************************************************)
EXTENDS Environment, MCOperations

(* Blocks to find in other places, and a last one that is not full.        *)
TargetImage == <<C, A, Short>>

(* Shorter than the target, as long with its blocks elsewhere, longer with *)
(* a tail to cut; and none.                                                *)
SourceImages == {<< >>, <<A>>, <<B, C, A>>, <<A, B, B, Short>>}

Agents ==
  {{"M", "MB"},
   {"keep", "copy", "append", "raw_insert", "delta", "delete", "truncate"},
   {"copy", "raw_insert", "backup", "verify", "commit", "truncate"},
   {"copy", "raw_insert", "backup", "rollback", "checkpoint"}}

MCBackupId == (1 .. MaxSteps) \X (0 .. 7)

(* A saved block that comes back behind the end of the old image.          *)
SavingAgent == {{"MB"}}
ShortOldImage == {<<A>>}
LongerImage == <<C, A>>

(* An image that is reached before its last target is processed.           *)
CommittingAgent == {{"raw_insert", "truncate", "commit"}}
LongOldImage == {<<A, B, B>>}
ShorterImage == <<C, B>>
=============================================================================

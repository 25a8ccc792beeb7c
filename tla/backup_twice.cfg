SPECIFICATION Spec
CONSTANTS
  Byte <- MCByte
  BlockSize = 2
  BackupId = {"b0", "b1"}
  NoHash = NoHash
  SnapshotId = SnapshotId
  NoImage = NoImage
  InitialImages <- OneOldImage
  Plan <- InPlaceKinds
  MaxOps = 4
  Overhead = 1
  RequireBackup = TRUE
  CheckpointInterval = 0
  Staging = "streaming"
  StorageBudget <- NoLimit
  RamBudget <- NoLimit
  EnableAB = FALSE
  SlotCapacity <- NoLimit
  MaxBootAttempts = 1
  HealthCheck = "always_pass"
  InactiveInstall = TRUE
  Expected = NoImage
INVARIANTS
  RollbackDataPreserved
CHECK_DEADLOCK FALSE

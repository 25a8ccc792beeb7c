SPECIFICATION UpdateSpec
CONSTANTS
  Byte <- MCByte
  BlockSize = 2
  BackupId = {"b0", "b1"}
  NoHash = NoHash
  SnapshotId = SnapshotId
  NoImage = NoImage
  InitialImages <- OneOldImage
  Plan <- GrowingKinds
  MaxOps = 4
  Overhead = 1
  RequireBackup = TRUE
  CheckpointInterval = 2
  Staging = "streaming"
  StorageBudget = 6
  RamBudget = 2
  EnableAB = FALSE
  SlotCapacity <- NoLimit
  MaxBootAttempts = 1
  HealthCheck = "always_pass"
  InactiveInstall = TRUE
  Expected = NoImage
INVARIANTS
  BudgetsReported
CHECK_DEADLOCK FALSE

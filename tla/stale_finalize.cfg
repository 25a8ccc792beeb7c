SPECIFICATION RecoverySpec
CONSTANTS
  Byte <- MCByte
  BlockSize = 2
  BackupId = {"b0", "b1"}
  NoHash = NoHash
  SnapshotId = SnapshotId
  NoImage = NoImage
  InitialImages <- OneOldImage
  Plan <- CommitKinds
  MaxOps = 8
  Overhead = 1
  RequireBackup = TRUE
  CheckpointInterval = 0
  Staging = "streaming"
  StorageBudget = 6
  RamBudget = 4
  EnableAB = TRUE
  SlotCapacity <- NoLimit
  MaxBootAttempts = 1
  HealthCheck = "forced_fail"
  InactiveInstall = TRUE
  Expected <- NewImage
  Plans <- CommitPlans
  Percentages <- Quarters
  PlanLength = 4
INVARIANTS
  UnhealthyNeverComplete
CHECK_DEADLOCK FALSE

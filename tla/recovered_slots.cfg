SPECIFICATION RecoverySpec
CONSTANTS
  Byte <- MCByte
  BlockSize = 2
  BackupId = {"b0", "b1"}
  NoHash = NoHash
  SnapshotId = SnapshotId
  NoImage = NoImage
  InitialImages <- OneOldImage
  Plan <- InstallKinds
  MaxOps = 8
  Overhead = 1
  RequireBackup = TRUE
  CheckpointInterval = 3
  Staging = "full_package"
  StorageBudget <- NoLimit
  RamBudget = 4
  EnableAB = TRUE
  SlotCapacity <- NoLimit
  MaxBootAttempts = 1
  HealthCheck = "always_pass"
  InactiveInstall = FALSE
  Expected <- NewImage
  Plans <- InstallPlans
  Percentages <- Quarters
  PlanLength = 4
INVARIANTS
  RecoveredMeansActivated
CHECK_DEADLOCK FALSE

SPECIFICATION RecoverySpec
CONSTANTS
  Byte <- MCByte
  BlockSize = 2
  BackupId = {"b0", "b1"}
  NoHash = NoHash
  SnapshotId = SnapshotId
  NoImage = NoImage
  InitialImages <- OneOldImage
  Plan <- RecoveryKinds
  MaxOps = 8
  Overhead = 1
  RequireBackup = TRUE
  CheckpointInterval = 3
  Staging = "streaming"
  StorageBudget = 6
  RamBudget = 4
  EnableAB = FALSE
  SlotCapacity <- NoLimit
  MaxBootAttempts = 1
  HealthCheck = "always_pass"
  InactiveInstall = TRUE
  Expected <- NewImage
  Plans <- RecoveryPlans
  Percentages <- Quarters
  PlanLength = 4
INVARIANTS
  ResumeMatchesUninterrupted
  ReinstallMatchesUninterrupted
  RecoveredWhenPossible
  CheckpointsIndexPlan
  BoundedLoss
  ExtraIsRepeatedWork
CHECK_DEADLOCK FALSE

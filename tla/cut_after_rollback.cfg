SPECIFICATION EnvSpec
CONSTANTS
  Byte <- MCByte
  BlockSize = 2
  BackupId <- MCBackupId
  NoHash = NoHash
  SnapshotId = SnapshotId
  NoImage = NoImage
  InitialImages <- LongOldImage
  Plan = {}
  MaxOps = 11
  Overhead = 1
  RequireBackup = TRUE
  CheckpointInterval = 0
  Staging = "streaming"
  StorageBudget <- NoLimit
  RamBudget <- NoLimit
  EnableAB = TRUE
  SlotCapacity <- NoLimit
  MaxBootAttempts = 1
  HealthCheck = "forced_fail"
  InactiveInstall = TRUE
  Expected <- ShorterImage
  MaxSteps = 4
  ActionSets <- CommittingAgent
INVARIANTS
  FailedBootRestoresOldImage
CHECK_DEADLOCK FALSE

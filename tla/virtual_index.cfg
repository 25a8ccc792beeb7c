SPECIFICATION EnvSpec
CONSTANTS
  Byte <- MCByte
  BlockSize = 2
  BackupId <- MCBackupId
  NoHash = NoHash
  SnapshotId = SnapshotId
  NoImage = NoImage
  InitialImages <- ShortOldImage
  Plan = {}
  MaxOps = 11
  Overhead = 1
  RequireBackup = TRUE
  CheckpointInterval = 0
  Staging = "streaming"
  StorageBudget <- NoLimit
  RamBudget <- NoLimit
  EnableAB = FALSE
  SlotCapacity <- NoLimit
  MaxBootAttempts = 1
  HealthCheck = "always_pass"
  InactiveInstall = TRUE
  Expected <- LongerImage
  MaxSteps = 4
  ActionSets <- SavingAgent
INVARIANTS
  LegacyAccepted
CHECK_DEADLOCK FALSE

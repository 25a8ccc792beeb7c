SPECIFICATION AgreementSpec
CONSTANTS
  Byte <- MCByte
  BlockSize = 2
  BackupId = {"b0", "b1"}
  NoHash = NoHash
  SnapshotId = SnapshotId
  NoImage = NoImage
  InitialImages <- OldImages
  Plan <- WithLongBlocks
  MaxOps = 3
  Overhead = 1
  RequireBackup = TRUE
  CheckpointInterval = 2
  Staging = "full_package"
  StorageBudget = 8
  RamBudget = 2
  EnableAB = FALSE
  SlotCapacity <- NoLimit
  MaxBootAttempts = 1
  HealthCheck = "always_pass"
  InactiveInstall = TRUE
  Expected = NoImage
INVARIANTS
  PeaksReported
  ReplayTypeOK
  PeakBlocksCover
  TruncationExact
  TruncationNormal
PROPERTIES
  DeploymentIsReplay
CHECK_DEADLOCK FALSE

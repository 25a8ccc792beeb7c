SPECIFICATION Spec
CONSTANTS
  Byte <- MCByte
  BlockSize = 2
  BackupId = {"b0", "b1"}
  NoHash = NoHash
  SnapshotId = SnapshotId
  NoImage = NoImage
  InitialImages <- OldImages
  Plan <- InPlaceKinds
  MaxOps = 4
  Overhead = 1
  RequireBackup = TRUE
  CheckpointInterval = 0
  Staging = "streaming"
  StorageBudget <- NoLimit
  RamBudget <- NoLimit
  EnableAB = TRUE
  SlotCapacity <- NoLimit
  MaxBootAttempts = 2
  HealthCheck = "forced_fail"
  InactiveInstall = TRUE
  Expected <- NewImage
INVARIANTS
  ReadyMeansProtected
  ActiveSlotTrusted
PROPERTIES
  AtomicActivation
CHECK_DEADLOCK FALSE

SPECIFICATION Spec
CONSTANTS
  Byte <- MCByte
  BlockSize = 2
  BackupId = {"b0", "b1"}
  NoHash = NoHash
  SnapshotId = SnapshotId
  NoImage = NoImage
  InitialImages <- OneOldImage
  Plan <- EveryKind
  MaxOps = 3
  Overhead = 1
  RequireBackup = TRUE
  CheckpointInterval = 2
  Staging = "streaming"
  StorageBudget = 7
  RamBudget = 2
  EnableAB = TRUE
  SlotCapacity = 4
  MaxBootAttempts = 1
  HealthCheck = "always_pass"
  InactiveInstall = TRUE
  Expected <- NewImage
INVARIANTS
  TypeOK
  CheckpointOrder
  OverwritesAccounted
  PeakCoversStorage
  RamBudgetReported
  ActiveSlotTrusted
PROPERTIES
  CheckpointsSurvive
  AtomicActivation
CHECK_DEADLOCK FALSE

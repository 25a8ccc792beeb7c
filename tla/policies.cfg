SPECIFICATION PolicySpec
CONSTANTS
  Byte <- MCByte
  BlockSize = 2
  BackupId <- PolicyBackupId
  NoHash = NoHash
  SnapshotId = SnapshotId
  NoImage = NoImage
  InitialImages <- SourceImages
  Plan = {}
  MaxOps = 11
  Overhead = 1
  RequireBackup = TRUE
  CheckpointInterval = 0
  Staging = "streaming"
  StorageBudget = 13
  RamBudget <- NoLimit
  EnableAB = FALSE
  SlotCapacity <- NoLimit
  MaxBootAttempts = 1
  HealthCheck = "always_pass"
  InactiveInstall = TRUE
  Expected <- TargetImage
  MaxSteps = 4
  ActionSets <- Agents
  Planners <- PlannerName
  ActionPolicies <- ActionPolicyName
  PatchSizes = {1, 4}
  StepLimits <- Limits
INVARIANTS
  EnvTypeOK
  MaskedStepsAccepted
  WorkingTracksDevice
  FinishedMeansTransformed
  LegacyPreservesRollback
  PlansReproduceTarget
  BackupSafePlansRevertible
  GreedyKeepsReadyWithRoom
  TrialsLeaveNoTrace
  SavingPoliciesStayReady
CHECK_DEADLOCK FALSE

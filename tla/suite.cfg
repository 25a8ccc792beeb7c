SPECIFICATION SuiteSpec
CONSTANTS
  v1 = v1
  v2 = v2
  v3 = v3
  Absent = Absent
  Torn = Torn
  Undeclared = Undeclared
  PairOrder <- TwoUpdates
  Real <- Both
  HasUrl <- FirstOnly
  Path <- Files6
  RootfsPath <- TarOf
  Original <- Published
  Initial <- Shipped
  InitialDisks <- Disks
  Registrations <- Registering
  MaxRuns = 3
  Settings <- OneSetting
  Policies <- TwoPolicies
  ReportAllLearned = FALSE
  Outcomes <- SomeOutcomes
  Selections <- OneManifest
  MaxAttempts = 4
INVARIANTS
  EnabledPairsDescribed
  DownloadsVerified
  RunsWhatIsDeclared
  LedgerAccounts
  LearnedRowsCompared
CHECK_DEADLOCK FALSE

SPECIFICATION FairSpec
CONSTANTS
  Inputs <- MCInputs
  Outputs <- MCOutputs
  Filters <- MCFilters
  IsSuspicious <- MCIsSuspicious
  ScanTries = 2
  ScanResetFrom = 1
  RetryResetFrom = 4
  RetrySuspicious = 6
  RetryMax = 7
  PeriodicReset = TRUE
  MaxRaw = 1
  MaxLen = 3
INVARIANTS
  TypeOK
  HistoryConsistent
  SuspiciousOnlyIfExhausted
  SentToCheckedDevice
  PortOpenWhenUsed
PROPERTIES
  ReplayKeepsSequence
  ImplementsQuery
  CallsReturn
CHECK_DEADLOCK FALSE

SPECIFICATION Spec
CONSTANTS
  Inputs <- ArduinoInputs
  Outputs <- ArduinoOutputs
  Filters <- MCFilters
  IsSuspicious <- ArduinoIsSuspicious
  ScanTries = 2
  ScanResetFrom = 1
  RetryResetFrom = 4
  RetrySuspicious = 6
  RetryMax = 7
  PeriodicReset = FALSE
  MaxRaw = 0
  MaxLen = 2
INVARIANTS
  RetryRestoresState
CHECK_DEADLOCK FALSE

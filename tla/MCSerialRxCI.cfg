SPECIFICATION Spec
CONSTANTS
  Packets <- MCPackets
  RxCapacity = 12
  ResetRestartsSut = FALSE
  MaxOutstanding = 1
  MaxSent = 2
  MaxResets = 1
INVARIANTS
  OnlyBlePacketsFollow
CHECK_DEADLOCK FALSE

SPECIFICATION FairSpec
CONSTANTS
  Packets <- MCPackets
  RxCapacity = 12
  ResetRestartsSut = TRUE
  MaxOutstanding = 2
  MaxSent = 4
  MaxResets = 1
INVARIANTS
  StreamIntact
  NoLostWakeup
  OnlyBlePacketsFollow
PROPERTIES
  LinkSpec
  EveryPacketReceived
CHECK_DEADLOCK FALSE

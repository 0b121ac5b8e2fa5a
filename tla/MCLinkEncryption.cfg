SPECIFICATION Spec
CONSTANTS
  Nonces = {n1, n2, n3}
  Pairings = {p1, p2}
  ScanTries = 4
  ScanResetFrom = 2
  AdvSeen = TRUE
  MaxSent = 2
  MaxTroubles = 2
INVARIANTS
  TypeOK
  Agreement
  NothingBroken
  ResetWithoutDevice
  ResetSucceeds
SYMMETRY Values
CHECK_DEADLOCK FALSE

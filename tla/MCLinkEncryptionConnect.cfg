SPECIFICATION Spec
CONSTANTS
  Nonces = {n1, n2, n3}
  Pairings = {p1, p2}
  ScanTries = 4
  ScanResetFrom = 2
  AdvSeen = FALSE
  MaxSent = 2
  MaxTroubles = 0
INVARIANTS
  ConnectIsPlain
SYMMETRY Values
CHECK_DEADLOCK FALSE

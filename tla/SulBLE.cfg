SPECIFICATION FairSpec
CONSTANTS
  MaxCalls = 3
  MaxInterrupts = 2
INVARIANTS
  PortClosedAtExit
  CloseIsLast
PROPERTIES
  PortCloses
  ProcessEnds
CHECK_DEADLOCK FALSE

SPECIFICATION Spec
CONSTANTS
  Iterations = 6
  SleepMin = 2
  SleepMax = 20
  MaxQueued = 2
  MaxDrops = 1
INVARIANTS OnDataChannelAfterConnect
CHECK_DEADLOCK FALSE

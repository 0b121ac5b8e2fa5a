SPECIFICATION FairSpec
CONSTANTS
  Iterations = 6
  SleepMin = 2
  SleepMax = 20
  MaxQueued = 2
  MaxDrops = 1
INVARIANTS
  TypeOK
  NoRequestLost
  NoAnswerRepeated
  AcceptedIsDelivered
  RightChannel
  AnswersDrained
  HangsOnlyAfterDropOrWarning
PROPERTIES
  LoopEnds
CHECK_DEADLOCK FALSE

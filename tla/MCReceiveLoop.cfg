SPECIFICATION FairSpec
CONSTANTS
  Mappers <- MCMappers
  Answers <- MCAnswers
  RecvMin = 4
  RecvMax = 20
  ConnectMax = 21
  ScanMins <- MCScanMins
  CyclicShort = 3
  CyclicLong = 4
  ResetTime = 20
  Interval = 1
  GapFirst = 3
  GapNext = 2
  MaxTime = 21
  MaxBacklog = 2
  MaxOthers = 1
  MaxLeft = 1
  MaxAsks = 1
  MaxRaw = 1
INVARIANTS
  TypeOK
  AnswersCollected
PROPERTIES
  ReceiveReturns
CHECK_DEADLOCK FALSE

SPECIFICATION FairSpec
CONSTANTS
  Packets <- MCPackets
  Notices <- MCNotices
  TxCapacity = 16
  WireCapacity = 10
  MaxUnread = 3
  MaxSent = 3
  MaxResets = 2
INVARIANTS
  OverflowOnlyIfUnread
PROPERTIES
  LinkSpec
  ReadReturns
  EveryAnswerReturned
CHECK_DEADLOCK FALSE

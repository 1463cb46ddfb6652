SPECIFICATION FairSpec
CONSTANTS
  p1 = p1
  p2 = p2
  Path <- TwoLogs
  Explicit <- OneLog
  MaxLines = 2
  MaxChanges = 2
  MaxErrors = 1
  QueueCap = 3
  Absent = Absent
INVARIANTS
  TypeOK
  EmittedOnceInOrder
  CaughtUp
  NoByteTwice
PROPERTY Followed
CHECK_DEADLOCK FALSE

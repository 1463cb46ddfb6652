SPECIFICATION CallSpec
CONSTANTS
  MaxLines = 3
  StreamCap = 2
  BufferSizes = {2, 3}
  BatchSizes = {0, 2, 4}
INVARIANTS
  TypeOK
  BufferIsNewest
  OverflowIsCounted
  AtMostOnceInOrder
PROPERTY CallsEnd
CHECK_DEADLOCK FALSE

SPECIFICATION FairSpec
CONSTANTS
  MaxLines = 2
  StreamCap = 1
  BufferSizes = {3}
  BatchSizes = {2}
PROPERTY MetricsGoOn
CHECK_DEADLOCK FALSE

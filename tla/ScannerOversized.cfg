SPECIFICATION Spec
CONSTANTS
  MaxEvents = 5
  MaxLostReplies = 0
  ChannelCap = 2
  BatchSize = 2
  MaxRequest = 3
  Unstorable = {}
  TimerOn = TRUE
INVARIANT FlushFitsInOneRequest
CHECK_DEADLOCK FALSE

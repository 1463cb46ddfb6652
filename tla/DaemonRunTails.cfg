SPECIFICATION DaemonSpec
CONSTANTS
  MaxEvents = 3
  MaxLostReplies = 1
  ChannelCap = 1
  BatchSize = 2
  MaxRequest = 3
  Unstorable = {}
  TimerOn = TRUE
  Existing = 2
INVARIANT TailsForever
CHECK_DEADLOCK FALSE

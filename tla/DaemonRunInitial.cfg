SPECIFICATION FairDaemonSpec
CONSTANTS
  MaxEvents = 4
  MaxLostReplies = 1
  ChannelCap = 1
  BatchSize = 2
  MaxRequest = 2
  Unstorable = {3}
  TimerOn = TRUE
  Existing = 3
PROPERTY InitialReadIsStored
CHECK_DEADLOCK FALSE

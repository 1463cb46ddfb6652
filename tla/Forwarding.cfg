SPECIFICATION FairForwardingSpec
CONSTANTS
  MaxEvents = 3
  MaxLostReplies = 1
  ChannelCap = 1
  BatchSize = 2
  MaxRequest = 2
  Unstorable = {3}
  TimerOn = TRUE
  Invalid <- SecondInvalid
  MaxRestarts = 1
INVARIANTS
  ConfirmedIsStored
  RepeatsAreAccountedFor
PROPERTY EventuallyStored
CHECK_DEADLOCK FALSE

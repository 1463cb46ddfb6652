SPECIFICATION FairSpec
CONSTANTS
  MaxEvents = 5
  MaxLostReplies = 1
  ChannelCap = 2
  BatchSize = 2
  MaxRequest = 3
  Unstorable = {5}
  TimerOn = TRUE
INVARIANTS
  TypeOK
  NothingForgotten
  StoredWithoutGap
  RepeatedOnlyByLostReply
  DrainedBeforeStop
PROPERTIES
  OrderedAtLeastOnce
  EventuallyConfirmed
  StopsWhenCancelled
CHECK_DEADLOCK FALSE

SPECIFICATION FairSpec
CONSTANTS
  host = host
  auth = auth
  None = None
  VHosts <- OneHost
  SystemLogs <- OneLog
  MaxTime = 2
  MaxRows = 3
  PollLimit = 1
  MaxEntries = 2
INVARIANTS
  OrderedOnce
  GapsHaveACause
PROPERTY EventuallyShown
CHECK_DEADLOCK FALSE

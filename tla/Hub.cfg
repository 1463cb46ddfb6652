SPECIFICATION Spec4
CONSTANTS
  Key = {k1, k2, k3}
  Request = {r1, r2}
  Capacity = 2
  TTL = 1
  MaxVerify = 1
  MaxTime = 3
  Unset = Unset
  MaxFutureSkew = 1
  MaxPastAge = 2
  AllowedTypes = {}
  None = None
  Call = {r1, r2}
  Command <- Commands
  EventBatch <- EventBatches
  EntryBatch <- EntryBatches
  PointTime <- PointTimes
  MaxEvents = 2
  MaxLines = 2
  OnlineWindow = 1
  MaxClock = 3
  EventRows = {e1, e2}
  EntryRowIds = {}
  PointRows = {p1}
  Configs <- HubConfigs
  Cap = 1
  DayValues = 8
  Oldest = 2
  EventId = {1, 2, 3}
  PageSize = 1
  RangeDays = 2
  KeepDays = 1
  MaxAge = 3
SYMMETRY HubSymmetry
INVARIANTS
  MapAndQueueAgree
  RevocationTakesEffect
  BatchIsAccounted
  RefusedOnlyForNulOrName
  OnlineIsRecent
  ReportsHaveAgent
  NothingSkipped
PROPERTIES
  ExpiredIsDeleted
CHECK_DEADLOCK FALSE

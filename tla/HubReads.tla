-------------------------------- MODULE HubReads --------------------------------
(***************************************************************************)
(* A reader of GET /api/v1/events (src/hub/rest/read.rs, app_event_repo.rs)*)
(* that pages through the events of a range, as the dashboard does         *)
(* (web/src/pages/Events.tsx), while events are stored with any timestamp  *)
(* the hub accepts, days pass, and the retention task deletes rows.        *)
(*                                                                         *)
(* A request counts the events of the range and then fetches a page, in    *)
(* two statements.  Rows are numbered by their ids.                        *)
(***************************************************************************)
EXTENDS HubRules, Lists

CONSTANTS
  EventId,     \* ids: numbers
  PageSize,    \* PAGE_SIZE of the dashboard
  RangeDays,   \* the range asked for
  KeepDays,    \* retention_days
  MaxAge       \* bound: ages are told apart up to here

ASSUME ReadsAssumption ==
  /\ EventId \subseteq Nat /\ IsFiniteSet(EventId)
  /\ {PageSize, RangeDays, KeepDays, MaxAge} \subseteq Nat \ {0} /\ MaxPastAge \in Nat
  /\ MaxAge > RangeDays /\ MaxAge > KeepDays
  /\ None \notin Nat

\* A series of points fits in the limit of its query, which would cut the
\* newest points off: five minutes of skew included (range.rs:50-69).
ASSUME SeriesFits == \A r \in DOMAIN Interval : SeriesLength(r, 300) <= MaxSeries

VARIABLES
  daysOld,   \* events: age in days, -1 before and -2 after their time in the table
  page,      \* the page asked for, from 1
  total,     \* the count of the request under way, or None
  seen,      \* history: events that were on a page shown
  steady,    \* history: events in the range, and not expired, ever since
  raced,     \* history: an event was stored since the last count
  finished   \* the last page there is according to its answer was shown

readsVars == <<daysOld, page, total, seen, steady, raced, finished>>

Present == {e \in EventId : daysOld[e] >= 0}
InRange == {e \in Present : daysOld[e] < RangeDays}
Lasting == {e \in InRange : daysOld[e] <= KeepDays}

InitReads ==
  /\ daysOld \in [EventId -> {-1} \cup 0 .. MaxPastAge]
  /\ page = 1 /\ total = None /\ seen = {}
  /\ steady = Lasting
  /\ raced = FALSE /\ finished = FALSE

\* Faulty variant of ByTime: the oldest first.
OldestFirst(e, f) == daysOld[e] > daysOld[f] \/ (daysOld[e] = daysOld[f] /\ e < f)

\* ORDER BY timestamp DESC, id
ByTime(e, f) == daysOld[e] < daysOld[f] \/ (daysOld[e] = daysOld[f] /\ e < f)
Listing == Ordered(InRange, ByTime)

Reader == Principal(Role([agent |-> None, hostname |-> None, app |-> None,
                          dashboard |-> "dashboard"]))
Query == [range |-> "24h", limit |-> PageSize, offset |-> (page - 1) * PageSize,
          app |-> None, type |-> None]

\* SELECT COUNT(*), unless the request is refused.
Count ==
  /\ ~finished /\ total = None
  /\ ReadRefusal(Reader, Query) = None
  /\ total' = Cardinality(InRange) /\ raced' = FALSE
  /\ UNCHANGED <<daysOld, page, seen, steady, finished>>

\* SELECT ... LIMIT OFFSET, and what the dashboard does with the answer: it
\* offers as many pages as the total has, and the reader turns to the next.
Fetch ==
  /\ total # None
  /\ LET first == (page - 1) * PageSize
         shown == {Listing[i] : i \in DOMAIN Listing \cap first + 1 .. first + PageSize}
     IN  seen' = seen \cup shown
  /\ finished' = (page * PageSize >= total)
  /\ page' = IF finished' THEN page ELSE page + 1
  /\ total' = None
  /\ UNCHANGED <<daysOld, steady, raced>>

\* A statement that fails answers 500, and the dashboard asks again.
FetchFails ==
  /\ total # None /\ total' = None
  /\ UNCHANGED <<daysOld, page, seen, steady, raced, finished>>

StoreEvent(e) ==
  /\ daysOld[e] = -1
  /\ \E n \in 0 .. MaxPastAge : daysOld' = [daysOld EXCEPT ![e] = n]
  /\ raced' = TRUE
  /\ UNCHANGED <<page, total, seen, steady, finished>>

\* A pass of the retention task may delete any of the expired.
DeleteEvents ==
  /\ \E D \in SUBSET {e \in Present : daysOld[e] > KeepDays} :
       /\ D # {}
       /\ daysOld' = [e \in EventId |-> IF e \in D THEN -2 ELSE daysOld[e]]
  /\ UNCHANGED <<page, total, seen, steady, raced, finished>>

NextDay ==
  /\ daysOld' = [e \in EventId |-> IF e \in Present /\ daysOld[e] < MaxAge
                                     THEN daysOld[e] + 1 ELSE daysOld[e]]
  /\ steady' = steady \cap Lasting'
  /\ UNCHANGED <<page, total, seen, raced, finished>>

NextReads ==
  \/ Count \/ Fetch \/ FetchFails
  \/ \E e \in EventId : StoreEvent(e)
  \/ DeleteEvents \/ NextDay

SpecReads == InitReads /\ [][NextReads]_readsVars

-----------------------------------------------------------------------------
(***************************************************************************)
(* Properties.                                                             *)
(***************************************************************************)

\* A reader that turns the pages to the end has seen every event that was in
\* the range and not expired from first to last, however the pages shift
\* under it; but for an event stored between the two statements of the last
\* request, which the count does not know of (app_event_repo.rs:71-116).
NothingSkipped == finished /\ ~raced => steady \subseteq seen
=============================================================================

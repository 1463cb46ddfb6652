------------------------------- MODULE LogViewer -------------------------------
(***************************************************************************)
(* The log viewer of the terminal interface                                *)
(* (src/tui/components/log_viewer/mod.rs) and the queries it polls the     *)
(* database with (src/db/repositories/log_query_repo.rs).                  *)
(*                                                                         *)
(* Daemons and the hub insert rows while it runs.  The ids of rows are     *)
(* random, and a row may carry any timestamp: that of a log line, which    *)
(* may be read late.  The viewer caches a list of rows, newest first, for  *)
(* each source it has shown, and extends the list of the selected one by   *)
(* polling for what is newer than its head.  Each event (a key or a tick)  *)
(* is handled to its end before the next.                                  *)
(*                                                                         *)
(* The text of the filter and the position in the entry list decide only   *)
(* what is drawn and are left out; the filter mode swallows other events.  *)
(***************************************************************************)
EXTENDS Naturals, Sequences, FiniteSets, SequencesExt, Lists

CONSTANTS
  VHosts,      \* names of the virtual hosts, as a sequence
  SystemLogs,  \* names of the system logs
  MaxTime,     \* timestamps are 1 .. MaxTime
  MaxRows,     \* bound: rows inserted
  PollLimit,   \* NEW_ENTRIES_PER_POLL
  MaxEntries,  \* MAX_ENTRIES_PER_HOST
  None

ASSUME ViewerAssumption ==
  /\ VHosts \in Seq(Range(VHosts)) /\ SystemLogs \in Seq(Range(SystemLogs))
  /\ Range(VHosts) \cap Range(SystemLogs) = {}
  /\ {MaxTime, PollLimit, MaxEntries} \subseteq Nat \ {0}
  /\ PollLimit <= MaxEntries
  /\ MaxRows \in Nat
  /\ None \notin Range(VHosts) \cup Range(SystemLogs)

VARIABLES
  db,          \* log_entries joined with services
  opened,      \* init() is done
  hostRow,     \* the highlighted row of the sources panel, counted from 0
  selected,    \* selected_source, by name, or None
  listed,      \* log_entries: the cached list of a source, or None
  filterMode,
  due,         \* poll_interval has passed since last_poll
  lost         \* history: rows that came behind the head of their source's
               \* list, or that a poll left out for its limit

vars == <<db, opened, hostRow, selected, listed, filterMode, due, lost>>

Source == Range(VHosts) \cup Range(SystemLogs)
Row == [ts : 1 .. MaxTime, id : 1 .. MaxRows, src : Source]

Init ==
  /\ db = {} /\ opened = FALSE
  /\ hostRow = 0 /\ selected = None
  /\ listed = [s \in Source |-> None]
  /\ filterMode = FALSE /\ due = TRUE
  /\ lost = {}

(***************************************************************************)
(* The queries.                                                            *)
(***************************************************************************)

\* The order of the entry list: descending by timestamp and id.
Above(r, q) == r.ts > q.ts \/ (r.ts = q.ts /\ r.id > q.id)

\* Faulty variant of Newer: the timestamp alone.
LaterStamp(r, q) == r.ts > q.ts

\* (le.timestamp, le.id) > ($2, $3)
Newer(r, q) == r.ts > q.ts \/ (r.ts = q.ts /\ r.id > q.id)

\* ORDER BY le.timestamp DESC, le.id DESC LIMIT n
NewestFirst(rows) == Ordered(rows, Above)
Limited(list, n) == SubSeq(list, 1, IF Len(list) < n THEN Len(list) ELSE n)

RowsOf(s) == {r \in db : r.src = s}
Shown(s) == IF listed[s] = None THEN <<>> ELSE listed[s]

\* A daemon or the hub inserts an entry.
Insert ==
  /\ \E row \in Row :
       /\ \A r \in db : r.id # row.id
       /\ db' = db \cup {row}
       /\ lost' = IF Shown(row.src) # <<>> /\ Above(Head(Shown(row.src)), row)
                    THEN lost \cup {row} ELSE lost
  /\ UNCHANGED <<opened, hostRow, selected, listed, filterMode, due>>

(***************************************************************************)
(* Loading and polling.                                                    *)
(***************************************************************************)

\* load_recent_entries: the list is replaced by the newest rows.
Load(s) ==
  /\ listed' = [listed EXCEPT ![s] = Limited(NewestFirst(RowsOf(s)), MaxEntries)]
  /\ lost' = {r \in lost : r.src # s}

\* init: the first virtual host is selected and loaded; an error ends the TUI.
Open ==
  /\ ~opened /\ opened' = TRUE
  /\ IF VHosts = <<>>
       THEN UNCHANGED <<selected, listed, lost>>
       ELSE selected' = Head(VHosts) /\ Load(Head(VHosts))
  /\ UNCHANGED <<db, hostRow, filterMode, due>>

\* Faulty variant of Extend: the cap is kept at the wrong end.
ExtendKeepsOldest(new, list) ==
  LET all == new \o list
      excess == IF Len(all) > MaxEntries THEN Len(all) - MaxEntries ELSE 0
  IN  SubSeq(all, excess + 1, Len(all))

\* The new rows go in front, and the oldest make room for them.
Extend(new, list) == Limited(new \o list, MaxEntries)

\* Faulty variant of Missing: what is newer than the oldest entry listed.
MissingSinceLast(s) == {r \in RowsOf(s) : Newer(r, Last(Shown(s)))}

\* The rows of s that are newer than the head of its list.
Missing(s) == {r \in RowsOf(s) : Newer(r, Head(Shown(s)))}

\* check_new_entries: a list that is empty is never extended.
Poll(s) ==
  IF Shown(s) = <<>> THEN UNCHANGED <<listed, lost>>
  ELSE LET new == Limited(NewestFirst(Missing(s)), PollLimit) IN
       /\ listed' = [listed EXCEPT ![s] = Extend(new, @)]
       /\ lost' = lost \cup (Missing(s) \ Range(new))

(***************************************************************************)
(* The events.                                                             *)
(***************************************************************************)

\* A tick polls the selected source when the interval has passed.
Tick(ok) ==
  /\ opened /\ ~filterMode
  /\ due /\ selected # None
  /\ due' = FALSE
  /\ IF ok THEN Poll(selected) ELSE UNCHANGED <<listed, lost>>
  /\ UNCHANGED <<db, opened, hostRow, selected, filterMode>>

Elapse ==
  /\ ~due /\ due' = TRUE
  /\ UNCHANGED <<db, opened, hostRow, selected, listed, filterMode, lost>>

\* Rows of the panel: a header, the virtual hosts and, when there are system
\* logs, another header and these.
PanelLen ==
  1 + Len(VHosts) + (IF SystemLogs = <<>> THEN 0 ELSE 1 + Len(SystemLogs))

\* resolve_selection
SourceAt(i) ==
  LET j == i - (Len(VHosts) + 1) IN
  IF i \in 1 .. Len(VHosts) THEN VHosts[i]
  ELSE IF i > Len(VHosts) + 1 /\ j <= Len(SystemLogs) THEN SystemLogs[j]
  ELSE None

\* Up and down in the sources panel.
MoveHighlight ==
  /\ opened /\ ~filterMode
  /\ hostRow' \in {hostRow - 1, hostRow + 1} \cap 0 .. PanelLen - 1
  /\ UNCHANGED <<db, opened, selected, listed, filterMode, due, lost>>

\* Enter or r: the highlighted source, if it is another one, is selected, and
\* loaded if the database answers.
Refresh(ok) ==
  /\ opened /\ ~filterMode
  /\ LET s == SourceAt(hostRow) IN
     /\ s \notin {None, selected}
     /\ selected' = s
     /\ IF ok THEN Load(s) ELSE UNCHANGED <<listed, lost>>
  /\ UNCHANGED <<db, opened, hostRow, filterMode, due>>

\* The filter box opens; Esc, /, Enter and r close it.
ToggleFilter ==
  /\ opened /\ filterMode' = ~filterMode
  /\ UNCHANGED <<db, opened, hostRow, selected, listed, due, lost>>

Next ==
  \/ Insert \/ Open \/ Elapse \/ MoveHighlight \/ ToggleFilter
  \/ \E ok \in BOOLEAN : Tick(ok) \/ Refresh(ok)

Spec == Init /\ [][Next]_vars

\* Ticks come every 100 ms, and a database that is asked again and again
\* answers at some point.
FairSpec == Spec /\ WF_vars(Open) /\ WF_vars(Elapse) /\ SF_vars(Tick(TRUE))

-----------------------------------------------------------------------------
(***************************************************************************)
(* Properties.                                                             *)
(***************************************************************************)

\* Whatever was selected, loaded, polled or failed to load before, a list holds
\* each row once, the newest first: an extension never repeats a row or puts
\* one in front of a newer one (check_new_entries, NEWER_VHOST_SQL).
OrderedOnce ==
  \A s \in Source : \A i, j \in 1 .. Len(Shown(s)) :
    i < j => Above(Shown(s)[i], Shown(s)[j])

\* Between the newest and the oldest row of a list no row of the source is
\* missing, also among those of one timestamp, except for one that was stored
\* behind the head of the list or in a burst larger than the limit of a poll
\* (tui/data/mod.rs:78-81, log_query_repo.rs:4-7).
GapsHaveACause ==
  \A s \in Source : \A r \in RowsOf(s) :
    Shown(s) # <<>> /\ Above(Head(Shown(s)), r) /\ Above(r, Last(Shown(s)))
      => r \in Range(Shown(s)) \cup lost

\* A row newer than the list of the selected source is shown sooner or later,
\* or left out of a burst, unless the viewer turns to another source or its
\* filter box stays open for ever.
EventuallyShown ==
  \A s \in Source : \A n \in 1 .. MaxRows :
    (/\ selected = s /\ Shown(s) # <<>>
     /\ \E r \in Missing(s) : r.id = n)
      ~> \/ \E r \in Range(Shown(s)) \cup lost : r.id = n
         \/ selected # s
         \/ []filterMode
=============================================================================

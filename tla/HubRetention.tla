----------------------------- MODULE HubRetention -----------------------------
(***************************************************************************)
(* The life of the hub (src/hub/run_hub.rs): its start, the two servers    *)
(* and the retention task, the signal, and the wait for the tasks; and     *)
(* what the retention task does (retention.rs, prune of the repositories). *)
(*                                                                         *)
(* Time passes in days and a row has an age, which is not followed beyond  *)
(* Oldest.  The hub may be killed, and is started again.                   *)
(***************************************************************************)
EXTENDS HubRules

CONSTANTS
  EventRows, EntryRowIds, PointRows,  \* rows the tables may come to hold
  Configs,    \* hub sections of the configuration
  Cap,        \* rows a DELETE takes at most (10000)
  DayValues,  \* values of a u32 (2^32)
  Oldest      \* bound: ages are told apart up to here

VARIABLES
  phase,      \* of run: "off", "serving", "stopping", "returned"
  config,     \* the hub section the process was started with
  task,       \* "grpc", "rest", "retention": "none", "running", "ended"
  pass,       \* the statement of prune_all that is next, or None
  due,        \* the interval has ticked
  age         \* rows: age in days, -1 before and -2 after their time in the table

retentionVars == <<phase, config, task, pass, due, age>>

Table == {"events", "entries", "points"}
RowsIn == [t \in Table |-> CASE t = "events" -> EventRows
                             [] t = "entries" -> EntryRowIds [] OTHER -> PointRows]
TableRow == UNION {RowsIn[t] : t \in Table}
Stored == {x \in TableRow : age[x] >= 0}

ASSUME RetentionAssumption ==
  /\ Cap \in Nat \ {0} /\ Oldest \in Nat
  /\ DayValues \in Nat /\ 2 * Oldest <= DayValues
  /\ \A c \in Configs :
       {c.days, c.metricDays} \subseteq 0 .. (Oldest - 1) \cup {DayValues - 1}
  /\ EventRows \cap EntryRowIds = {} /\ (EventRows \cup EntryRowIds) \cap PointRows = {}

\* retention_days for events and entries, metrics_retention_days; 0 for never.
Days(t) == IF t = "points" THEN config.metricDays ELSE config.days

\* The statement takes them as an i32 (cast_signed), which makes the upper half
\* negative: everything stored has expired then.  (Days that reach beyond the
\* range of a timestamp are left out: the statement fails every time.)
Keep(t) == IF Days(t) < DayValues \div 2 THEN Days(t) ELSE Days(t) - DayValues
Expired(t) == {x \in RowsIn[t] \cap Stored : age[x] > Keep(t)}

NoTask == [t \in {"grpc", "rest", "retention"} |-> "none"]

InitRetention ==
  /\ phase = "off" /\ config \in Configs
  /\ task = NoTask /\ pass = None /\ due = FALSE
  /\ age = [x \in TableRow |-> -1]

\* run: refused when the hub is not enabled, when it would listen in the open,
\* or when a migration fails; else the three tasks are spawned.
Start(ok) ==
  /\ phase = "off"
  /\ IF config.enabled /\ MayBind(config) /\ ok
       THEN /\ phase' = "serving" /\ due' = TRUE
            /\ task' = [t \in DOMAIN task |-> "running"]
       ELSE phase' = "returned" /\ UNCHANGED <<task, due>>
  /\ UNCHANGED <<config, pass, age>>

\* A server that cannot bind, or fails, is logged; the hub goes on without.
ServerFails(t) ==
  /\ phase \in {"serving", "stopping"} /\ task[t] = "running"
  /\ task' = [task EXCEPT ![t] = "ended"]
  /\ UNCHANGED <<phase, config, pass, due, age>>

\* The signal cancels the token, which only the retention task looks at.
Signal ==
  /\ phase = "serving" /\ phase' = "stopping"
  /\ UNCHANGED <<config, task, pass, due, age>>

\* run returns when it has awaited the three tasks.
Return ==
  /\ phase = "stopping" /\ \A t \in DOMAIN task : task[t] = "ended"
  /\ phase' = "returned"
  /\ UNCHANGED <<config, task, pass, due, age>>

\* The process is killed, which cuts the pass, or has returned; it is started
\* again, with the configuration of that time.
Exit ==
  /\ phase # "off" /\ phase' = "off"
  /\ config' \in Configs
  /\ task' = NoTask /\ pass' = None /\ due' = FALSE
  /\ UNCHANGED age

-----------------------------------------------------------------------------
(* The retention task.                                                     *)

Waiting == task["retention"] = "running" /\ pass = None

\* Faulty variant of NextTable: points only after events and entries.
PointsWithEvents(t) ==
  CASE t = "begin" -> IF config.days > 0 THEN "events" ELSE None
    [] t = "events" -> "entries"
    [] t = "entries" -> IF config.metricDays > 0 THEN "points" ELSE None
    [] OTHER -> None

\* prune_all: events and entries, then points, each unless its days are 0.
NextTable(t) ==
  CASE t = "begin" /\ config.days > 0 -> "events"
    [] t = "events" -> "entries"
    [] t \in {"begin", "entries"} /\ config.metricDays > 0 -> "points"
    [] OTHER -> None

\* The tick; the next is due a day after it (MissedTickBehavior::Delay).
BeginPass ==
  /\ Waiting /\ due
  /\ due' = FALSE /\ pass' = NextTable("begin")
  /\ UNCHANGED <<phase, config, task, age>>

\* Which rows a DELETE takes: any Cap of those expired, or all.
Doomed(t) ==
  IF Cardinality(Expired(t)) <= Cap THEN {Expired(t)}
  ELSE {D \in SUBSET Expired(t) : Cardinality(D) = Cap}

Prune(t) ==
  /\ pass = t
  /\ \E D \in Doomed(t) : age' = [x \in TableRow |-> IF x \in D THEN -2 ELSE age[x]]
  /\ pass' = NextTable(t)
  /\ UNCHANGED <<phase, config, task, due>>

\* A statement that fails ends the pass: the tables after it wait for a day.
PruneFails ==
  /\ pass # None /\ pass' = None
  /\ UNCHANGED <<phase, config, task, due, age>>

\* The token is looked at between two passes only.
Stop ==
  /\ Waiting /\ phase = "stopping"
  /\ task' = [task EXCEPT !["retention"] = "ended"]
  /\ UNCHANGED <<phase, config, pass, due, age>>

-----------------------------------------------------------------------------

\* A server stores a row, with any age the hub accepts.
Store(x) ==
  /\ age[x] = -1 /\ \E t \in {"grpc", "rest"} : task[t] = "running"
  /\ \E n \in 0 .. MaxPastAge : age' = [age EXCEPT ![x] = n]
  /\ UNCHANGED <<phase, config, task, pass, due>>

Day ==
  /\ age' = [x \in TableRow |-> IF x \in Stored /\ age[x] < Oldest THEN age[x] + 1 ELSE age[x]]
  /\ due' = (due \/ task["retention"] = "running")
  /\ UNCHANGED <<phase, config, task, pass>>

NextRetention ==
  \/ \E ok \in BOOLEAN : Start(ok)
  \/ \E t \in {"grpc", "rest"} : ServerFails(t)
  \/ Signal \/ Return \/ Exit
  \/ BeginPass \/ (\E t \in Table : Prune(t)) \/ PruneFails \/ Stop
  \/ \E x \in TableRow : Store(x)
  \/ Day

\* Time goes on while the hub serves, the task is scheduled, and no statement
\* fails for ever.
FairRetention ==
  /\ WF_retentionVars(phase = "serving" /\ Day) /\ WF_retentionVars(BeginPass)
  /\ \A t \in Table : SF_retentionVars(Prune(t))
  /\ WF_retentionVars(PruneFails \/ \E t \in Table : Prune(t))

-----------------------------------------------------------------------------
(***************************************************************************)
(* Properties.                                                             *)
(***************************************************************************)

\* As long as the hub serves, a row of a table that is to be pruned does not
\* stay past its time for good, although a pass deletes a bounded number of
\* rows, a failure skips the tables after it, and passes are a day apart; so
\* it is when rows come slower than passes delete them, as the finitely many
\* here do (retention.rs:24-62).
ExpiredIsDeleted ==
  \A t \in Table : \A x \in RowsIn[t] :
    (phase = "serving" /\ Days(t) > 0 /\ x \in Expired(t))
      ~> (phase # "serving" \/ age[x] = -2)
=============================================================================

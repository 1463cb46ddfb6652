------------------------------- MODULE HubIngest -------------------------------
(***************************************************************************)
(* The endpoints of the hub that write: POST /v1/events                    *)
(* (src/hub/rest/events.rs) and send_metrics and send_logs (grpc.rs),      *)
(* under the keys that hub-key creates (keys_cli.rs, api_key_repo.rs).     *)
(*                                                                         *)
(* A handler runs without pause until it asks the database for something;  *)
(* every statement it sends may succeed, be refused by a check of the      *)
(* table, fail, or be carried out and its result be lost.  The cache of    *)
(* keys, and what a revocation does, are the subject of HubAuth: here a    *)
(* request is let in or refused.                                           *)
(***************************************************************************)
EXTENDS HubRules, Sequences

CONSTANTS
  Call,          \* calls that can be under way at the same time
  Command,       \* hub-key create: the command lines
  EventBatch,    \* POST /v1/events: sequences of events
  EntryBatch,    \* send_logs: [lines, parsed], two sequences
  PointTime,     \* send_metrics: the time of a point minus that of the hub
  MaxEvents,     \* MAX_EVENTS_PER_REQUEST
  MaxLines,      \* MAX_LINES_PER_REQUEST
  OnlineWindow,  \* ONLINE_WINDOW_SECS
  MaxClock        \* bound: the clock

AgentId == {Role(c).agent : c \in {d \in Command : OneRole(d)}} \ {None}

\* Rows of the table agents.
AgentRow == [host : {Role(c).host : c \in Command}, seen : Nat]

IsSequence(s) == s \in Seq({s[i] : i \in DOMAIN s})

ASSUME IngestAssumption ==
  /\ {MaxEvents, MaxLines, OnlineWindow, MaxFutureSkew, MaxPastAge, MaxClock} \subseteq Nat
  /\ PointTime \subseteq Int
  /\ \A b \in EventBatch : IsSequence(b)
  /\ \A b \in EntryBatch : IsSequence(b.lines) /\ IsSequence(b.parsed)
  /\ None \notin Call \cup Int /\ None \notin AgentRow

VARIABLES
  clock,
  keys,      \* api_keys
  handling,  \* what the handler of a call is about to ask of the database
  agents,    \* agents: hostname and last_seen_at, by agent_id
  hosts,     \* hosts that system_metrics holds a point of
  newest,    \* the largest timestamp in system_metrics, or None
  answer     \* the answer the last step gave to a call, or None

ingestVars == <<clock, keys, handling, agents, hosts, newest, answer>>
metrics == <<hosts, newest>>

InitIngest ==
  /\ clock = 0
  /\ keys = {}
  /\ handling = [r \in Call |-> None]
  /\ agents = [a \in AgentId |-> None]
  /\ hosts = {} /\ newest = None
  /\ answer = None

-----------------------------------------------------------------------------
(* hub-key create.                                                         *)

\* Faulty variant of CreateKey: names may be used again.
CreateKeyAgain(c) ==
  /\ OneRole(c) /\ SingleBinding(Role(c))
  /\ keys' = keys \cup {Role(c)}
  /\ answer' = None /\ UNCHANGED <<clock, handling, agents, metrics>>

\* A command that names no role, or several, fails, and so does a name that
\* is taken: the name of a key is the agent, the app or the dashboard it is
\* for, and a revoked key keeps its row.
CreateKey(c) ==
  /\ OneRole(c) /\ SingleBinding(Role(c))
  /\ \A key \in keys : key.name # Role(c).name
  /\ keys' = keys \cup {Role(c)}
  /\ answer' = None /\ UNCHANGED <<clock, handling, agents, metrics>>

-----------------------------------------------------------------------------
(* POST /v1/events.                                                        *)

\* What a call is told: how many items were accepted and, by their places, which
\* were rejected.  An Ack of send_logs has no such list, only the number (its
\* rejected lines go to the hub's log), and a refusal has neither.  With it, what
\* the call left in the table and the rows the table refused.
Answer(status, size, accepted, errors, stored) ==
  [status |-> status, size |-> size, accepted |-> accepted,
   errors |-> errors, stored |-> stored, refused |-> {}]

Refused(status, size) == Answer(status, size, None, None, {})

\* A call that is answered before its handler runs.
KeepOut(r) ==
  /\ handling[r] = None
  /\ \E k \in Presented, spent \in BOOLEAN :
       \E verdict \in {RestVerdict(k, spent), GrpcVerdict(k, spent)} \ {"Ok"} :
         answer' = Refused(Status[verdict], 0)
  /\ UNCHANGED <<clock, keys, handling, agents, metrics>>

\* What post_events answers at once, in the order of its checks; limited is
\* the verdict of the worker's EventRateLimiter.
PostRefusal(p, batch, limited) ==
  LET valid == {i \in 1 .. Len(batch) : ValidEvent(batch[i], 0)} IN
  CASE "ingest:events" \notin p.permissions -> 403
    [] p.app = None -> 403
    [] limited -> 429
    [] Len(batch) > MaxEvents -> 400
    [] valid = {} /\ batch # <<>> -> 422
    [] OTHER -> None

\* post_events up to the insertion.
PostEvents(r) ==
  /\ handling[r] = None
  /\ \E key \in keys, batch \in EventBatch, limited \in BOOLEAN :
       LET p == Principal(key)
           valid == {i \in 1 .. Len(batch) : ValidEvent(batch[i], 0)}
           status == PostRefusal(p, batch, limited)
       IN  IF status # None
             THEN /\ answer' = IF status = 422
                                  THEN Answer(422, Len(batch), 0, 1 .. Len(batch), {})
                                  ELSE Refused(status, Len(batch))
                  /\ UNCHANGED handling
             ELSE /\ handling' = [handling EXCEPT ![r] =
                       [kind |-> "events", size |-> Len(batch),
                        errors |-> (1 .. Len(batch)) \ valid,
                        rows |-> [i \in valid |-> EventRow(p.app, batch[i])]]]
                  /\ answer' = None
  /\ UNCHANGED <<clock, keys, agents, metrics>>

\* Faulty variant of StoredOf: a statement for each event.
StoredSome(rows, fitting) == SUBSET (DOMAIN rows \cap fitting)

\* insert_batch, one statement for all rows: what may be in the table after it.
StoredOf(rows, fitting) ==
  IF DOMAIN rows \subseteq fitting THEN {{}, DOMAIN rows} ELSE {{}}

\* The answer to a batch after its statement: 202 (an Ack of send_logs, which
\* names no rejected lines) when all is stored, which is so without a statement
\* when there is no row, and 500 (Status::internal) for a refusal by the table, a
\* failure, or a result that got lost.
Settle(h, misfit, stored, heard) ==
  LET valid == DOMAIN h.rows IN
  answer' = IF stored = valid /\ (heard \/ valid = {})
              THEN Answer(202, h.size, Cardinality(stored), h.errors, stored)
              ELSE [Refused(500, h.size) EXCEPT
                      !.stored = stored, !.refused = {h.rows[i] : i \in misfit}]

InsertEvents(r) ==
  /\ handling[r] # None /\ handling[r].kind = "events"
  /\ LET h == handling[r]
         misfit == {i \in DOMAIN h.rows : ~FitsEvents(h.rows[i])}
     IN  \E stored \in StoredOf(h.rows, DOMAIN h.rows \ misfit), heard \in BOOLEAN :
           Settle(h, misfit, stored, heard)
  /\ handling' = [handling EXCEPT ![r] = None]
  /\ UNCHANGED <<clock, keys, agents, metrics>>

-----------------------------------------------------------------------------
(* send_logs: the same for log_entries.                                    *)

AgentKey(p, permission) == permission \in p.permissions /\ p.agent # None /\ p.host # None

\* The rows of a request, lines first.  The service of each row is found or
\* created on the way (ServiceRegistry); a failure leaves the row without.
EntryRows(host, b) ==
  LET n == Len(b.lines)
      valid == {i \in 1 .. n : ValidLine(b.lines[i], 0)}
                 \cup {n + j : j \in {k \in 1 .. Len(b.parsed) : ValidEntry(b.parsed[k], 0)}}
  IN  [i \in valid |-> IF i <= n THEN LineRow(host, b.lines[i], 0)
                                 ELSE EntryRow(host, b.parsed[i - n], 0)]

SendLogs(r) ==
  /\ handling[r] = None
  /\ \E key \in keys, b \in EntryBatch :
       LET p == Principal(key)
           size == Len(b.lines) + Len(b.parsed)
       IN  IF ~AgentKey(p, "ingest:logs") \/ size > MaxLines
             THEN /\ answer' = Refused(IF AgentKey(p, "ingest:logs") THEN 400 ELSE 403, size)
                  /\ UNCHANGED handling
             ELSE /\ handling' = [handling EXCEPT ![r] =
                       [kind |-> "logs", size |-> size, errors |-> None,
                        rows |-> EntryRows(p.host, b)]]
                  /\ answer' = None
  /\ UNCHANGED <<clock, keys, agents, metrics>>

\* A request all lines of which were rejected sends no statement.
InsertEntries(r) ==
  /\ handling[r] # None /\ handling[r].kind = "logs"
  /\ LET h == handling[r]
         misfit == {i \in DOMAIN h.rows : ~FitsEntries(h.rows[i])}
     IN  \E stored \in StoredOf(h.rows, DOMAIN h.rows \ misfit), heard \in BOOLEAN :
           Settle(h, misfit, stored, heard)
  /\ handling' = [handling EXCEPT ![r] = None]
  /\ UNCHANGED <<clock, keys, agents, metrics>>

-----------------------------------------------------------------------------
(* send_metrics.                                                           *)

\* A key without the right, or a point that is not valid, ends the call.
SendMetrics(r) ==
  /\ handling[r] = None
  /\ \E key \in keys, d \in PointTime, cpu \in {"ok", "nan"} :
       LET p == Principal(key)
           point == [ms |-> clock + d, cpu |-> cpu, load1 |-> "ok", load5 |-> "ok"]
       IN  /\ AgentKey(p, "ingest:metrics") /\ ValidPoint(point, clock)
           /\ handling' = [handling EXCEPT ![r] =
                [kind |-> "seen", agent |-> p.agent, host |-> p.host, ts |-> clock + d]]
  /\ answer' = None /\ UNCHANGED <<clock, keys, agents, metrics>>

\* upsert_seen; when it fails the call is over.
SeeAgent(r) ==
  /\ handling[r] # None /\ handling[r].kind = "seen"
  /\ \E done, heard \in BOOLEAN :
       /\ agents' = IF done THEN [agents EXCEPT ![handling[r].agent] =
                                    [host |-> handling[r].host, seen |-> clock]]
                            ELSE agents
       /\ handling' = [handling EXCEPT ![r] =
            IF done /\ heard THEN [@ EXCEPT !.kind = "point"] ELSE None]
  /\ answer' = None /\ UNCHANGED <<clock, keys, metrics>>

\* SystemMetricRepository::insert
InsertPoint(r) ==
  /\ handling[r] # None /\ handling[r].kind = "point"
  /\ \/ UNCHANGED metrics
     \/ /\ hosts' = hosts \cup {handling[r].host}
        /\ newest' = IF newest = None \/ newest < handling[r].ts
                       THEN handling[r].ts ELSE newest
  /\ handling' = [handling EXCEPT ![r] = None]
  /\ answer' = None /\ UNCHANGED <<clock, keys, agents>>

-----------------------------------------------------------------------------

Elapse ==
  /\ clock < MaxClock /\ clock' = clock + 1
  /\ answer' = None /\ UNCHANGED <<keys, handling, agents, metrics>>

NextIngest ==
  \/ \E c \in Command : CreateKey(c)
  \/ \E r \in Call : \/ KeepOut(r)
                     \/ PostEvents(r) \/ InsertEvents(r)
                     \/ SendLogs(r) \/ InsertEntries(r)
                     \/ SendMetrics(r) \/ SeeAgent(r) \/ InsertPoint(r)
  \/ Elapse

SpecIngest == InitIngest /\ [][NextIngest]_ingestVars

\* list_with_status, as GET /api/v1/servers shows it.
Online(a) == agents[a] # None /\ agents[a].seen > clock - OnlineWindow

\* server_online of GET /api/v1/summary: by the newest point of any host,
\* whose time is that of its agent's clock.
ServerOnline == newest # None /\ newest > clock - OnlineWindow

-----------------------------------------------------------------------------
(***************************************************************************)
(* Properties.                                                             *)
(***************************************************************************)

\* What is answered agrees with what is in the table, whatever the statement
\* came to: 202 tells the number stored; an answer that lists rejected items
\* lists exactly those that are not stored, so that a client that sends the others
\* again, or the listed ones corrected, neither loses nor repeats one; a 4xx has
\* left nothing behind; and a batch with a row that the table refuses is not
\* stored in part (post_events, send_logs).
BatchIsAccounted ==
  answer # None =>
    /\ answer.status = 202 => answer.accepted = Cardinality(answer.stored)
    /\ answer.errors # None => answer.errors = (1 .. answer.size) \ answer.stored
    /\ answer.status \in 400 .. 499 => answer.stored = {}
    /\ answer.stored # {} => answer.refused = {}

\* The validators are as strict as the checks of the tables behind them, so
\* that no item makes the table refuse the others of its batch, but for the
\* name of the app, which hub-key create does not check, and a NUL in text.
RefusedOnlyForNulOrName ==
  answer # None =>
    \A row \in answer.refused :
      IF "app" \in DOMAIN row THEN ~app_name(row.app) \/ ~WithoutNul(row.payload)
                              ELSE ~WithoutNul(row.message) \/ ~WithoutNul(row.raw)

\* The summary never shows a server online that no agent has reported from
\* for longer than the window and the skew that clocks are allowed, although
\* it goes by the agent's clock and the list of agents by the hub's.
OnlineIsRecent ==
  ServerOnline =>
    \E a \in AgentId : agents[a] # None
      /\ agents[a].seen > clock - OnlineWindow - MaxFutureSkew

\* The points of a host are those of a registered agent with that host name,
\* after any failure between the two statements of send_metrics: the key that
\* names both cannot be replaced by one with another host name.
ReportsHaveAgent ==
  \A h \in hosts : \E a \in AgentId : agents[a] # None /\ agents[a].host = h
=============================================================================

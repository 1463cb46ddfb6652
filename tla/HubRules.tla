-------------------------------- MODULE HubRules --------------------------------
(***************************************************************************)
(* The rules of the hub that keep no state: what a key may do              *)
(* (src/hub/auth.rs, keys_cli.rs), which items of a request are accepted   *)
(* and the rows made of them (validate.rs, grpc.rs, rest/events.rs), which *)
(* rows the tables take (migrations), the ranges and pages a reader may    *)
(* ask for (range.rs, rest/read.rs), and where the hub may listen          *)
(* (config.rs).                                                            *)
(*                                                                         *)
(* Text is a record of its length and of the kinds of characters in it: a  *)
(* lower-case letter "a", an upper-case one "A", a digit "0", the marks    *)
(* ".", "_", "-" and ":", "control", "nul" and "other"; a message also     *)
(* says whether it ends its line.  Text that may be absent may be None.    *)
(***************************************************************************)
EXTENDS Integers, FiniteSets

CONSTANTS
  MaxFutureSkew,   \* MAX_FUTURE_SKEW_SECS
  MaxPastAge,      \* MAX_PAST_AGE_DAYS
  AllowedTypes,    \* allowed_event_types; empty allows every type
  None

Optional(x, Rule(_)) == x = None \/ Rule(x)

-----------------------------------------------------------------------------
(* Keys: hub-key create binds each to one role.                            *)

Permission == {"ingest:metrics", "ingest:logs", "ingest:events", "read:dashboard"}

\* Role::from_action: exactly one of --agent, --app and --dashboard.
OneRole(c) == Cardinality({f \in {"agent", "app", "dashboard"} : c[f] # None}) = 1

Role(c) ==
  IF c.agent # None
    THEN [name |-> c.agent, agent |-> c.agent, app |-> None,
          host |-> IF c.hostname = None THEN c.agent ELSE c.hostname,
          permissions |-> {"ingest:metrics", "ingest:logs"}]
  ELSE IF c.app # None
    THEN [name |-> c.app, agent |-> None, app |-> c.app, host |-> None,
          permissions |-> {"ingest:events"}]
  ELSE [name |-> c.dashboard, agent |-> None, app |-> None, host |-> None,
        permissions |-> {"read:dashboard"}]

\* chk_api_key_role
SingleBinding(key) == key.agent = None \/ key.app = None

\* principal_from_row: what the table holds and no rule knows is dropped.
Principal(key) == [key EXCEPT !.permissions = @ \cap Permission]

-----------------------------------------------------------------------------
(* Who is let in.  A key that is presented is "none" when there is none,   *)
(* "misformed", "unknown" (or revoked), one whose secret is "wrong",       *)
(* "unreadable" when the database fails, or "good".                        *)

Presented == {"none", "misformed", "unknown", "wrong", "unreadable", "good"}

\* authenticate: AuthError, or "Ok".
KeyVerdict(k) ==
  CASE k \in {"none", "misformed"} -> "Malformed"
    [] k = "unreadable" -> "Storage"
    [] k = "unknown" -> "UnknownKey"
    [] k = "wrong" -> "BadSignature"
    [] OTHER -> "Ok"

\* KeyAuth: the budget of the address is drawn on first, for every request.
RestVerdict(k, spent) == IF spent THEN "RateLimited" ELSE KeyVerdict(k)

\* authorize: a request without a key costs nothing.
GrpcVerdict(k, spent) == IF k # "none" /\ spent THEN "RateLimited" ELSE KeyVerdict(k)

Status == [Malformed |-> 401, UnknownKey |-> 401, BadSignature |-> 401,
           RateLimited |-> 429, Storage |-> 500]

-----------------------------------------------------------------------------
(* Validation of text, numbers and times (validate.rs).                    *)

TokenChars == {"a", "0", "-"}
AppNameChars == TokenChars \cup {".", "_"}
EventTypeChars == AppNameChars \cup {":"}
ContainerChars == AppNameChars \cup {"A"}
ControlChars == {"control", "nul"}

MaxEventTypeLen == 64
MaxUserIdLen == 128
MaxPathLen == 2048
MaxMessageBytes == 16 * 1024
MaxPayloadBytes == 4 * 1024

Word(t, chars) == t.len \in 1 .. MaxEventTypeLen /\ t.chars \subseteq chars
Plain(t, max) == t.len <= max /\ t.chars \cap ControlChars = {}

\* Faulty variant of event_type: the list alone decides.
event_type_listed(t) == AllowedTypes = {} \/ t \in AllowedTypes

event_type(t) == Word(t, EventTypeChars) /\ (AllowedTypes = {} \/ t \in AllowedTypes)
app_name(t) == Word(t, AppNameChars)
container(t) == Word(t, ContainerChars)
service_name(t) == Word(t, ContainerChars)
unit_type(t) == Word(t, TokenChars)
user_id(t) == Plain(t, MaxUserIdLen)
request_path(t) == Plain(t, MaxPathLen)
short_text(t) == Plain(t, MaxUserIdLen)
stream(s) == s \in {"stdout", "stderr"}
level(s) == s \in {"debug", "info", "warn", "error", "critical", "security"}
threat_level(s) == s \in {"none", "low", "medium", "high", "critical"}
threat_categories(ts) == Cardinality(ts) <= 16 /\ \A t \in ts : Word(t, TokenChars)
client_ip(ip) == ip # "unparsable"

\* Faulty variant of timestamp: clocks may be ahead by any amount.
NotTooOld(ts, now) == now - ts <= MaxPastAge

timestamp(ts, now) == ts - now <= MaxFutureSkew /\ now - ts <= MaxPastAge

\* ts_from_ms: a number that is no time becomes the time of the hub.
FromMs(ms, now) == IF ms = None THEN now ELSE ms

\* sanitize_message: one line end goes, and what is too long is cut between
\* two characters and marked with a sign of three bytes.
Sanitized(t) ==
  LET len == IF t.endsLine THEN t.len - 1 ELSE t.len
      chars == IF t.endsLine /\ len = 0 THEN {} ELSE t.chars
  IN  IF len <= MaxMessageBytes
        THEN [len |-> len, chars |-> chars]
        ELSE [len |-> MaxMessageBytes + 3, chars |-> chars \cup {"other"}]

-----------------------------------------------------------------------------
(* Items of requests, the rows made of them, and what the tables take.     *)

\* validate_event
ValidEvent(e, now) ==
  /\ event_type(e.type)
  /\ Optional(e.user, user_id)
  /\ e.payload.object /\ e.payload.len <= MaxPayloadBytes
  /\ timestamp(e.ts, now)

EventRow(app, e) ==
  [app |-> app, type |-> e.type, user |-> e.user, payload |-> e.payload, ts |-> e.ts]

\* validate_point
ValidPoint(p, now) ==
  /\ timestamp(FromMs(p.ms, now), now)
  /\ \A field \in {"cpu", "load1", "load5"} : p[field] \notin {"nan", "negative"}

\* validate_log_line
ValidLine(l, now) ==
  /\ container(l.container) /\ stream(l.stream)
  /\ timestamp(FromMs(l.ms, now), now)

LineRow(host, l, now) ==
  [ts |-> FromMs(l.ms, now), level |-> IF l.stream = "stderr" THEN "error" ELSE "info",
   message |-> Sanitized(l.message), raw |-> Sanitized(l.message),
   status |-> None, source |-> host,
   service |-> [unit |-> "docker-container", name |-> l.container]]

\* validate_parsed_entry
ValidEntry(e, now) ==
  /\ timestamp(FromMs(e.ms, now), now)
  /\ level(e.level) /\ threat_level(e.threat) /\ threat_categories(e.categories)
  /\ Optional(e.client, client_ip) /\ Optional(e.path, request_path)
  /\ Optional(e.noise, short_text)
  /\ e.status \in 0 .. 599
  /\ e.response = None \/ e.response >= 0
  /\ service_name(e.service) /\ unit_type(e.unit)
  /\ Optional(e.vhost, service_name)

\* A status of 0 stands for none.
EntryRow(host, e, now) ==
  [ts |-> FromMs(e.ms, now), level |-> e.level,
   message |-> Sanitized(e.message),
   raw |-> IF e.raw = None THEN None ELSE Sanitized(e.raw),
   status |-> IF e.status = 0 THEN None ELSE e.status, source |-> host,
   service |-> [unit |-> e.unit, name |-> e.service]]

\* Text with a NUL, which no column of Postgres holds.
WithoutNul(t) == t = None \/ "nul" \notin t.chars

\* The checks on app_events.
FitsEvents(row) ==
  /\ Word(row.type, EventTypeChars)                       \* chk_event_type
  /\ row.user # None => row.user.len <= 128               \* chk_user_id_len
  /\ Word(row.app, AppNameChars)                          \* chk_app_name
  /\ WithoutNul(row.user) /\ WithoutNul(row.payload)

\* The columns of log_entries: text, and a status in 16 bits.
SmallInt == -32768 .. 32767

FitsEntries(row) ==
  /\ WithoutNul(row.message) /\ WithoutNul(row.raw)
  /\ row.status # None => row.status \in SmallInt

-----------------------------------------------------------------------------
(* Reads.                                                                  *)

\* MetricRange::interval and bucket_seconds, in seconds.
Interval == [r \in {"1h", "6h", "24h", "7d", "30d"} |->
  CASE r = "1h" -> 3600 [] r = "6h" -> 21600 [] r = "24h" -> 86400
    [] r = "7d" -> 604800 [] OTHER -> 2592000]

BucketSeconds(r) ==
  CASE r \in {"1h", "6h"} -> 60 [] r = "24h" -> 300 [] r = "7d" -> 1800 [] OTHER -> 7200

MaxSeries == 2000

\* The rows a series of points up to skew seconds ahead of the clock has.
SeriesLength(r, skew) == (Interval[r] + skew) \div BucketSeconds(r) + 2

limit(n) == n \in 1 .. 200
offset(n) == n \in 0 .. 100000

\* get_app_events: what it answers to a query it refuses, or None.
ReadRefusal(p, q) ==
  CASE "read:dashboard" \notin p.permissions -> 403
    [] q.range \notin DOMAIN Interval \/ ~limit(q.limit) \/ ~offset(q.offset) -> 400
    [] ~Optional(q.app, app_name) -> 400
    [] q.type # None /\ ~Word(q.type, EventTypeChars) -> 400
    [] OTHER -> None

-----------------------------------------------------------------------------
(* Where the hub may listen without TLS: HubConfig::validate_bind_security.*)

\* "name" is a host that is neither an address nor localhost.
SafeHost(host) == host \in {"loopback", "tailscale"}

MayBind(config) ==
  config.tls \/ (SafeHost(config.grpc) /\ SafeHost(config.rest))
=============================================================================

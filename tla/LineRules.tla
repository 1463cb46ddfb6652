------------------------------- MODULE LineRules -------------------------------
(***************************************************************************)
(* What becomes of one log line: the parsers (src/log_scanner/parser), the *)
(* noise filter (filter.rs), the classifier (classifier/) and the entry    *)
(* that Pipeline::process_line makes of their verdicts (pipeline.rs).      *)
(*                                                                         *)
(* Text is abstracted to the words the rules look for: the name of a       *)
(* category stands for any one of its patterns.  A line is a record        *)
(*   form    what it looks like: "blank", "access", "syslog", "other"      *)
(*   sound   its address, time and numbers can be parsed                   *)
(*   status  the status code, 0..999                                       *)
(*   request it has a method and a path                                    *)
(*   host, client    the virtual host and the address, or None             *)
(*   text, path, agent  the words in the whole line, its path, its agent   *)
(*   ssh     "failed", "accepted" or "no": what sshd says in it            *)
(* and a file a record of its name, the virtual host its name stands for   *)
(* (or None), and whether it is rotated.                                   *)
(***************************************************************************)
EXTENDS Integers, Sequences

CONSTANTS ExcludedIps, None

-----------------------------------------------------------------------------
(* Parsers: an entry, or nothing for a line that is blank or refused.      *)

Level == {"debug", "info", "warn", "error", "critical", "security"}

StatusLevel(status) ==
  IF status \in 100 .. 399 THEN "info"
  ELSE IF status \in 500 .. 599 THEN "error" ELSE "warn"

\* NginxAccessParser::parse; without a path no rule about paths applies.
AccessEntry(l) ==
  IF l.form = "access" /\ l.sound
    THEN {[level |-> StatusLevel(l.status), status |-> l.status, client |-> l.client,
           host |-> l.host, text |-> l.text, agent |-> l.agent,
           path |-> IF l.request THEN l.path ELSE {}]}
    ELSE {}

\* classify_auth_message
AuthLevel(l) ==
  IF l.ssh = "failed" THEN "security"
  ELSE IF l.ssh = "accepted" THEN "info"
  ELSE IF {"error", "failed"} \cap l.text # {} THEN "error"
  ELSE IF {"warning", "invalid"} \cap l.text # {} THEN "warn" ELSE "info"

\* AuthLogParser::parse: no path, no agent, no status; an address from sshd.
AuthEntry(l) ==
  IF l.form = "syslog" /\ l.sound
    THEN {[level |-> AuthLevel(l), status |-> None,
           client |-> IF l.ssh = "no" THEN None ELSE l.client,
           host |-> None, text |-> l.text, agent |-> {}, path |-> {}]}
    ELSE {}

\* ParserRegistry::for_path: the file decides, never the line.
Parsed(f, l) == IF f.name = "auth.log" THEN AuthEntry(l) ELSE AccessEntry(l)

-----------------------------------------------------------------------------
(* The classifier.                                                         *)

\* ThreatLevel, in its order.
Rank == [none |-> 0, low |-> 1, medium |-> 2, high |-> 3, critical |-> 4]

\* The pattern table, by the scope of its rules.
ShellRules == {"command-injection"}
SqlRules == {"sql-injection"}
TextAndPathRules == ShellRules \cup SqlRules \cup {"xss"}
PathRules == {"path-traversal"}
TextRules == {"brute-force", "tls-error"}
UserAgentRules == {"scanner"}
PathPrefixRules == {"sensitive-file"}

PatternCategory == TextAndPathRules \cup PathRules \cup TextRules
                     \cup UserAgentRules \cup PathPrefixRules
Category == PatternCategory \cup {"suspicious-pattern"}

Severity(c) ==
  IF c = "command-injection" THEN "critical"
  ELSE IF c \in {"sql-injection", "xss", "path-traversal", "scanner"} THEN "high"
  ELSE IF c \in {"brute-force", "sensitive-file"} THEN "medium" ELSE "low"

\* PatternRule::matches, for any pattern of category c.
Matches(c, e) ==
  \/ c \in TextRules \cup TextAndPathRules /\ c \in e.text
  \/ c \in PathRules \cup PathPrefixRules \cup TextAndPathRules /\ c \in e.path
  \/ c \in UserAgentRules /\ c \in e.agent

\* check_brute_force_heuristic and check_error_responses
PasswordError(e) == e.level = "error" /\ "password" \in e.text
AdminProbe(e) == e.status \in {403, 404} /\ "admin page" \in e.path

Categories(e) ==
  {c \in PatternCategory : Matches(c, e)}
    \cup {c \in {"brute-force"} : PasswordError(e)}
    \cup {c \in {"suspicious-pattern"} : AdminProbe(e)}

AtLeast(categories, tier) == \E c \in categories : Rank[Severity(c)] >= Rank[tier]
Several(categories) == \E c, d \in categories : c # d

\* Faulty variant of ThreatLevel: several categories are high, whichever.
ThreatLevelCounted(categories) ==
  IF Several(categories) THEN "high"
  ELSE IF AtLeast(categories, "critical") THEN "critical"
  ELSE IF AtLeast(categories, "high") THEN "high" ELSE "low"

\* calculate_threat_level
ThreatLevel(categories) ==
  IF AtLeast(categories, "critical") \/ (AtLeast(categories, "high") /\ Several(categories))
    THEN "critical"
  ELSE IF AtLeast(categories, "high") THEN "high"
  ELSE IF AtLeast(categories, "medium") \/ Several(categories) THEN "medium"
  ELSE IF categories # {} THEN "low" ELSE "none"

-----------------------------------------------------------------------------
(* The noise filter.                                                       *)

\* The checks of NoiseFilter::evaluate; the first that applies wins.
NoiseRules(e) == <<
  [applies |-> e.client \in ExcludedIps, verdict |-> "exclude"],
  [applies |-> "health check" \in e.path, verdict |-> "aggregate"],
  [applies |-> "scanner path" \in e.path, verdict |-> "flag"],
  [applies |-> "static asset" \in e.path, verdict |-> "aggregate"],
  [applies |-> "bot" \in e.agent, verdict |-> "aggregate"],
  [applies |-> TRUE, verdict |-> "keep"] >>

Evaluate(e) == SelectSeq(NoiseRules(e), LAMBDA rule : rule.applies)[1].verdict

-----------------------------------------------------------------------------
(* The entry.                                                              *)

\* Faulty variant of StoredLevel: what the filter calls noise keeps its level.
StoredLevelOfNoise(e) ==
  IF Evaluate(e) = "flag" THEN "security"
  ELSE IF Evaluate(e) = "keep" /\ Rank[ThreatLevel(Categories(e))] >= Rank["high"]
    THEN "security" ELSE e.level

\* classify_level, and the flag of the filter.
StoredLevel(e) ==
  IF Evaluate(e) = "flag" \/ Rank[ThreatLevel(Categories(e))] >= Rank["high"]
    THEN "security" ELSE e.level

\* Faulty variant of SourceOf: the line's own host comes first.
SourceOfLine(f, e) ==
  LET host == IF e.host # None THEN e.host ELSE f.vhost
  IN  IF host # None THEN [unit |-> "nginx-vhost", name |-> host]
      ELSE [unit |-> "system-log", name |-> f.name]

\* The virtual host of the file's name comes before that of the line, and a
\* file that has neither is a source of its own.
SourceOf(f, e) ==
  LET host == IF f.vhost # None THEN f.vhost ELSE e.host
  IN  IF host # None THEN [unit |-> "nginx-vhost", name |-> host]
      ELSE [unit |-> "system-log", name |-> f.name]

\* process_line: the entries made of line l of file f, one or none.
Processed(f, l) ==
  {[source |-> SourceOf(f, e), level |-> StoredLevel(e),
    categories |-> Categories(e), threat |-> ThreatLevel(Categories(e)),
    noise |-> Evaluate(e) \in {"exclude", "aggregate"}] : e \in Parsed(f, l)}
=============================================================================

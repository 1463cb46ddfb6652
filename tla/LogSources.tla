------------------------------ MODULE LogSources ------------------------------
(***************************************************************************)
(* From the files of a host to the sources of the viewer: which files the  *)
(* daemon tails (src/log_scanner/tailer), what it stores of their lines    *)
(* (LineRules) and under which row of services (ServiceRegistry), which    *)
(* sources the viewer lists (src/log_scanner/source_discovery.rs) and      *)
(* which rows it finds for one (src/tui/data/pg.rs and its queries).       *)
(*                                                                         *)
(* The daemon's lines are what its resolver is asked for; the hub's        *)
(* handlers of ServiceRegistry go on beside it on the same table.  The     *)
(* files are those that are there all the time; Tailer has their changes.  *)
(***************************************************************************)
EXTENDS ServiceRegistry

CONSTANTS
  Line,         \* lines, as LineRules has them
  Watched,      \* files of the watched directories that match the pattern
  Listed,       \* files the configuration names one by one
  ExcludedIps,  \* noise_filter.excluded_ips
  MaxStored     \* bound: entries of the daemon

INSTANCE LineRules

\* The name of a virtual host's log ends in "-access.log", that of a rotated one in
\* a number (vhost_from_file_path, is_rotated_log).
ASSUME LogSourcesAssumption ==
  \A f \in Watched \cup Listed : f.rotated => f.vhost = None

VARIABLES
  pending,   \* the entry whose service is being resolved, or None
  stored     \* the daemon's rows of log_entries, with what they were made of

sourceVars == <<vars, pending, stored>>

\* discover_existing_logs, and FileTailer::start for what is listed.
Tailed == Listed \cup {f \in Watched : ~f.rotated}

InitSources == Init /\ pending = None /\ stored = {}

\* The next line: most entries are made at once, up to the service they need.
ReadLine(f, l) ==
  /\ pending = None /\ pc[Daemon] = "idle" /\ Cardinality(stored) < MaxStored
  /\ \E e \in Processed(f, l) : pending' = [file |-> f, line |-> l, entry |-> e]
  /\ UNCHANGED <<vars, stored>>

Store(i) ==
  /\ stored' = stored \cup {[of |-> pending, id |-> i]}
  /\ pending' = None

\* DbServiceResolver::resolve, as far as the daemon has to ask the database.
AskDatabase ==
  /\ pending # None
  /\ CacheMiss(Daemon, pending.entry.source) \/ NotFound(Daemon)
  /\ UNCHANGED <<pending, stored>>

\* It returns, and the entry goes to the table with the link it has got.
StoreLine ==
  /\ pending # None
  /\ \E i \in Id \cup {None} :
       /\ CacheHit(Daemon, pending.entry.source, i) \/ Returns(Daemon, i)
       /\ Store(i)

\* The hub's handlers, as in ServiceRegistry.
Handling(h) ==
  /\ \/ \E s \in Remote : CacheMiss(h, s) \/ \E i \in Id \cup {None} : CacheHit(h, s, i)
     \/ NotFound(h)
     \/ \E i \in Id \cup {None} : Returns(h, i)
     \/ EndRequest(h)
  /\ UNCHANGED <<pending, stored>>

NextSources ==
  \/ \E f \in Tailed, l \in Line : ReadLine(f, l)
  \/ AskDatabase \/ StoreLine
  \/ \E h \in Handler : Handling(h)

SourcesSpec == InitSources /\ [][NextSources]_sourceVars

-----------------------------------------------------------------------------
(* The viewer.                                                             *)

\* SourceDiscovery::discover: virtual hosts and an access.log in the watched
\* directories, and the listed files, whatever their names.
Discovered ==
  LET here == {f \in Watched : ~f.rotated}
  IN  {[kind |-> "vhost", name |-> f.vhost] : f \in {g \in here : g.vhost # None}}
        \cup {[kind |-> "system-log", name |-> f.name] :
                f \in Listed \cup {g \in here : g.vhost = None /\ g.name = "access.log"}}

\* The WHERE clauses of the viewer's queries: virtual_host is set on the rows
\* of virtual hosts only, and there it is the name.
Selects(shown, row) ==
  row.name = shown.name /\ (row.unit = "nginx-vhost" <=> shown.kind = "vhost")

\* The entries that recent_entries lists and count_entries counts.
EntriesOf(shown) ==
  {r \in stored : \E row \in services : row.id = r.id /\ Selects(shown, row)}

-----------------------------------------------------------------------------
(* What is stored from the log of a virtual host is found under that host in
   the viewer, whatever its lines say of a host and however the row of the
   service came about, unless the entry has no link, or a source that is no
   virtual host has the name (process_line, get_or_create, discover, the
   queries of log_query_repo.rs). *)
ShownUnderItsHost ==
  \A r \in stored :
    LET f == r.of.file
    IN  (f.vhost # None /\ r.id # None /\ f \in Watched
           /\ \A row \in services : row.name = f.vhost => row.unit = "nginx-vhost")
          => /\ [kind |-> "vhost", name |-> f.vhost] \in Discovered
             /\ r \in EntriesOf([kind |-> "vhost", name |-> f.vhost])

(* An injection, wherever in the line it is, and a scanning tool are stored as
   a security event, whichever log they come from and whatever the filter
   makes of their client, path or agent (classify, evaluate, process_line). *)
AttackIsSecurity ==
  \A r \in stored :
    LET l == r.of.line
    IN  (TextAndPathRules \cap l.text # {} \/ (l.form = "access" /\ "scanner" \in l.agent))
          => r.of.entry.level = "security"

(* Who matches more is never rated lower (calculate_threat_level). *)
MoreIsWorse ==
  \A r, s \in stored :
    r.of.entry.categories \subseteq s.of.entry.categories
      => Rank[r.of.entry.threat] <= Rank[s.of.entry.threat]
=============================================================================

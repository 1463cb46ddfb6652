---------------------------- MODULE ServiceRegistry ----------------------------
(***************************************************************************)
(* How an entry gets the id of its row in the table services: get_or_create *)
(* (src/db/repositories/service_repo.rs) as the daemon's resolver calls it *)
(* (src/log_scanner/pipeline.rs) and as the hub's SendLogs handlers do     *)
(* (src/hub/grpc.rs), all on one table, whose names are unique.            *)
(*                                                                         *)
(* The lookup and the insert are two statements, so of two resolvers that  *)
(* both find no row one gets a unique violation and stores its entry       *)
(* without a link.  The daemon caches ids by name, for ever, and no        *)
(* failure; a handler caches by unit type and name, failures too, for its  *)
(* request.                                                                *)
(***************************************************************************)
EXTENDS Integers, FiniteSets

CONSTANTS
  Source,      \* what entries come from: records [unit, name]
  Local,       \* those of the logs the daemon tails (virtual hosts, files)
  Remote,      \* those of the lines agents send (containers and their logs)
  Handler,     \* concurrent SendLogs handlers
  Daemon,      \* the daemon's resolver
  MaxFaults,   \* bound: statements that fail for reasons of their own
  None

ASSUME ServiceRegistryAssumption ==
  /\ Daemon \notin Handler /\ MaxFaults \in Nat
  /\ Local \cup Remote = Source

Resolver == Handler \cup {Daemon}

VARIABLES
  services,   \* the table: records [id, unit, name]
  cache,      \* per resolver, the resolutions it keeps: [key, id]
  pc,         \* per resolver: "idle", "find" or "create"
  source,     \* per resolver, the source being resolved
  links,      \* history: [source, id] of every entry made
  faults

vars == <<services, cache, pc, source, links, faults>>

Id == 1 .. Cardinality(Source)

\* What a resolver looks a source up by in its cache.
Key(r, s) == IF r = Daemon THEN s.name ELSE s

Init ==
  /\ services = {}
  /\ cache = [r \in Resolver |-> {}] /\ pc = [r \in Resolver |-> "idle"]
  /\ source = [r \in Resolver |-> None]
  /\ links = {} /\ faults = 0

\* The next entry of r comes from s; a cached resolution i is used as it is.
CacheHit(r, s, i) ==
  /\ pc[r] = "idle"
  /\ [key |-> Key(r, s), id |-> i] \in cache[r]
  /\ links' = links \cup {[source |-> s, id |-> i]}
  /\ UNCHANGED <<services, cache, pc, source, faults>>

CacheMiss(r, s) ==
  /\ pc[r] = "idle" /\ \A c \in cache[r] : c.key # Key(r, s)
  /\ pc' = [pc EXCEPT ![r] = "find"] /\ source' = [source EXCEPT ![r] = s]
  /\ UNCHANGED <<services, cache, links, faults>>

\* get_or_create has come to id, or to an error (None).
Resolved(r, id) ==
  /\ links' = links \cup {[source |-> source[r], id |-> id]}
  /\ cache' = [cache EXCEPT ![r] =
       IF r = Daemon /\ id = None THEN @
       ELSE @ \cup {[key |-> Key(r, source[r]), id |-> id]}]
  /\ pc' = [pc EXCEPT ![r] = "idle"] /\ source' = [source EXCEPT ![r] = None]

Named(name) == {row \in services : row.name = name}

\* Faulty variant of NotFound: an unknown service is not created.
NotFoundGivesUp(r) ==
  /\ pc[r] = "find" /\ Named(source[r].name) = {}
  /\ Resolved(r, None)
  /\ UNCHANGED <<services, faults>>

\* find_by_name.
Found(r, i) ==
  /\ pc[r] = "find"
  /\ \E row \in Named(source[r].name) : row.id = i
  /\ Resolved(r, i)
  /\ UNCHANGED <<services, faults>>

NotFound(r) ==
  /\ pc[r] = "find" /\ Named(source[r].name) = {}
  /\ pc' = [pc EXCEPT ![r] = "create"]
  /\ UNCHANGED <<services, cache, source, links, faults>>

\* The row create inserts.
NewRow(r) ==
  [id |-> Cardinality(services) + 1, unit |-> source[r].unit, name |-> source[r].name]

\* Faulty variant of Create: as it would be on a table without UNIQUE (name).
CreateAgain(r, i) ==
  /\ pc[r] = "create" /\ Cardinality(services) < Cardinality(Source)
  /\ services' = services \cup {NewRow(r)}
  /\ i = NewRow(r).id /\ Resolved(r, i)
  /\ UNCHANGED faults

\* create, if no other resolver was faster.
Create(r, i) ==
  /\ pc[r] = "create" /\ Named(source[r].name) = {}
  /\ services' = services \cup {NewRow(r)}
  /\ i = NewRow(r).id /\ Resolved(r, i)
  /\ UNCHANGED faults

\* The unique violation: logged, and the entry goes without a link.
Conflict(r) ==
  /\ pc[r] = "create" /\ Named(source[r].name) # {}
  /\ Resolved(r, None)
  /\ UNCHANGED <<services, faults>>

\* A statement fails; an insert may have taken effect all the same.
Fault(r) ==
  /\ pc[r] # "idle" /\ faults < MaxFaults /\ faults' = faults + 1
  /\ Resolved(r, None)
  /\ \/ UNCHANGED services
     \/ pc[r] = "create" /\ Named(source[r].name) = {} /\ services' = services \cup {NewRow(r)}

\* A handler is done, another request has it.
EndRequest(h) ==
  /\ pc[h] = "idle" /\ cache[h] # {}
  /\ cache' = [cache EXCEPT ![h] = {}]
  /\ UNCHANGED <<services, pc, source, links, faults>>

\* A resolution comes to its end with i.
Returns(r, i) ==
  \/ Found(r, i)
  \/ Create(r, i)
  \/ i = None /\ (Conflict(r) \/ Fault(r))

Next ==
  \/ \E r \in Resolver :
       \/ \E s \in IF r = Daemon THEN Local ELSE Remote :
            CacheMiss(r, s) \/ \E i \in Id \cup {None} : CacheHit(r, s, i)
       \/ NotFound(r)
       \/ \E i \in Id \cup {None} : Returns(r, i)
  \/ \E h \in Handler : EndRequest(h)

Spec == Init /\ [][Next]_vars

-----------------------------------------------------------------------------
(* Whoever resolved it, by whatever cache, and whichever insert won: entries
   of one name that have a link have the same one, to the row of that name
   (get_or_create, DbServiceResolver::resolve, send_logs). *)
LinksAgree ==
  \A l \in links : l.id # None =>
    \E row \in services : row.id = l.id /\ Named(l.source.name) = {row}

(* Without a failing statement an entry goes without a link only because
   another resolver has created the row it wanted to: the row is there for
   the next one (service_repo.rs:55-60). *)
UnlinkedOnlyByConflict ==
  faults = 0 => \A l \in links : l.id = None => Named(l.source.name) # {}
=============================================================================

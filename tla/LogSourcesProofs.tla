--------------------------- MODULE LogSourcesProofs ---------------------------
(***************************************************************************)
(* Theorems about ServiceRegistry, about LogSources, which extends it, and *)
(* about the rules of LineRules, for every set of files, lines, sources,   *)
(* handlers and excluded addresses and every number of failing statements. *)
(* The lemmas about the registry are about a single step of a resolver,    *)
(* for any source, so that they hold for the sources of lines as well.     *)
(***************************************************************************)
EXTENDS LogSources, TLAPS

-----------------------------------------------------------------------------
(* The registry.                                                           *)

\* The name that a resolution in the cache of r was made for.
NameOf(r, c) == IF r = Daemon THEN c.key ELSE c.key.name

\* An id is that of a row with the name, and None is due to a failure or to
\* a row that another resolver has made.
Justified(name, id) ==
  /\ id # None => \E row \in services : row.id = id /\ row.name = name
  /\ id = None /\ faults = 0 => Named(name) # {}

\* Neither LinksAgree nor UnlinkedOnlyByConflict is inductive: a link may come
\* from a cache, and the row it needs from a name that stays unique.
RegistryInv ==
  /\ faults \in Nat
  /\ cache = [r \in Resolver |-> cache[r]]
  /\ pc = [r \in Resolver |-> pc[r]]
  /\ source = [r \in Resolver |-> source[r]]
  /\ \A a, b \in services : a.name = b.name => a = b
  /\ \A r \in Resolver : \A c \in cache[r] : Justified(NameOf(r, c), c.id)
  /\ \A l \in links : Justified(l.source.name, l.id)

LEMMA RegistryInit == Init => RegistryInv
BY DEF Init, RegistryInv

\* A row, once there, stays, so what was justified remains so.
LEMMA JustifiedStays ==
  ASSUME services \subseteq services', faults' \in Nat, faults \in Nat, faults <= faults',
         NEW name, NEW id, Justified(name, id)
  PROVE  Justified(name, id)'
<1>1. faults' = 0 => faults = 0
  BY SMT
<1> QED
  BY <1>1 DEF Justified, Named

\* The end of a resolution: the entry and the cache get its result.
LEMMA ResolvedStep ==
  ASSUME RegistryInv, NEW r \in Resolver, NEW id, Resolved(r, id),
         services \subseteq services', faults' \in Nat, faults <= faults',
         \A a, b \in services' : a.name = b.name => a = b,
         NEW name, name = source[r].name, Justified(name, id)'
  PROVE  RegistryInv'
<1>1. \A n, i : Justified(n, i) => Justified(n, i)'
  BY JustifiedStays DEF RegistryInv
<1>2. /\ cache' = [q \in Resolver |-> cache'[q]]
      /\ pc' = [q \in Resolver |-> pc'[q]]
      /\ source' = [q \in Resolver |-> source'[q]]
  BY DEF RegistryInv, Resolved
<1>3. ASSUME NEW q \in Resolver, NEW c \in cache'[q]
      PROVE  Justified(NameOf(q, c), c.id)'
  <2>1. CASE c \in cache[q]
    BY <1>1, <2>1 DEF RegistryInv, NameOf
  <2>2. CASE c \notin cache[q]
    <3>1. q = r /\ c = [key |-> Key(r, source[r]), id |-> id]
      BY <2>2, <1>3 DEF RegistryInv, Resolved
    <3>2. NameOf(q, c) = name /\ c.id = id
      BY <3>1 DEF NameOf, Key
    <3> QED
      BY <3>2 DEF Justified, NameOf
  <2> QED
    BY <2>1, <2>2
<1>4. ASSUME NEW l \in links' PROVE Justified(l.source.name, l.id)'
  <2>1. CASE l \in links
    BY <1>1, <2>1 DEF RegistryInv
  <2>2. CASE l = [source |-> source[r], id |-> id]
    BY <2>2 DEF Justified
  <2> QED
    BY <2>1, <2>2, <1>4 DEF Resolved
<1> QED
  BY <1>2, <1>3, <1>4 DEF RegistryInv

LEMMA CacheHitStep ==
  ASSUME RegistryInv, NEW r \in Resolver, NEW s, NEW i, CacheHit(r, s, i)
  PROVE  RegistryInv'
<1>1. Justified(s.name, i)
  <2> DEFINE c == [key |-> Key(r, s), id |-> i]
  <2>1. c \in cache[r] /\ c.id = i /\ NameOf(r, c) = s.name
    BY DEF CacheHit, NameOf, Key
  <2> HIDE DEF c
  <2> QED
    BY <2>1 DEF RegistryInv
<1>2. ASSUME NEW l \in links' PROVE Justified(l.source.name, l.id)
  BY <1>1, <1>2 DEF CacheHit, RegistryInv
<1> QED
  BY <1>2 DEF CacheHit, RegistryInv, Justified, Named, NameOf

\* A step that only moves a resolver to its next statement.
LEMMA AskStep ==
  ASSUME RegistryInv, NEW r \in Resolver,
         NotFound(r) \/ \E s : CacheMiss(r, s)
  PROVE  RegistryInv'
<1>1. UNCHANGED <<services, cache, links, faults>>
  BY DEF NotFound, CacheMiss
<1>2. /\ pc' = [q \in Resolver |-> pc'[q]]
      /\ source' = [q \in Resolver |-> source'[q]]
  BY DEF RegistryInv, NotFound, CacheMiss
<1> QED
  BY <1>1, <1>2 DEF RegistryInv, Justified, Named, NameOf

\* An insert keeps names unique: the table refuses a name that is there.
LEMMA InsertStep ==
  ASSUME RegistryInv, NEW r \in Resolver,
         Named(source[r].name) = {}, services' = services \cup {NewRow(r)}
  PROVE  /\ \A a, b \in services' : a.name = b.name => a = b
         /\ NewRow(r) \in services' /\ NewRow(r).name = source[r].name
<1>1. NewRow(r).name = source[r].name
  BY DEF NewRow
<1>2. \A a \in services : a.name # source[r].name
  BY DEF Named
<1> QED
  BY <1>1, <1>2 DEF RegistryInv

LEMMA ReturnsStep ==
  ASSUME RegistryInv, NEW r \in Resolver, NEW i, Returns(r, i)
  PROVE  RegistryInv'
<1> PICK name : name = source[r].name
  OBVIOUS
<1>1. CASE Found(r, i)
  <2>1. PICK row \in services : row.name = name /\ row.id = i
    BY <1>1 DEF Found, Named
  <2>2. services' = services /\ faults' = faults /\ Resolved(r, i)
    BY <1>1 DEF Found
  <2>3. Named(name)' # {}
    BY <2>1, <2>2 DEF Named
  <2>4. Justified(name, i)'
    BY <2>1, <2>2, <2>3 DEF Justified, Named
  <2>5. faults \in Nat /\ \A a, b \in services : a.name = b.name => a = b
    BY DEF RegistryInv
  <2> QED
    BY <2>2, <2>4, <2>5, ResolvedStep, SMT
<1>2. CASE Create(r, i)
  <2>1. /\ Named(source[r].name) = {}
        /\ services' = services \cup {NewRow(r)} /\ faults' = faults
        /\ i = NewRow(r).id /\ Resolved(r, i)
    BY <1>2 DEF Create
  <2>2. /\ \A a, b \in services' : a.name = b.name => a = b
        /\ NewRow(r) \in services' /\ NewRow(r).name = source[r].name
    BY <2>1, InsertStep
  <2>3. Justified(name, i)'
    BY <2>1, <2>2 DEF Justified, Named
  <2>4. faults \in Nat /\ services \subseteq services'
    BY <2>1 DEF RegistryInv
  <2> QED
    BY <2>1, <2>2, <2>3, <2>4, ResolvedStep, SMT
<1>3. CASE i = None /\ Conflict(r)
  <2>1. /\ Named(source[r].name) # {}
        /\ services' = services /\ faults' = faults /\ Resolved(r, None)
    BY <1>3 DEF Conflict
  <2>2. Justified(name, None)'
    BY <2>1 DEF Justified, Named
  <2>3. faults \in Nat /\ \A a, b \in services : a.name = b.name => a = b
    BY DEF RegistryInv
  <2> QED
    BY <2>1, <2>2, <2>3, ResolvedStep, SMT
<1>4. CASE i = None /\ Fault(r)
  <2>1. faults' = faults + 1 /\ Resolved(r, None)
    BY <1>4 DEF Fault
  <2>2. faults \in Nat /\ faults' \in Nat /\ faults <= faults' /\ faults' # 0
    BY <2>1, SMT DEF RegistryInv
  <2>3. services \subseteq services' /\ \A a, b \in services' : a.name = b.name => a = b
    BY <1>4, InsertStep DEF Fault, RegistryInv
  <2>4. Justified(name, None)'
    BY <2>2 DEF Justified
  <2> QED
    BY <2>1, <2>2, <2>3, <2>4, ResolvedStep
<1> QED
  BY <1>1, <1>2, <1>3, <1>4 DEF Returns

LEMMA EndRequestStep ==
  ASSUME RegistryInv, NEW h \in Handler, EndRequest(h)
  PROVE  RegistryInv'
<1>1. h \in Resolver
  BY DEF Resolver
<1>2. cache' = [q \in Resolver |-> IF q = h THEN {} ELSE cache[q]]
  BY <1>1 DEF EndRequest, RegistryInv
<1>3. /\ cache' = [q \in Resolver |-> cache'[q]]
      /\ \A q \in Resolver : cache'[q] \subseteq cache[q]
  BY <1>2
<1> QED
  BY <1>3 DEF EndRequest, RegistryInv, Justified, Named, NameOf

LEMMA RegistryUnchanged == RegistryInv /\ UNCHANGED vars => RegistryInv'
BY DEF RegistryInv, vars, Justified, Named, NameOf

LEMMA RegistryNext == RegistryInv /\ [Next]_vars => RegistryInv'
<1> SUFFICES ASSUME RegistryInv, [Next]_vars PROVE RegistryInv'
  OBVIOUS
<1> QED
  BY CacheHitStep, AskStep, ReturnsStep, EndRequestStep, RegistryUnchanged DEF Next

LEMMA RegistryInvariant == Spec => []RegistryInv
BY RegistryInit, RegistryNext, PTL DEF Spec

\* Names are unique, so the row of a link is the only one of its name.
LEMMA InvImpliesLinks == RegistryInv => LinksAgree /\ UnlinkedOnlyByConflict
<1> SUFFICES ASSUME RegistryInv PROVE LinksAgree /\ UnlinkedOnlyByConflict
  OBVIOUS
<1>1. ASSUME NEW l \in links, l.id # None
      PROVE  \E row \in services : row.id = l.id /\ Named(l.source.name) = {row}
  <2>1. PICK row \in services : row.id = l.id /\ row.name = l.source.name
    BY <1>1 DEF RegistryInv, Justified
  <2>2. Named(l.source.name) = {row}
    BY <2>1 DEF Named, RegistryInv
  <2> QED
    BY <2>1, <2>2
<1> QED
  BY <1>1 DEF RegistryInv, Justified, LinksAgree, UnlinkedOnlyByConflict

\* Resolvers of every kind agree on the link of a name (LinksAgree).
THEOREM NamesHaveOneLink == Spec => []LinksAgree
BY RegistryInvariant, InvImpliesLinks, PTL

\* Without failures only a lost race leaves an entry without a link
\* (UnlinkedOnlyByConflict).
THEOREM UnlinkedHasACause == Spec => []UnlinkedOnlyByConflict
BY RegistryInvariant, InvImpliesLinks, PTL

-----------------------------------------------------------------------------
(* The rules.                                                              *)

\* Severity gives a rank to every category, and an injection and a scanning
\* tool that of "high" or more.
LEMMA SeverityRank ==
  ASSUME NEW c PROVE Rank[Severity(c)] \in 1 .. 4
<1>1. Severity(c) \in {"low", "medium", "high", "critical"}
  BY DEF Severity
<1> QED
  BY <1>1, SMT DEF Rank

LEMMA AttackSeverity ==
  ASSUME NEW c \in TextAndPathRules \cup {"scanner"}
  PROVE  Rank[Severity(c)] >= Rank["high"]
<1>1. Severity(c) \in {"high", "critical"}
  BY DEF Severity, TextAndPathRules, ShellRules, SqlRules
<1> QED
  BY <1>1, SMT DEF Rank

LEMMA ThreatRank ==
  ASSUME NEW A
  PROVE  /\ Rank[ThreatLevel(A)] \in 0 .. 4
         /\ Rank[ThreatLevel(A)] = 4 <=> ThreatLevel(A) = "critical"
         /\ Rank[ThreatLevel(A)] = 3 <=> ThreatLevel(A) = "high"
         /\ Rank[ThreatLevel(A)] = 2 <=> ThreatLevel(A) = "medium"
         /\ Rank[ThreatLevel(A)] = 1 <=> ThreatLevel(A) = "low"
<1>1. ThreatLevel(A) \in {"none", "low", "medium", "high", "critical"}
  BY DEF ThreatLevel
<1> QED
  BY <1>1, SMT DEF Rank

\* calculate_threat_level: what matches more is never rated lower.
LEMMA ThreatLevelGrows ==
  ASSUME NEW A, NEW B, A \subseteq B
  PROVE  Rank[ThreatLevel(A)] <= Rank[ThreatLevel(B)]
<1>1. \A tier : AtLeast(A, tier) => AtLeast(B, tier)
  BY DEF AtLeast
<1>2. Several(A) => Several(B)
  BY DEF Several
<1>3. A # {} => B # {}
  OBVIOUS
<1>4. AtLeast(B, "critical") => AtLeast(B, "high")
  <2>1. Rank["critical"] = 4 /\ Rank["high"] = 3
    BY DEF Rank
  <2> QED
    BY <2>1, SeverityRank, SMT DEF AtLeast
<1>5. Rank["none"] = 0 /\ Rank["low"] = 1 /\ Rank["medium"] = 2
        /\ Rank["high"] = 3 /\ Rank["critical"] = 4
  BY DEF Rank
<1>6. CASE ThreatLevel(A) = "critical"
  BY <1>1, <1>2, <1>5, <1>6, SMT DEF ThreatLevel
<1>7. CASE ThreatLevel(A) = "high"
  BY <1>1, <1>2, <1>5, <1>7, SMT DEF ThreatLevel
<1>8. CASE ThreatLevel(A) = "medium"
  BY <1>1, <1>2, <1>5, <1>8, SMT DEF ThreatLevel
<1>9. CASE ThreatLevel(A) = "low"
  BY <1>1, <1>2, <1>3, <1>5, <1>9, SMT DEF ThreatLevel
<1>10. CASE ThreatLevel(A) = "none"
  BY <1>5, <1>10, ThreatRank, SMT
<1> QED
  BY <1>6, <1>7, <1>8, <1>9, <1>10 DEF ThreatLevel

\* What a category of rank "high" matches is stored as a security event,
\* whatever the filter says.
LEMMA HighIsSecurity ==
  ASSUME NEW e, NEW c \in Categories(e), Rank[Severity(c)] >= Rank["high"]
  PROVE  StoredLevel(e) = "security"
<1>1. AtLeast(Categories(e), "high")
  BY DEF AtLeast
<1>2. ThreatLevel(Categories(e)) \in {"high", "critical"}
  BY <1>1 DEF ThreatLevel
<1>3. Rank[ThreatLevel(Categories(e))] >= Rank["high"]
  BY <1>2, SMT DEF Rank
<1> QED
  BY <1>3 DEF StoredLevel

\* A parser keeps the text of the line, and that of access logs the agent.
LEMMA ParserKeeps ==
  ASSUME NEW f, NEW l, NEW e \in Parsed(f, l)
  PROVE  /\ e.text = l.text
         /\ l.form = "access" => e.agent = l.agent
<1>1. CASE e \in AccessEntry(l)
  BY <1>1 DEF AccessEntry
<1>2. CASE e \in AuthEntry(l)
  BY <1>2 DEF AuthEntry
<1> QED
  BY <1>1, <1>2 DEF Parsed

\* The entry of a line with an attack in it is a security event.
LEMMA AttackProcessed ==
  ASSUME NEW f, NEW l, NEW n \in Processed(f, l),
         TextAndPathRules \cap l.text # {} \/ (l.form = "access" /\ "scanner" \in l.agent)
  PROVE  n.level = "security"
<1>1. PICK e \in Parsed(f, l) : n.level = StoredLevel(e)
  BY DEF Processed
<1>2. CASE TextAndPathRules \cap l.text # {}
  <2>1. PICK c \in TextAndPathRules : c \in l.text
    BY <1>2
  <2>2. Matches(c, e)
    BY <2>1, ParserKeeps DEF Matches
  <2>3. c \in Categories(e)
    BY <2>2 DEF Categories, PatternCategory
  <2> QED
    BY <1>1, <2>3, AttackSeverity, HighIsSecurity
<1>3. CASE l.form = "access" /\ "scanner" \in l.agent
  <2>1. Matches("scanner", e)
    BY <1>3, ParserKeeps DEF Matches, UserAgentRules
  <2>2. "scanner" \in Categories(e)
    BY <2>1 DEF Categories, PatternCategory, UserAgentRules
  <2> QED
    BY <1>1, <2>2, AttackSeverity, HighIsSecurity
<1> QED
  BY <1>2, <1>3

-----------------------------------------------------------------------------
(* The daemon stores what process_line made of a line of a tailed file, and
   nothing else, whatever happens on the table of services meanwhile. *)
OfItsLine(p) == p.entry \in Processed(p.file, p.line)

EntriesOfLines ==
  /\ pending # None => OfItsLine(pending)
  /\ \A r \in stored : OfItsLine(r.of)

LEMMA EntriesOfLinesInit == InitSources => EntriesOfLines
BY DEF InitSources, EntriesOfLines

LEMMA EntriesOfLinesNext ==
  EntriesOfLines /\ [NextSources]_sourceVars => EntriesOfLines'
<1> SUFFICES ASSUME EntriesOfLines, [NextSources]_sourceVars PROVE EntriesOfLines'
  OBVIOUS
<1>1. ASSUME NEW f \in Tailed, NEW l \in Line, ReadLine(f, l) PROVE EntriesOfLines'
  <2>1. PICK e \in Processed(f, l) : pending' = [file |-> f, line |-> l, entry |-> e]
    BY <1>1 DEF ReadLine
  <2>2. stored' = stored
    BY <1>1 DEF ReadLine
  <2>3. OfItsLine(pending')
    BY <2>1 DEF OfItsLine
  <2> QED
    BY <2>2, <2>3 DEF EntriesOfLines, OfItsLine
<1>2. CASE UNCHANGED <<pending, stored>>
  BY <1>2 DEF EntriesOfLines, OfItsLine
<1>3. CASE StoreLine
  <2>1. PICK i : stored' = stored \cup {[of |-> pending, id |-> i]}
    BY <1>3 DEF StoreLine, Store
  <2>2. pending # None /\ pending' = None
    BY <1>3 DEF StoreLine, Store
  <2> QED
    BY <2>1, <2>2 DEF EntriesOfLines, OfItsLine
<1>4. CASE AskDatabase
  BY <1>2, <1>4 DEF AskDatabase
<1>5. ASSUME NEW h \in Handler, Handling(h) PROVE EntriesOfLines'
  BY <1>2, <1>5 DEF Handling
<1>6. CASE UNCHANGED sourceVars
  BY <1>2, <1>6 DEF sourceVars
<1> QED
  BY <1>1, <1>3, <1>4, <1>5, <1>6 DEF NextSources

LEMMA EntriesOfLinesInvariant == SourcesSpec => []EntriesOfLines
BY EntriesOfLinesInit, EntriesOfLinesNext, PTL DEF SourcesSpec

-----------------------------------------------------------------------------
(* The registry under the daemon's lines and the hub's handlers.           *)

LEMMA SourcesRegistryNext ==
  RegistryInv /\ [NextSources]_sourceVars => RegistryInv'
<1> SUFFICES ASSUME RegistryInv, [NextSources]_sourceVars PROVE RegistryInv'
  OBVIOUS
<1>1. CASE UNCHANGED vars
  BY <1>1, RegistryUnchanged
<1>2. ASSUME NEW f \in Tailed, NEW l \in Line, ReadLine(f, l) PROVE RegistryInv'
  BY <1>1, <1>2 DEF ReadLine
<1>3. Daemon \in Resolver /\ Handler \subseteq Resolver
  BY DEF Resolver
<1>4. CASE AskDatabase
  BY <1>3, <1>4, AskStep DEF AskDatabase
<1>5. CASE StoreLine
  BY <1>3, <1>5, CacheHitStep, ReturnsStep DEF StoreLine
<1>6. ASSUME NEW h \in Handler, Handling(h) PROVE RegistryInv'
  BY <1>3, <1>6, CacheHitStep, AskStep, ReturnsStep, EndRequestStep DEF Handling
<1>7. CASE UNCHANGED sourceVars
  BY <1>1, <1>7 DEF sourceVars
<1> QED
  BY <1>2, <1>4, <1>5, <1>6, <1>7 DEF NextSources

LEMMA SourcesRegistryInvariant == SourcesSpec => []RegistryInv
<1>1. InitSources => RegistryInv
  BY RegistryInit DEF InitSources
<1> QED
  BY <1>1, SourcesRegistryNext, PTL DEF SourcesSpec

\* The entries of one name have one link, whether the daemon made them of its
\* lines or a handler of the hub did (LinksAgree).
THEOREM LinesHaveOneLink == SourcesSpec => []LinksAgree
BY SourcesRegistryInvariant, InvImpliesLinks, PTL

\* Without failures an entry has no link only if its service has a row that
\* somebody else made (UnlinkedOnlyByConflict).
THEOREM LinesUnlinkedHaveACause == SourcesSpec => []UnlinkedOnlyByConflict
BY SourcesRegistryInvariant, InvImpliesLinks, PTL

-----------------------------------------------------------------------------
\* Injections and scanning tools are stored as security events, from whichever
\* file and past whichever rule of the noise filter (AttackIsSecurity).
THEOREM AttacksAreSecurityEvents == SourcesSpec => []AttackIsSecurity
<1>1. EntriesOfLines => AttackIsSecurity
  <2> SUFFICES ASSUME EntriesOfLines, NEW r \in stored,
                      \/ TextAndPathRules \cap r.of.line.text # {}
                      \/ r.of.line.form = "access" /\ "scanner" \in r.of.line.agent
               PROVE  r.of.entry.level = "security"
    BY DEF AttackIsSecurity
  <2>1. r.of.entry \in Processed(r.of.file, r.of.line)
    BY DEF EntriesOfLines, OfItsLine
  <2> QED
    BY <2>1, AttackProcessed
<1> QED
  BY <1>1, EntriesOfLinesInvariant, PTL

\* Of two stored entries the one that matched more is rated no lower
\* (MoreIsWorse).
THEOREM MoreMatchesAreWorse == SourcesSpec => []MoreIsWorse
<1>1. EntriesOfLines => MoreIsWorse
  <2> SUFFICES ASSUME EntriesOfLines, NEW r \in stored, NEW s \in stored,
                      r.of.entry.categories \subseteq s.of.entry.categories
               PROVE  Rank[r.of.entry.threat] <= Rank[s.of.entry.threat]
    BY DEF MoreIsWorse
  <2>1. ASSUME NEW x \in stored
        PROVE  x.of.entry.threat = ThreatLevel(x.of.entry.categories)
    <3>1. x.of.entry \in Processed(x.of.file, x.of.line)
      BY DEF EntriesOfLines, OfItsLine
    <3> QED
      BY <3>1 DEF Processed
  <2> QED
    BY <2>1, ThreatLevelGrows
<1> QED
  BY <1>1, EntriesOfLinesInvariant, PTL

-----------------------------------------------------------------------------
(* From the row of an entry to the list of the viewer.  ShownUnderItsHost is
   not inductive: the source the daemon has asked for is that of the entry that
   waits, and the row a link leads to is known from the registry. *)
AskedForEntry ==
  /\ pc[Daemon] # "idle" => pending # None /\ source[Daemon] = pending.entry.source
  /\ pending # None => pending.file \in Tailed
  /\ \A r \in stored : /\ r.of.file \in Tailed
                       /\ [source |-> r.of.entry.source, id |-> r.id] \in links

LEMMA AskedForEntryInit == InitSources => AskedForEntry
BY DEF InitSources, Init, AskedForEntry, Resolver

\* What another resolver does leaves that of the daemon where it is.
LEMMA HandlingKeepsDaemon ==
  ASSUME RegistryInv, NEW h \in Handler, Handling(h)
  PROVE  /\ pc'[Daemon] = pc[Daemon] /\ source'[Daemon] = source[Daemon]
         /\ links \subseteq links'
<1>1. h # Daemon /\ Daemon \in Resolver /\ h \in Resolver
  BY ServiceRegistryAssumption DEF ServiceRegistryAssumption, Resolver
<1>2. /\ pc = [q \in Resolver |-> pc[q]] /\ source = [q \in Resolver |-> source[q]]
  BY DEF RegistryInv
<1>3. ASSUME NEW i, Resolved(h, i)
      PROVE  /\ pc'[Daemon] = pc[Daemon] /\ source'[Daemon] = source[Daemon]
             /\ links \subseteq links'
  BY <1>1, <1>2, <1>3 DEF Resolved
<1>4. CASE \E i : Returns(h, i)
  BY <1>3, <1>4 DEF Returns, Found, Create, Conflict, Fault
<1>5. CASE \E s : CacheMiss(h, s) \/ \E i : CacheHit(h, s, i)
  BY <1>1, <1>2, <1>5 DEF CacheMiss, CacheHit
<1>6. CASE NotFound(h) \/ EndRequest(h)
  BY <1>1, <1>2, <1>6 DEF NotFound, EndRequest
<1> QED
  BY <1>4, <1>5, <1>6 DEF Handling

LEMMA AskedForEntryNext ==
  RegistryInv /\ AskedForEntry /\ [NextSources]_sourceVars => AskedForEntry'
<1> SUFFICES ASSUME RegistryInv, AskedForEntry, [NextSources]_sourceVars
             PROVE  AskedForEntry'
  OBVIOUS
<1> USE DEF AskedForEntry
<1>1. Daemon \in Resolver
  BY DEF Resolver
<1>2. /\ pc = [q \in Resolver |-> pc[q]] /\ source = [q \in Resolver |-> source[q]]
  BY DEF RegistryInv
<1>3. ASSUME NEW f \in Tailed, NEW l \in Line, ReadLine(f, l) PROVE AskedForEntry'
  <2>1. pc[Daemon] = "idle" /\ UNCHANGED <<pc, links, stored>> /\ pending'.file = f
    BY <1>3 DEF ReadLine, vars
  <2> QED
    BY <2>1
<1>4. CASE AskDatabase
  <2>1. pending # None /\ UNCHANGED <<pending, stored, links>>
    BY <1>4 DEF AskDatabase, CacheMiss, NotFound
  <2>2. source'[Daemon] = pending.entry.source
    BY <1>1, <1>2, <1>4 DEF AskDatabase, CacheMiss, NotFound
  <2> QED
    BY <2>1, <2>2
<1>5. CASE StoreLine
  <2>1. PICK i : /\ CacheHit(Daemon, pending.entry.source, i) \/ Returns(Daemon, i)
                 /\ stored' = stored \cup {[of |-> pending, id |-> i]}
                 /\ pending # None /\ pending' = None
    BY <1>5 DEF StoreLine, Store
  <2>2. /\ pc'[Daemon] = "idle" /\ links \subseteq links'
        /\ [source |-> pending.entry.source, id |-> i] \in links'
    <3>1. CASE CacheHit(Daemon, pending.entry.source, i)
      BY <3>1 DEF CacheHit
    <3>2. CASE Returns(Daemon, i)
      <4>1. pc[Daemon] # "idle" /\ Resolved(Daemon, i)
        BY <3>2 DEF Returns, Found, Create, Conflict, Fault
      <4> QED
        BY <1>1, <1>2, <4>1 DEF Resolved
    <3> QED
      BY <2>1, <3>1, <3>2
  <2> QED
    BY <2>1, <2>2
<1>6. ASSUME NEW h \in Handler, Handling(h) PROVE AskedForEntry'
  <2>1. UNCHANGED <<pending, stored>>
    BY <1>6 DEF Handling
  <2> QED
    BY <1>6, <2>1, HandlingKeepsDaemon
<1>7. CASE UNCHANGED sourceVars
  BY <1>7 DEF sourceVars, vars
<1> QED
  BY <1>3, <1>4, <1>5, <1>6, <1>7 DEF NextSources

\* Every entry of a virtual host's log that has a link is in the list the viewer
\* shows for that host, unless another kind of source has the name
\* (ShownUnderItsHost).
THEOREM HostsShowTheirLines == SourcesSpec => []ShownUnderItsHost
<1>1. RegistryInv /\ EntriesOfLines /\ AskedForEntry => ShownUnderItsHost
  <2> SUFFICES ASSUME RegistryInv, EntriesOfLines, AskedForEntry, NEW r \in stored,
                      r.of.file.vhost # None, r.id # None, r.of.file \in Watched,
                      \A row \in services :
                        row.name = r.of.file.vhost => row.unit = "nginx-vhost"
               PROVE  /\ [kind |-> "vhost", name |-> r.of.file.vhost] \in Discovered
                      /\ r \in EntriesOf([kind |-> "vhost", name |-> r.of.file.vhost])
    BY DEF ShownUnderItsHost
  <2> DEFINE f == r.of.file
             shown == [kind |-> "vhost", name |-> f.vhost]
  <2>1. r.of.entry.source.name = f.vhost
    <3>1. r.of.entry \in Processed(f, r.of.line)
      BY DEF EntriesOfLines, OfItsLine
    <3>2. PICK e : r.of.entry.source = SourceOf(f, e)
      BY <3>1 DEF Processed
    <3> QED
      BY <3>2 DEF SourceOf
  <2>2. PICK row \in services : row.id = r.id /\ row.name = f.vhost
    <3>1. PICK l \in links : l = [source |-> r.of.entry.source, id |-> r.id]
      BY DEF AskedForEntry
    <3>2. Justified(l.source.name, l.id)
      BY DEF RegistryInv
    <3> QED
      BY <2>1, <3>1, <3>2 DEF Justified
  <2>3. r \in EntriesOf(shown)
    BY <2>2 DEF EntriesOf, Selects
  <2>4. ~f.rotated
    BY LogSourcesAssumption DEF LogSourcesAssumption
  <2>5. shown \in Discovered
    BY <2>4 DEF Discovered
  <2> QED
    BY <2>3, <2>5
<1>2. InitSources /\ [][NextSources]_sourceVars => [](RegistryInv /\ AskedForEntry)
  <2>1. InitSources => RegistryInv
    BY RegistryInit DEF InitSources
  <2> QED
    BY <2>1, AskedForEntryInit, SourcesRegistryNext, AskedForEntryNext, PTL
<1> QED
  BY <1>1, <1>2, EntriesOfLinesInvariant, PTL DEF SourcesSpec
=============================================================================

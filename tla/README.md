# Sentinalysis: specifications, model checking and proofs

TLA+ modules for the path of a log line from a file to the viewer, for the
agent, the hub and the daemon that move it, and for the rules that decide what
becomes of it; TLC runs on small instances; and TLAPS proofs of the safety
properties those runs check, for every value of the constants: of the tailer, of the
batching loop and its forwarding to the hub, the agent's buffer, the hub's batches, points, pages
and keys, the registry of services, the rules for lines, the lists of the viewer and
the daemon as a process. Paths are relative to `src/` of the crate unless they say
otherwise.

## 1. The system

| Component | State | Operations | Talks to |
|---|---|---|---|
| File tailer (`log_scanner/tailer`) | tailed files, byte offset per path, queue of 128 file events | initial read, handle an event, stop | notify thread in, channel of lines out |
| Batching loop (`log_scanner/scanner.rs`) | batch, timer, cancel token | receive, tick, cancel, flush | tailer's channel in, a sink out |
| Pipeline (`log_scanner/pipeline.rs`, `parser`, `filter.rs`, `classifier`) | service-id cache | line to entry or to nothing | called by the loop; service table |
| Source naming and discovery (`log_scanner/source.rs`, `source_discovery.rs`) | none | file name to virtual host; files to listed sources | pipeline, viewer |
| Daemon (`daemon/run.rs`, `daemon/process.rs`) | PID file, process table, main task | start on demand, run, stop on a signal | wires tailer and loop to the database |
| Agent, parsed logs (`agent/logs.rs`) | the same loop with a gRPC sink | `insert_batch` as one `SendLogs` call | hub |
| Agent, containers and metrics (`agent/mod.rs`, `batcher.rs`, `docker_logs.rs`, `metrics.rs`) | ring buffer, drop counters, offsets, shared client | metrics tick, flush tick, line, flush | hub, through one client behind a mutex |
| Hub ingestion (`hub/grpc.rs`, `hub/rest/events.rs`, `hub/validate.rs`) | a handler per request, a limiter per worker | authenticate, validate, resolve services, insert | database |
| Hub authentication (`hub/auth.rs`, `hub/keys_cli.rs`) | cache and eviction queue of verified keys | look up, verify, insert, create, revoke | table `api_keys`, shared with another process |
| Services table (`db/repositories/service_repo.rs`) | rows with a unique name | find, create, `get_or_create` | daemon's resolver, hub handlers |
| Hub lifecycle and retention (`hub/run_hub.rs`, `hub/retention.rs`) | server tasks, daily timer | start, signal, prune | database |
| Hub reads (`hub/rest/read.rs`, `hub/range.rs`) | none | list events, agents, series; summary | database, web dashboard |
| Log viewer (`tui/components/log_viewer`, `db/repositories/log_query_repo.rs`) | cached list per source, selection, filter, poll time | load, poll, keys | database |
| Service tracker (`service_tracker`) | none in use | nothing outside the module calls it | - |
| Web dashboard (`web/`) | browser state | reads REST | hub |

`PROJECT.json` lists every component with its status, and the hazards, each at
its line with the properties that cover it.

What is hard to get right here:

* a flush awaits a sink that may refuse, or store and lose the answer, while
  lines go on arriving; the select is biased and the order of its arms is what
  shutdown relies on;
* a file event is handled after the file changed again; the queue drops events, and
  a read that fails is not repeated;
* the answer to a request may be lost after the hub stored it, and the hub's
  handler may outlive the call; the agent may be killed in between;
* three users of one client; a ring buffer that overflows between flushes;
* find and insert, read and verify, count and fetch, are pairs of steps with
  another process between them;
* one item that a table refuses takes its whole batch with it, so validators and
  tables have to agree on every limit;
* two clocks: points carry the agent's time, the list of agents the hub's;
* retention is a bounded statement on one table after another, once a day, each
  of which may fail;
* what is stored from a file, and what the viewer looks for, follow from the same
  name by different code, with a shared row in between;
* the PID file is read, and acted on, later, and each call resolves its path anew.

What makes each component correct, and where it is stated:

| Component | Properties |
|---|---|
| Batching loop | nothing forgotten, reordered or repeated without a lost reply; no gap in the sink; drained before it stops; ends when cancelled; a partial batch is flushed |
| Tailer | lines with a bare newline whole, once and in order, and no byte of them twice; caught up when its queue is empty, except with files whose last read failed; lines of a log followed in the end |
| Agent and hub | what is confirmed is stored; repeats have a cause; every entry arrives over crashes |
| Agent loop | newest lines kept, drops counted, at most once and in order; calls come back |
| Authentication cache | map and queue agree; a revocation takes effect in bounded time |
| Daemon process | one daemon; the file names it |
| Services | links of a name agree; a missing link has a cause |
| Sources and rules for lines | what a virtual host logs is found under it; no attack is hidden by a file, filter or client; more matches are never rated lower |
| Hub ingestion | a batch is stored and accounted for as a whole; no accepted item makes a table refuse the others, but for two named causes; points belong to agents; a server shown online has reported |
| Hub reads | a reader that pages misses nothing that was there all the time |
| Viewer | lists ordered and without repetition; gaps have a cause; new rows are shown |
| Retention | everything expired goes in the end, although statements are bounded and fail |

## 2. Modules

| Module | Models | Correspondence |
|---|---|---|
| `AtLeastOnce` | what a batching forwarder promises | abstract: accepted items are delivered in runs that start behind the confirmed prefix |
| `Scanner` | `Scanner::run`, `flush_batch` | `Receive`, `Cancelled`, `Tick` are the arms of the select (their guards are its bias); `BeginFlush` is `mem::take`; `FlushOk`, `FlushErr`, `FlushErrStored` the sink's answer; `pc` is where the task awaits |
| `AgentForwarding` | `Scanner` with `GrpcSink`, and `IngestService::send_logs` | the abstract sink is replaced by `SendLogs`, `ConnectionLost`, the hub's `Refuse`, `InsertLines`, `InsertLost` (the statement is carried out and the hub answers with an error), `Acknowledge`, and by `Restart` |
| `DaemonRun` | `Scanner` inside `daemon_loop` and `run_daemon` | adds the dropped tailer, the signal and the end of the process |
| `Tailer` | `FileTailer::start`, `TailerState` | one `Handle...` action per branch of `handle_event`; a create event is two steps, as the code waits in between; `Read` sends what is there (`ReadFrom`) or fails (`ReadFails`), and `ListingFails` ends the initial read; writers, their line ends and rotation are the environment |
| `AgentLoop` | `agent::run`, `flush`, `BoundedBatcher`, `docker_logs::start` | the arms of the select, the tailing thread, the client's mutex |
| `HubRules` | `hub/validate.rs`, `hub/range.rs`, the permissions, the verdicts on a key and on a read, the rows made of items and the checks of their tables | operators; `Valid...` are the validators, `...Row` what is inserted, `Fits...` the table |
| `HubIngest` | `post_events`, `send_logs`, `send_metrics`, `hub-key create` | a handler is one step up to each statement it awaits: `PostEvents`, `InsertEvents`; `SendLogs`, `InsertEntries`; `SendMetrics`, `SeeAgent`, `InsertPoint` |
| `HubRetention` | `run_hub::run`, `retention::run`, `prune_all`, `prune` | `Start`, `ServerFails`, `Signal`, `Return` are the life of `run`; `BeginPass`, `Prune`, `PruneFails`, `Stop` the task; `Exit` is the kill |
| `HubReads` | `events` of `read.rs`, its two statements, the paging of `Events.tsx` | `Count`, `Fetch`, `FetchFails`; storing and deleting are the environment |
| `HubAuth` | `VerifiedCache`, `authenticate` | `Hit`, `Miss` (row read), `Verified` (cache insert): the code holds no lock between the last two |
| `DaemonProcess` | `ensure_daemon_running`, PID file functions, `run_daemon` as a process | `pc` of a starter walks the statements of `ensure_daemon_running`; `pidFile` has one file per path that `pid_file_path` may give |
| `ServiceRegistry` | `get_or_create`, `DbServiceResolver::resolve`, the cache of `send_logs` | `CacheHit`, `CacheMiss`, `Found`, `NotFound`, `Create`, `Conflict`, `Fault` |
| `LineRules` | the parsers, `NoiseFilter`, `Classifier`, `process_line` | operators from a file and a line to the entry, or to nothing |
| `LogSources` | the tailed files, `process_line` with its resolver, `SourceDiscovery`, the viewer's selection | extends `ServiceRegistry`: the daemon's resolver is asked for the sources that lines have, beside a handler of the hub |
| `LogViewer` | `LogViewer`'s actions and its SQL | `Load`, `Poll` and the queries as operators on the set of rows |
| `Lists` | `ORDER BY` of the queries, `retain` and `filter` of a list, the lines of a text in their order | operators, by the place an item gets: `Ordered`, `Ascending`, `Kept` |
| `ListProofs` | - | what `Lists` computes, and facts about ranges of numbers |
| `ForwardingProofs` | - | theorems about `Scanner` and `AgentForwarding` |
| `TailerProofs`, `AgentLoopProofs`, `LogViewerProofs`, `DaemonProcessProofs` | - | theorems about the module of the name |
| `LogSourcesProofs` | - | theorems about `ServiceRegistry` and `LogSources` |
| `HubProofs` | - | theorems about `HubRules`, `HubAuth`, `HubIngest` and `HubReads` |

`AgentForwarding` and `DaemonRun` extend `Scanner`, so the loop that is proved
about is the loop that is composed; `LogSources` extends `ServiceRegistry` and
takes `LineRules`; the hub's modules take `HubRules`. `MC...` modules add TLC's
model values. `MCHub` takes the four modules of the hub, which share no variable:
a behaviour of it moves one of them and leaves the others in one initial state.
Faulty variants (`... Faulty variant of X`) are small plausible mistakes in a
definition; replacing X by one makes TLC refute the property they belong to.

Text is as abstract as the question allows. In `Scanner`, `Tailer` and what
extends them a line is its number, a parser's verdict a choice between an entry
and nothing, validation a set of rejected lines. In `LineRules` a line is a
record of what the rules look at: a pattern category in it stands for any of the
patterns of that category, since a rule only asks whether one matches, and where.
In `HubRules` a text is its length and the kinds of its characters (letters and
digits, capitals, NUL, ...), which is all that a validator or a column tells
apart. Times are differences from a clock, not calendar dates. History variables
(`kept`, `confirmed`, `missed`, `happened`, `raced`, `lost`, ...) are marked as
such and guard nothing.

## 3. Runs

| Run | Question | Bounds |
|---|---|---|
| `scanner` | delivery, shutdown, liveness and refinement of the loop | 5 events, channel 2, threshold 2, request limit 3, the fifth entry refused by the table, 1 lost reply: batches grow past the threshold and past the limit, and several flushes follow each other |
| `scanner_oversized` | does a flush always fit in one request? No | the same without lost replies |
| `tailer` | the tailer against everything that happens to a log | 2 lines of one and two bytes, ended by NL or CR NL, 2 changes of files, an explicit and a watched log, queue of 3, 1 fault (a failing read or listing, a watcher error or a stop): rotation with re-creation, dropped events, half lines, an offset that fell behind and a file without a position all occur |
| `forwarding` | end to end over lost answers, late handlers and a crash | 3 lines, one rejected and one refused by the table, request limit 2; 1 lost answer or result of an insert, 1 restart: up to three handlers of one entry overlap, and a batch of three lines outgrows a request |
| `hub_auth` | the hub: cache coherence, ingestion, retention, paging | keys: 3 keys, 2 requests, capacity 2, TTL 1, a verification that takes up to 1, clock to 3: expiry, refresh and eviction interleave. Ingestion: 2 calls, batches of up to 3 with a limit of 2, an item beyond each limit alone and beside a valid one, 6 command lines of `hub-key create`, points up to 1 ahead of the hub and 1 behind. Retention: 2 events and 1 point, 1 row a statement, retention of a day or for ever, ages to 2: a backlog takes more than one pass. Paging: 3 events, pages of 1, a range of 2 days, kept for 1 |
| `agent_loop` | buffer, counters, order, calls | 3 lines, channel 2, buffers of 2 and 3 with batches of 0, 2 and 4: flushes on a full batch, overflow below it, and a buffer that only fills, with empty requests |
| `agent_loop_metrics` | do metrics go on? No | 2 lines |
| `daemon_process` | starters, PID files, crashes, zombies, reuse of numbers, failing checks and writes | 2 starters, 3 numbers, 2 paths |
| `daemon_initial`, `daemon_tails` | what the daemon stores; does it tail for ever? No | `daemon_initial`: 4 lines, 3 of them there at the start, of which the table refuses the third; 2 to a statement, so that the batch outgrows one while inserts fail. `daemon_tails`: 3 lines, 2 at the start |
| `services` | from the lines of files to the sources of the viewer | 5 files (of a virtual host, plain, rotated, an `auth.log`, a listed one named like a virtual host's), 13 lines that meet each rule, 2 stored entries; a handler of the hub with 2 sources named like the virtual host; 1 failing statement |
| `viewer` | polling cursor and lists | 3 rows, 2 timestamps, poll limit 1, list of 2, two sources: late rows, bursts, ties and the cap all occur |

The models are symmetric in lines and have no arithmetic on the limits other
than comparison, so a threshold of 2 or 3 shows what 100 does; the interesting
cases need one thing more than a limit, and every limit is exceeded in some
run. Two stored entries are enough for properties that relate two; three would
repeat them. Symmetry reduction is used where a run checks no liveness, and in
`hub_auth`, whose one temporal property is about the part whose states hold none
of the interchangeable values. `CHECK_DEADLOCK FALSE` appears where the counters
of the bounds run out or the program may stop.

A type invariant is checked where the shape of the state is worth stating
(`Scanner`, `Tailer`, `AgentLoop`).

### Fairness

* `Scanner`: weak fairness of the loop (a task is polled while an arm is ready)
  and of the sink's return; strong fairness of a successful flush, which has
  `Acceptable` among its guards: a database or hub that is asked again and again for
  what it can take works at some point. What it can never take, a batch that has
  outgrown a request or holds an entry the table refuses, is not assumed to get
  through, and the liveness properties speak of batches up to there (`Stuck`). None
  for the tailer.
* `Tailer`: weak fairness of its task; none for writers.
* `AgentForwarding`: as `Scanner`, and the hub's handler of an awaited call
  sometimes gets through. None for `Restart`, losses or refusals.
* `AgentLoop`: `CallsEnd` assumes only that tokio's mutex serves its waiters in
  order and that calls return. The client sets no timeout, so a call that is
  never answered is outside this assumption. `MetricsGoOn` is refuted under full
  fairness, with random choice among the arms as strong fairness of each.
* `LogViewer`: time passes, ticks come, a poll sometimes succeeds.
* `HubRetention`: days pass while the hub serves and its task is scheduled (weak);
  a statement that is sent again and again succeeds at some time (strong). None
  for starting the hub again: `ExpiredIsDeleted` speaks of a hub that goes on.

## 4. Proofs

The theorems hold for every value of the constants, within the assumptions each
module names. Those say what the code gives: limits and times are numbers and most
are not zero, a poll takes no more than a list holds (`ViewerAssumption`), a batch is
a sequence of finite length (`IngestAssumption`), a marker like `None` is no value
and that of a missing file no content (`TailerAssumption`), the file of a rotated log is not that of a virtual host (`LogSourcesAssumption`,
`source.rs:48` and `:62`), days are kept longer than none (`ReadsAssumption`). TLC
evaluates every one of them on the run of its module.

Each proof has one invariant, checked for its initial states and one lemma or step
per action; the invariants are named below with what they add to the property, and
why the property alone is not inductive.

`ListProofs`: the list of a finite set in a strict total order has each element once,
in that order (`OrderedList`); what is kept of a list is in its order
(`KeptItems`, `KeptInjective`); and what `take` leaves of a list (`CutFront`).

`TailerProofs`, for every set of logs, number of lines, changes and errors, and every
capacity of the queue:

* `TailerTypes`: `TypeInv` adds that a file holds at most four cells of each line
  begun, and keeps room for the three that a half-written line may still get, and that
  a carriage return stands before a newline only (`CellsFit`), so that no offset reaches
  the mark for a missing one and no carriage return is sent.
* `NothingLeftBehind`: `CaughtUp` speaks of an empty queue only. `StepInv` says what
  holds before: files consist of whole lines (`WholeLines`), and each file the watcher
  reports on is still to be read as a whole, by the initial read, by the create event
  that is being handled or by one that waits; or it was read up to its position, which
  lies in the file, and a modify event waits for what lies behind, unless the last read
  failed (`ReadTo`); or it is not followed, or has no position since its initial read
  failed. After CR NL the position is short of what was read, which costs bytes that are
  sent again and no line. `Places` adds that a path the task has not come to has no
  position and that an adopted one has position 0, which a failing read leaves it.
* `LinesSentOnceInOrder`: every piece sent is a line of a file that has been read
  beyond it (`SentAt`), pieces of one file come in the order of their places and lines
  ascend along a file (`InOrder`, `Ascends`). That two files share no line
  (`LinesApart`), also after renames, is an invariant of its own, and so is that
  without creations, renames and removals a position is never given up and no file is
  read from its start a second time (`QuietInv`, whose files have no carriage return).
* `BytesSentOnce`: of each line, the bytes sent, the bytes that lie behind the positions
  of the files that hold it, and those still to be written are together at most its
  length (`Accounted`). A read moves bytes from the second to the first, a write from
  the third to the second, and truncation takes some away, since a position stays where
  it was. The bytes a read sends are counted by an
  injection into those that were unread before (`CountedBy`).

What `str::lines` makes of the bytes (`Pieces`) is defined by the places where lines
start, in ascending order; `AreCut` says that every piece is the text between a start
and its line end, and `AreLines` that those of a file of whole lines, read from the end
of a line, are its lines.

`ForwardingProofs`, first about the batching loop:

* `TypeCorrect`: `TypeOK`.
* `ForgetsNothing`, `StoresWithoutGap`, `RepeatsOnlyAfterLostReply`: that a flush
  holds exactly the unconfirmed suffix after a failure needs to know that the batch
  was empty meanwhile and that entries are empty outside a flush; the sink's contents
  are only extended without a gap because what is flushed starts behind the confirmed
  prefix. `Held` says what the loop itself guarantees with any sink (type,
  `FlushShape`, `NothingForgotten`), and `Delivered` adds what the sink of `Scanner`
  does. `DeliveredNext` goes through the actions, with the lemmas `SuffixOfConcat`,
  `InFlight` and `StoredByFlush` on sequences.
* `DrainsBeforeStop`: the lines waiting in the channel are numbered above
  everything received, so a line that was sent before the token fired is no
  longer there when the cancel arm is taken.
* `ImplementsAtLeastOnce`: `Scanner` implements `AtLeastOnce` under the mapping
  `accepted <- kept`: a receive that makes an entry is `Accept`, a flush that
  the sink took is `Deliver`, every other step stutters. The step uses
  `Delivered`.

Then about the loop with the hub behind it; the steps of the loop are the same and
keep `Held`:

* `ConfirmedLinesAreStored`: `HandlersInv` adds that the handler of the awaited call
  has the lines the agent holds, and that a handler which is about to answer has
  inserted all lines that pass validation. Lines of handlers nobody waits for are not
  restricted.
* `RepeatsHaveACause`: a line may be stored again by any handler that is still under
  way, and be sent again by the agent; `Copies` counts the times it is in the table,
  the handlers that may still insert it, and one if the agent may send it with
  nothing having gone wrong. A request moves that one to the handlers and an insert
  moves it from there to the table; only a lost answer, an insert whose result is lost
  and a restart raise the sum, by one each. That the agent holds a line at most once follows from the order in
  which a run numbers its lines (`Numbered`).

`AgentLoopProofs`, about the buffer of container lines, for every capacity of stream
and buffer and every batch size:

* `LoopTypes`, `BufferHoldsNewest`, `DropsAreCounted`, `LinesArriveAtMostOnce`: the
  lines in the tailing thread, the stream, the buffer and the request under way follow
  each other without a gap in the order of reading (`QueueInv`, `BufferInv`, made of
  `Consecutive` runs of places), and a place behind all of them has arrived, has
  failed, or is counted as dropped (`HubInv`). Places and not lines are counted, since a
  line may be read twice.

`LogSourcesProofs`, for every set of sources, handlers, files, lines and excluded
addresses:

* `NamesHaveOneLink`, `UnlinkedHasACause` of `ServiceRegistry`: a link may come from a
  cache, and stays right because the name of its row stays unique; `RegistryInv` says
  so of every cache and every entry. The lemmas (`CacheHitStep`, `AskStep`,
  `ReturnsStep`, `EndRequestStep`) are about one step of one resolver, so that the
  composition can use them.
* `LinesHaveOneLink`, `LinesUnlinkedHaveACause` of `LogSources`: the steps of the
  composition are steps of resolvers, or leave the registry alone.
* `AttacksAreSecurityEvents`, `MoreMatchesAreWorse`: all entries are what
  `process_line` made of a line of a file (`EntriesOfLines`); the rest is lemmas
  about the rules, `ThreatLevelGrows` and `AttackProcessed` above all.
* `HostsShowTheirLines`: the resolver is asked for the source of the entry that waits,
  and what it returns is linked (`AskedForEntry`); the row behind a link has the
  source's name (`RegistryInv`), and that is the host of the file.

`HubProofs`, for every batch, limit, command line, order of storing, and setting of
the cache:

* `RevocationIsBounded`: how late a key is let in follows from when its entry was
  inserted (`InsertedInTime`), which follows from when its row was read
  (`ReadActive`, `Recent`).
* `CacheIsConsistent`: `MapAndQueueAgree` is inductive up to types (`CacheInv`): what
  an insertion leaves in the queue is fresh, hence in the map, or was just inserted.
* `BatchesAreAccounted`, `ValidatorsAreStrict`: what a handler holds between
  validation and insert is part of its batch and has passed the validator
  (`BatchShape`); `ValidEventFits`, `LineRowFits` and `ValidEntryFits` say what a
  validator lets through of what a table refuses.
* `SummaryIsRecent`, `PointsHaveAgent`: the newest point has an agent that was seen at
  most the skew before it (`NewestIsBacked`). A handler holds a time that was checked
  against an earlier clock, and `upsert_seen` may meet a row of the same agent; that
  its host is the same follows from the uniqueness of key names (`KeysAreUnique`,
  `AgentsHaveKeys`, `OneHost`).
* `PagesSkipNothing`: an event that has not been shown has at least as many events in
  front of it as the pages shown hold (`UnseenIsBehind`). Deletions do not break this, as
  they take events behind it only; and a count that no insert has overtaken is not
  too small (`CountHolds`), so the last page is not announced too early.

`LogViewerProofs`, for every set of rows, ties, limits and sources:

* `ListsAreOrdered`, `GapsAreExplained`: `ViewerInv` says of every cached list that
  its rows are of its source, in the order of the queries, and without a gap but for
  the rows in `lost`. `LoadedList` is about a list that was read, `ExtendedList` about
  one to which a poll adds rows at the head before it is cut: the fetched rows are
  the oldest of those that are newer than the head, so what the limit leaves out lies
  above them and becomes the gap with a cause.

`DaemonProcessProofs`, for every set of process numbers, starters and paths:

* `RunningDaemonIsNamed`: a daemon removes whatever file it resolves to, so the file
  of another is lost only when the two are marked (`OverlapMarked`).
* `OneDaemonAtATime`: while no start is disturbed, the file at `Home` names every
  daemon that has written it, a daemon that has not is the child of a starter that
  sleeps, and no other starter looks meanwhile (`Alone`).

Only model-checked:

* liveness (`EventuallyConfirmed`, `StopsWhenCancelled`, `Followed`,
  `EventuallyStored`, `InitialReadIsStored`, `CallsEnd`, `EventuallyShown`,
  `ExpiredIsDeleted`), since the provers have neither fairness nor ENABLED;
* what the three runs that expect a violation refute.

What a recursive definition computes for every input is out of reach of the provers,
so no module defines one; lists that a library would define by recursion
(`SelectSeq`, `SortSeq`, and the lines of a text, which a loop over its bytes would
collect) are defined by `Lists`. Every invariant that a passing run checks is the statement of
a theorem.

## 5. Where the code and its documents differ

Refuted by a run:

* `agent/logs.rs:184` "clamp the scanner batch so a flush always fits in one
  request": the batch grows while flushes fail (`scanner.rs:197`), and once it is
  over the limit every retry is refused. `EventuallyConfirmed`, `EventuallyStored`
  and `InitialReadIsStored` hold up to there.
* `tailer/mod.rs:207` "initial read, then live events forever": the daemon drops
  the `FileTailer` in the statement that starts it (`daemon/run.rs:33`).
* `agent/mod.rs:111`: when the container stream closes, the arm parks the whole
  loop, metrics and flushes included, and `docker_logs::start` drops its watcher
  when it returns, so the stream does close.

Met while modelling and described by the models, without a run of their own:

* A failed final flush loses what is in memory (`scanner.rs:153`); the loop does
  not end when the event stream does (`scanner.rs:121`); the daemon does not wait
  for its final flush (`scanner.rs:7`, `daemon/run.rs:78`).
* The tailer keeps the state of a removed file (`state.rs:106` and `:115`), a
  renamed explicit file is not followed to its successor (`mod.rs:4`, `:173`), a
  watcher error ends the task (`mod.rs:228`), a dropped event leaves lines unread
  until the next one, and a file created during the start is read twice.
* `str::lines()` strips CR NL and the tailer counts one byte for it (`state.rs:52`,
  `:139`), so the position falls a byte behind for each such line that is read. The
  next read sends those bytes again, as a piece of a line or an empty one, or fails
  where they begin inside of a character; `byte_offset` is then not "the byte offset
  where it started" (`mod.rs:29`). `EmittedOnceInOrder` and `NoByteTwice` hold for
  bare newlines; `CaughtUp` and `Followed` for both.
* A file that cannot be read, for lack of permission or for bytes that are not UTF-8,
  is not tried again: when the initial read fails, the file is tailed without a
  position and every later event about it does nothing (`state.rs:48`, `:93`,
  `:128`, `mod.rs:211`); when the read of a created file or of appended bytes fails,
  the position stays and the next modify event reads on (`state.rs:129`, `:160`); when
  a directory cannot be listed to its end, its other files are not tailed
  (`state.rs:79`). `CaughtUp` and `Followed` leave out a file whose last read failed
  (`unread`).
* The hub acknowledges a batch whose invalid lines it left out (`hub/grpc.rs:127`).
* `read_new_lines` takes the size before it reads, so a line appended in between
  is read twice (`docker_logs.rs:164`); lines of a failed request are not counted
  as dropped (`batcher.rs`).
* `batcher.rs:3` has lines accumulate up to `log_buffer_max` while the hub is
  unreachable. `flush` takes a batch out of the buffer before the call and puts
  nothing back (`agent/mod.rs:135`), so a hub that is away loses the lines of every
  request and the buffer holds less than a batch. It fills, and drops, only when a
  batch is larger than it or `log_batch_size` is 0, which nothing rejects
  (`config.rs:254`, `agent/mod.rs:121`): every request is empty then (`TypeOK`).
* Re-inserting an expired key keeps its old place in the queue, so a younger entry
  may be evicted (`hub/auth.rs:40`, `:177`); revoking does not evict
  (`HUB_PLAN.md:361`), the cache forgets after its TTL.
* Two starters at once, or one that finds a zombie or a reused number, start two
  daemons or none (`daemon/process.rs:86`).
* There may be two daemons without a race: `pid_file_path` gives another path to
  another user, to a process with another `SENTINEL_PID_FILE` or `TMPDIR`, and once
  `/run` becomes writable or ceases to be (`daemon/process.rs:18`); and
  `is_daemon_running_at` answers that there is none when the file cannot be read or
  `ps` cannot run (`:57` has "true when a live process holds the PID file").
  `AtMostOneDaemon` holds up to there.
* Sources of different kinds with one name share a row (`hub/grpc.rs:292`).
* An entry stored later with an equal timestamp and a smaller random id is never
  fetched by the viewer (`tui/data/mod.rs:78`), nor what a burst over 100 leaves
  behind (`log_viewer/mod.rs:107`); a list that was empty or failed to load is not
  polled.
* `log_scanner/source.rs:5` has scanner, tailer and TUI agree on what a file name
  means. A listed `x-access.log` is a system log to discovery and stored under the
  virtual host `x`; a line that names a host itself is stored under a virtual host
  that no file lists; a `*.log` that is no access log is tailed and not listed, and
  the access-log parser refuses its lines.
* A container that has the name of a virtual host takes its row, and the entries of
  both are then out of the virtual host's list (`service_repo.rs`, the queries of
  `log_query_repo.rs`); `ShownUnderItsHost` holds up to there. It relies on agents
  that send a virtual host equal to the source's name (`agent/logs.rs:96`), as this
  repository's agent does; the hub does not check it (`hub/grpc.rs:202`, `:347`).
* What `filter.rs` excludes is stored, as noise; `"update .* set"` stands in a
  table whose patterns are looked for literally (`classifier/patterns.rs`).
* `hub/auth.rs:233` has `invalidate` called on the path of `hub-key revoke`, and
  `HUB_PLAN.md` likewise; nothing calls it. REST and gRPC have a cache and a budget
  per address each; the budget counts calls that succeed, too.
* `HUB_PLAN.md:489` allows 100 requests a minute per key; the limiter is one per
  worker. The limiter for gRPC of `HUB_PLAN.md:203` is not there.
* `run_hub.rs:18` runs until a signal; the servers do not see the token and `run`
  waits for them, so after the signal it does not return unless they fail.
* `retention.rs:4` deletes in batches: one statement of at most 10000 rows per table
  and day, so rows that come faster are never caught up with, and a failure on one
  table leaves the tables after it to the next day.
* `config.rs:138` has days as a `u32`, and the statements take them as an `i32`
  (`app_event_repo.rs:196`, `log_entry_repo.rs:85`, `system_metric_repo.rs:168`): a
  number just below 2^32 deletes every row (`Keep`), other large ones leave the range
  of a timestamp and the statement fails.
* `log_query_repo.rs:5` has the cursor at the oldest row shown; it is the newest.
* `validate.rs:75` takes the name of an app to be validated when its key is
  created; `hub-key create` does not, and the table refuses every batch posted with
  such a key. A NUL in a message, a raw line or a payload passes the validators as
  well, and the database refuses the whole batch, which an agent then sends for
  ever. These are the two causes `RefusedOnlyForNulOrName` names.
* The name of a key is unique and that of its agent, app or dashboard, and a revoked
  key keeps its row: there is no second key for the same agent.
* `validate.rs:5` has rejections explicit, with a reason, and `grpc.rs:128` has
  invalid lines "counted and reported, never silently dropped". `POST /v1/events` does
  so; `send_logs` counts them in the hub's own log only, and its `Ack` holds the
  number accepted (`grpc.rs:377`): `BatchIsAccounted` speaks of a list of rejected
  items where there is one.
* `GET /api/v1/events` counts before it fetches: an event stored in between may push
  another to a page that the answer says is not there (`NothingSkipped` excludes it).

## 6. Not modelled, and the plan

Not modelled:

* which text a regular expression matches, formatting, wording, drawing and the
  keys that only move what is drawn; the terminal loop, which draws and dispatches
  one event at a time;
* parsing of the configuration and its defaults (the constants stand for the
  values), security headers and static files, the rendering of the dashboard;
* generation and hashing of keys; the rate budgets, whose verdict is a choice of
  each request, since they follow the wall clock in a library's limiter;
* the counts of the summary and the averages of a series, which are one query each
  over rows that `HubIngest` has;
* `service_tracker`, which nothing outside it uses;
* in the modelled parts: several watched directories with overlapping patterns,
  truncation of container logs, connecting with backoff, deletion of rows while
  the viewer runs.

Where a component is `partly` modelled, its note in `PROJECT.json` says what is left
out; all of it is in the list above or has no caller.

Plan, in order:

1. Abstract specifications for the registry (a name has one id for ever) and for
   the authentication cache (an answer is at most a TTL and a verification old),
   with refinements by `ServiceRegistry` and `HubAuth`.
2. `AgentForwarding` as an implementation of at-least-once delivery between restarts.

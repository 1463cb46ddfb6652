------------------------------- MODULE AgentLoop -------------------------------
(***************************************************************************)
(* The agent's main loop (src/agent/mod.rs), its bounded buffer            *)
(* (src/agent/batcher.rs) and the tailing of container logs                *)
(* (src/agent/docker_logs.rs).                                             *)
(*                                                                         *)
(* A thread turns file events into log lines and sends them through two    *)
(* channels, joined by a pump task, to the loop, which buffers them and    *)
(* hands them to the hub in requests; the two channels are one sequence    *)
(* here.  The loop also samples metrics.  All calls to the hub, those of   *)
(* the log forwarding task included, go through one client behind a mutex  *)
(* that is held until the hub answers or the connection fails.             *)
(*                                                                         *)
(* The cancellation token of the agent is created in run() and cancelled   *)
(* by nobody, so the loop's shutdown arm is never taken and is left out.   *)
(***************************************************************************)
EXTENDS Integers, Sequences, SequencesExt, FiniteSets

CONSTANTS
  MaxLines,     \* bound: lines the containers write
  StreamCap,    \* lines the two channels hold together
  BufferSizes,  \* values log_buffer_max may have (1 at least: BoundedBatcher::new)
  BatchSizes    \* values log_batch_size may have: 0 too, as nobody checks it

ASSUME AgentLoopAssumption ==
  /\ MaxLines \in Nat
  /\ StreamCap \in Nat \ {0}
  /\ BufferSizes \subseteq Nat \ {0}
  /\ BatchSizes \subseteq Nat

Line == 1 .. MaxLines
None == -1

VARIABLES
  config,       \* log_buffer_max and log_batch_size, read once at the start
  \* container logs
  written,      \* lines in the log files
  watcher,      \* the notify watcher: "placed" or, its owner returned, "dropped"
  events,       \* file events that wait for the thread
  offset,       \* Tailed.offset, in lines
  size,         \* the file's size as the read under way saw it, or None
  read,         \* history: the lines the thread read, in order
  pending,      \* those it is still to send, by their place in read
  tailing,      \* the thread runs
  stream,       \* lines on their way to the loop, by their place in read
  \* the loop
  loop,         \* "starting", "select", "metric", "flush" or "parked"
  buf,          \* BoundedBatcher: the lines ...
  dropped,      \* ... dropped_since_report ...
  totalDropped, \* ... and total_dropped
  sending,      \* lines of the flush under way
  client,       \* who holds the mutex of the client: "free", "loop", "sink"
  \* the hub, and history
  received,     \* lines whose request reached the hub, in order
  failed,       \* lines of requests that failed, as the agent knows
  reported      \* sum of the drop counts that were logged

tailVars == <<written, watcher, events, offset, size, read, pending, tailing>>
bufVars  == <<buf, dropped, totalDropped>>
hubVars  == <<received, failed, reported>>
vars     == <<tailVars, stream, loop, bufVars, sending, client, hubVars>>

BufferMax == config.bufferMax
BatchSize == config.batchSize

Init ==
  /\ config \in [bufferMax : BufferSizes, batchSize : BatchSizes]
  /\ written = 0 /\ watcher = "placed" /\ events = 0 /\ offset = 0 /\ size = None /\ read = <<>>
  /\ pending = <<>> /\ tailing = TRUE /\ stream = <<>>
  /\ loop = "starting" /\ buf = <<>> /\ dropped = 0 /\ totalDropped = 0
  /\ sending = <<>> /\ client = "free"
  /\ received = <<>> /\ failed = {} /\ reported = 0

-----------------------------------------------------------------------------
(* Container logs.                                                         *)

\* A container writes a line; the watcher queues an event while it is there.
WriteLine ==
  /\ written < MaxLines /\ written' = written + 1
  /\ events' = IF watcher = "placed" THEN events + 1 ELSE events
  /\ UNCHANGED <<watcher, offset, size, read, pending, tailing, stream, loop, bufVars,
                 sending, client, hubVars>>

\* tail_containers returns, the loop begins ...
StartReturns ==
  /\ loop = "starting" /\ loop' = "select"
  /\ UNCHANGED <<tailVars, stream, bufVars, sending, client, hubVars>>

\* ... and the watcher, a local variable of start(), is dropped with it.
WatcherGone ==
  /\ loop # "starting" /\ watcher = "placed" /\ watcher' = "dropped"
  /\ UNCHANGED <<written, events, offset, size, read, pending, tailing, stream,
                 loop, bufVars, sending, client, hubVars>>

\* An event: the thread asks for the file's size ...
BeginRead ==
  /\ tailing /\ size = None /\ pending = <<>> /\ events > 0
  /\ events' = events - 1
  /\ size' = IF written = offset THEN None ELSE written
  /\ UNCHANGED <<written, watcher, offset, read, pending, tailing, stream, loop,
                 bufVars, sending, client, hubVars>>

\* ... and reads from the saved offset to the end, which may be further on.
ReadNewLines ==
  /\ size # None
  /\ read' = read \o [i \in 1 .. written - offset |-> offset + i]
  /\ pending' = [i \in 1 .. written - offset |-> Len(read) + i]
  /\ offset' = size /\ size' = None
  /\ UNCHANGED <<written, watcher, events, tailing, stream, loop, bufVars,
                 sending, client, hubVars>>

\* Faulty variant of SendLine: sends into channels that are full.
SendLineUnbounded ==
  /\ pending # <<>>
  /\ stream' = Append(stream, Head(pending)) /\ pending' = Tail(pending)
  /\ UNCHANGED <<written, watcher, events, offset, size, read, tailing, loop, bufVars,
                 sending, client, hubVars>>

\* blocking_send: the thread waits while the channels are full.
SendLine ==
  /\ pending # <<>> /\ Len(stream) < StreamCap
  /\ stream' = Append(stream, Head(pending)) /\ pending' = Tail(pending)
  /\ UNCHANGED <<written, watcher, events, offset, size, read, tailing, loop, bufVars,
                 sending, client, hubVars>>

\* The event channel has no sender left: the thread returns.
TailingEnds ==
  /\ tailing /\ watcher = "dropped" /\ events = 0
  /\ size = None /\ pending = <<>>
  /\ tailing' = FALSE
  /\ UNCHANGED <<written, watcher, events, offset, size, read, pending, stream,
                 loop, bufVars, sending, client, hubVars>>

-----------------------------------------------------------------------------
(* The main loop: the arms of its select.                                  *)

\* Faulty variant of Flush: the lines stay in the buffer.
FlushKeeps(b) ==
  /\ sending' = SubSeq(b, 1, IF Len(b) < BatchSize THEN Len(b) ELSE BatchSize)
  /\ buf' = b /\ loop' = "flush"

\* flush: up to BatchSize lines leave the buffer b for the request, for good.  A
\* batch size of 0 makes the requests empty, and the buffer fills.
Flush(b) ==
  /\ sending' = SubSeq(b, 1, IF Len(b) < BatchSize THEN Len(b) ELSE BatchSize)
  /\ buf' = SubSeq(b, Len(sending') + 1, Len(b))
  /\ loop' = "flush"

MetricsTick ==
  /\ loop = "select" /\ loop' = "metric"
  /\ UNCHANGED <<tailVars, stream, bufVars, sending, client, hubVars>>

FlushTick ==
  /\ loop = "select" /\ buf # <<>>
  /\ Flush(buf)
  /\ UNCHANGED <<tailVars, stream, dropped, totalDropped, client, hubVars>>

\* Faulty variant of Pushed: room is made at the new end.
PushedDropsNewest(line) ==
  LET excess == IF Len(buf) < BufferMax THEN 0 ELSE Len(buf) - BufferMax + 1
  IN  [buf |-> Append(SubSeq(buf, 1, Len(buf) - excess), line), evicted |-> excess]

\* BoundedBatcher::push makes room at the old end.
Pushed(line) ==
  LET excess == IF Len(buf) < BufferMax THEN 0 ELSE Len(buf) - BufferMax + 1
  IN  [buf |-> Append(SubSeq(buf, excess + 1, Len(buf)), line), evicted |-> excess]

\* Faulty variant of Full: one line more than a batch.
FullLate(b) == Len(b) > BatchSize

Full(b) == Len(b) >= BatchSize

TakeLine ==
  /\ loop = "select" /\ stream # <<>>
  /\ stream' = Tail(stream)
  /\ LET push == Pushed(Head(stream)) IN
       /\ dropped' = dropped + push.evicted
       /\ totalDropped' = totalDropped + push.evicted
       /\ IF Full(push.buf)
            THEN Flush(push.buf)
            ELSE buf' = push.buf /\ UNCHANGED <<loop, sending>>
  /\ UNCHANGED <<tailVars, client, hubVars>>

\* The channel is closed: pending().await, inside the arm.
StreamClosed ==
  /\ loop = "select" /\ stream = <<>> /\ ~tailing
  /\ loop' = "parked"
  /\ UNCHANGED <<tailVars, stream, bufVars, sending, client, hubVars>>

-----------------------------------------------------------------------------
(* Calls to the hub, through the client's mutex.                           *)

LockClient ==
  /\ loop \in {"metric", "flush"} /\ client = "free" /\ client' = "loop"
  /\ UNCHANGED <<tailVars, stream, loop, bufVars, sending, hubVars>>

MetricCallEnds ==
  /\ loop = "metric" /\ client = "loop"
  /\ client' = "free" /\ loop' = "select"
  /\ UNCHANGED <<tailVars, stream, bufVars, sending, hubVars>>

\* Faulty variant of FlushEnds: the drop count is not taken.
FlushEndsKeepsCount ==
  /\ loop = "flush" /\ client = "loop"
  /\ client' = "free" /\ loop' = "select" /\ sending' = <<>>
  /\ reported' = reported + dropped /\ dropped' = dropped
  /\ UNCHANGED <<tailVars, stream, buf, totalDropped>>

\* The end of flush: the result is logged and so are the drops, if any.
FlushEnds ==
  /\ loop = "flush" /\ client = "loop"
  /\ client' = "free" /\ loop' = "select" /\ sending' = <<>>
  /\ reported' = reported + dropped /\ dropped' = 0
  /\ UNCHANGED <<tailVars, stream, buf, totalDropped>>

FlushOk  == FlushEnds /\ received' = received \o sending /\ UNCHANGED failed

\* The call fails: before the request reached the hub, or after.
FlushErr ==
  /\ FlushEnds
  /\ received' \in {received, received \o sending}
  /\ failed' = failed \cup ToSet(sending)

\* GrpcSink, on the log forwarding task, uses the same client.
SinkLocks ==
  /\ client = "free" /\ client' = "sink"
  /\ UNCHANGED <<tailVars, stream, loop, bufVars, sending, hubVars>>

\* Faulty variant of SinkCallEnds: the sink keeps the mutex between calls.
SinkCallEndsLocked ==
  /\ client = "sink" /\ client' = client
  /\ UNCHANGED <<tailVars, stream, loop, bufVars, sending, hubVars>>

SinkCallEnds ==
  /\ client = "sink" /\ client' = "free"
  /\ UNCHANGED <<tailVars, stream, loop, bufVars, sending, hubVars>>

-----------------------------------------------------------------------------
Tailing == BeginRead \/ ReadNewLines \/ SendLine \/ TailingEnds
Calls   == MetricCallEnds \/ FlushOk \/ FlushErr \/ SinkCallEnds
Next ==
  /\ UNCHANGED config
  /\ \/ WriteLine \/ StartReturns \/ WatcherGone \/ Tailing
     \/ MetricsTick \/ FlushTick \/ TakeLine \/ StreamClosed
     \/ LockClient \/ SinkLocks \/ Calls

Spec == Init /\ [][Next]_<<config, vars>>

\* The client's mutex serves its waiters in order, and the hub answers or the
\* connection fails.
CallsAreServed == SF_vars(LockClient) /\ WF_vars(Calls)
CallSpec == Spec /\ CallsAreServed

\* Threads and tasks run, and tokio::select! picks its arms at random.
Fairness ==
  /\ CallsAreServed
  /\ WF_vars(StartReturns) /\ WF_vars(WatcherGone) /\ WF_vars(Tailing)
  /\ SF_vars(MetricsTick) /\ SF_vars(FlushTick) /\ SF_vars(TakeLine)
  /\ SF_vars(StreamClosed)
FairSpec == Spec /\ Fairness

\* Places in read.
Place == 1 .. Len(read)

\* The types of the variables.  Between two arms the buffer is within its limit
\* and, unless log_batch_size is 0, holds less than a batch: a flush takes its
\* lines out before the call and puts none back (flush), so lines do not pile up
\* to log_buffer_max in it while the hub is away, as batcher.rs:3 has it.
TypeOK ==
  /\ written \in 0 .. MaxLines /\ offset \in 0 .. written /\ events \in 0 .. MaxLines
  /\ size \in {None} \cup offset + 1 .. written
  /\ watcher \in {"placed", "dropped"} /\ tailing \in BOOLEAN
  /\ read \in Seq(Line)
  /\ pending \in Seq(Place) /\ buf \in Seq(Place) /\ sending \in Seq(Place)
  /\ stream \in Seq(Place) /\ Len(stream) <= StreamCap
  /\ loop \in {"starting", "select", "metric", "flush", "parked"}
  /\ client \in {"free", "loop", "sink"}
  /\ {dropped, totalDropped, reported} \subseteq 0 .. Len(read)
  /\ received \in Seq(Place) /\ failed \subseteq Place
  /\ loop = "select" =>
       Len(buf) <= BufferMax /\ (BatchSize > 0 => Len(buf) < BatchSize)

-----------------------------------------------------------------------------
\* The loop has pushed the first Taken lines read to the buffer so far.
Taken == Len(read) - Len(pending) - Len(stream)

(* What the buffer holds is the newest run of the lines taken, without a gap:
   an overflow drops from the old end (BoundedBatcher::push, drain). *)
BufferIsNewest ==
  \A i \in 1 .. Len(buf) : buf[i] = Taken - Len(buf) + i

(* Every line taken that is not in the buffer, in a request, at the hub or in
   a failed request was dropped at overflow and is counted once, in the total
   and either logged or still to be logged (take_dropped, total_dropped). *)
OverflowIsCounted ==
  /\ Cardinality((1 .. Taken) \ (ToSet(buf \o sending \o received) \cup failed)) = totalDropped
  /\ reported + dropped = totalDropped

(* What the thread read reaches the hub in the order it was read and no place of
   it twice, unlike the lines of the log forwarding task (flush never retries).
   A line of the file may be read twice, if it is written between the look at the
   size and the read (docker_logs.rs: offset = size), and then arrives twice. *)
AtMostOnceInOrder ==
  \A i, j \in 1 .. Len(received \o sending) :
    i < j => (received \o sending)[i] < (received \o sending)[j]

(* A call of the loop ends and the loop is back at its select, even with the
   forwarding task competing for the client (HubClient's mutex). *)
CallsEnd == loop \in {"metric", "flush"} ~> loop = "select"

(* The agent goes on sampling metrics (SDK_PLAN.md: it "reads system metrics
   ... every 30 seconds"). *)
MetricsGoOn == []<>(loop = "metric")
=============================================================================

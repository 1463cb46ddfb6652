------------------------------- MODULE Scanner -------------------------------
(***************************************************************************)
(* The batching loop of the log pipeline (src/log_scanner/scanner.rs).     *)
(*                                                                         *)
(* A tailer sends events through a bounded channel.  Scanner::run receives *)
(* them, turns lines into entries, collects the entries in a batch and     *)
(* flushes the batch to a LogSink: when it holds BatchSize entries, on a   *)
(* timer, and once more on cancellation.  The select! is biased: a waiting *)
(* event wins over cancellation, and cancellation wins over the timer.     *)
(* A flush takes the batch out, awaits the sink and puts the entries back  *)
(* on failure.  While it awaits, the tailer, the canceller and the sink    *)
(* go on, but the loop does not.                                           *)
(*                                                                         *)
(* Lines are numbered in the order the tailer emits them.  The number of   *)
(* a line stands for its entry.                                            *)
(***************************************************************************)
EXTENDS Naturals, Sequences, Functions

CONSTANTS
  MaxEvents,       \* bound: events the tailer sends
  MaxLostReplies,  \* bound: flushes stored by the sink but reported as failed
  ChannelCap,      \* capacity of the event channel
  BatchSize,       \* flush threshold
  MaxRequest,      \* most entries the sink can take in one call
  Unstorable,      \* entries the table refuses, and their call with them
  TimerOn          \* whether batch_interval is Some

ASSUME ScannerAssumption ==
  /\ MaxEvents \in Nat
  /\ MaxLostReplies \in Nat
  /\ ChannelCap \in Nat \ {0}
  /\ BatchSize \in Nat \ {0}
  /\ MaxRequest \in Nat \ {0}
  /\ Unstorable \subseteq 1 .. MaxEvents
  /\ TimerOn \in BOOLEAN

VARIABLES
  emitted,      \* events sent so far
  rx,           \* the channel between tailer and scanner
  open,         \* whether the tailer still holds the sending half
  cancelled,    \* the cancel token
  pc,           \* "select", "flush" (then select again), "final", "stopped"
  batch,        \* entries collected and not taken by a flush
  entries,      \* entries a flush has taken and awaits the sink for
  kept,         \* history: every entry the pipeline produced, in order
  stored,       \* the sink's contents, in the order of insertion
  confirmed,    \* history: how many entries of kept the sink has confirmed
  atCancel,     \* history: value of emitted when the token fired
  lostReplies   \* history: flushes stored but reported as failed

vars == <<emitted, rx, open, cancelled, pc, batch, entries, kept, stored,
          confirmed, atCancel, lostReplies>>

\* TailEvent: Ok(line) is the number of the line, Err(_) is ReadError.
Line == 1 .. MaxEvents
ReadError == 0
TailEvent == Line \cup {ReadError}

Init ==
  /\ emitted = 0 /\ rx = <<>> /\ open = TRUE
  /\ cancelled = FALSE /\ pc = "select"
  /\ batch = <<>> /\ entries = <<>>
  /\ kept = <<>> /\ stored = <<>> /\ confirmed = 0
  /\ atCancel = 0 /\ lostReplies = 0

(***************************************************************************)
(* The tailer and the owner of the cancel token.                           *)
(***************************************************************************)

\* tx.send(..).await of a line or of a read error; waits while full.
TailerSend ==
  /\ open
  /\ emitted < MaxEvents
  /\ Len(rx) < ChannelCap
  /\ emitted' = emitted + 1
  /\ \E event \in {emitted + 1, ReadError} : rx' = Append(rx, event)
  /\ UNCHANGED <<open, cancelled, pc, batch, entries, kept, stored,
                 confirmed, atCancel, lostReplies>>

\* The tailer task returns and drops the sender.
TailerEnds ==
  /\ open
  /\ open' = FALSE
  /\ UNCHANGED <<emitted, rx, cancelled, pc, batch, entries, kept, stored,
                 confirmed, atCancel, lostReplies>>

\* stop(), or the external token.
Stop ==
  /\ ~cancelled
  /\ cancelled' = TRUE
  /\ atCancel' = emitted
  /\ UNCHANGED <<emitted, rx, open, pc, batch, entries, kept, stored,
                 confirmed, lostReplies>>

(***************************************************************************)
(* The three arms of the select.                                           *)
(***************************************************************************)

\* Faulty variant of BeginFlush: takes a full batch from the wrong end.
BeginFlushNewest(b, next) ==
  LET size == IF Len(b) > BatchSize THEN BatchSize ELSE Len(b) IN
  /\ entries' = SubSeq(b, Len(b) - size + 1, Len(b))
  /\ batch' = <<>>
  /\ pc' = next

\* mem::take: the flush holds b and leaves the batch empty.
BeginFlush(b, next) ==
  /\ entries' = b
  /\ batch' = <<>>
  /\ pc' = next

\* Faulty variant of Processed: the Err arm of the event is not told apart.
ProcessedUnchecked(event) == {<<>>, <<event>>}

\* What process_line makes of an event: nothing, for a tailer error, a line
\* the parser declines or one it cannot parse; or the entry of the line.
Processed(event) ==
  IF event = ReadError THEN {<<>>} ELSE {<<>>, <<event>>}

\* Faulty variant of Receive: the new entry goes to the front of the batch.
ReceiveInFront ==
  /\ pc = "select"
  /\ rx # <<>>
  /\ rx' = Tail(rx)
  /\ \E new \in Processed(Head(rx)) :
       /\ kept' = kept \o new
       /\ IF Len(new \o batch) >= BatchSize
            THEN BeginFlush(new \o batch, "flush")
            ELSE batch' = new \o batch /\ UNCHANGED <<pc, entries>>
  /\ UNCHANGED <<emitted, open, cancelled, stored, confirmed, atCancel,
                 lostReplies>>

\* First arm: an event is received and processed; a batch that has reached
\* the threshold, by this event or since before it, is flushed.
Receive ==
  /\ pc = "select"
  /\ rx # <<>>
  /\ rx' = Tail(rx)
  /\ \E new \in Processed(Head(rx)) :
       /\ kept' = kept \o new
       /\ IF Len(batch \o new) >= BatchSize
            THEN BeginFlush(batch \o new, "flush")
            ELSE batch' = batch \o new /\ UNCHANGED <<pc, entries>>
  /\ UNCHANGED <<emitted, open, cancelled, stored, confirmed, atCancel,
                 lostReplies>>

\* Faulty variants of Cancelled: without the bias of the select, and without
\* leaving the loop when there is nothing to flush.
CancelledUnbiased ==
  /\ pc = "select"
  /\ cancelled
  /\ IF batch = <<>>
       THEN pc' = "stopped" /\ UNCHANGED <<batch, entries>>
       ELSE BeginFlush(batch, "final")
  /\ UNCHANGED <<emitted, rx, open, cancelled, kept, stored, confirmed,
                 atCancel, lostReplies>>

CancelledWithBatchOnly ==
  /\ pc = "select"
  /\ rx = <<>>
  /\ cancelled
  /\ batch # <<>>
  /\ BeginFlush(batch, "final")
  /\ UNCHANGED <<emitted, rx, open, cancelled, kept, stored, confirmed,
                 atCancel, lostReplies>>

\* Second arm: cancelled, and no event is waiting.
Cancelled ==
  /\ pc = "select"
  /\ rx = <<>>
  /\ cancelled
  /\ IF batch = <<>>
       THEN pc' = "stopped" /\ UNCHANGED <<batch, entries>>
       ELSE BeginFlush(batch, "final")
  /\ UNCHANGED <<emitted, rx, open, cancelled, kept, stored, confirmed,
                 atCancel, lostReplies>>

\* Faulty variant of Tick: the timer, too, waits for the threshold.
TickAtThreshold ==
  /\ TimerOn
  /\ pc = "select"
  /\ rx = <<>>
  /\ ~cancelled
  /\ Len(batch) >= BatchSize
  /\ BeginFlush(batch, "flush")
  /\ UNCHANGED <<emitted, rx, open, cancelled, kept, stored, confirmed,
                 atCancel, lostReplies>>

\* Third arm: the timer, when neither of the others is ready.
Tick ==
  /\ TimerOn
  /\ pc = "select"
  /\ rx = <<>>
  /\ ~cancelled
  /\ batch # <<>>
  /\ BeginFlush(batch, "flush")
  /\ UNCHANGED <<emitted, rx, open, cancelled, kept, stored, confirmed,
                 atCancel, lostReplies>>

(***************************************************************************)
(* The answer of the sink.                                                 *)
(***************************************************************************)

\* Whether the sink can take a call at all: the hub allows MAX_LINES_PER_REQUEST
\* lines, a statement 65535 parameters, and a text with a NUL is no text.
Acceptable(list) == Len(list) <= MaxRequest /\ Range(list) \cap Unstorable = {}

AfterFlush == IF pc = "final" THEN "stopped" ELSE "select"

\* Faulty variant of FlushOk: the entries go back into the batch anyway.
FlushOkPutsBack ==
  /\ pc \in {"flush", "final"}
  /\ Acceptable(entries)
  /\ stored' = stored \o entries
  /\ batch' = entries
  /\ entries' = <<>>
  /\ pc' = AfterFlush
  /\ UNCHANGED <<emitted, rx, open, cancelled, kept, confirmed, atCancel, lostReplies>>

\* insert_batch returned Ok: the entries are dropped.
Confirm ==
  /\ pc \in {"flush", "final"}
  /\ confirmed' = confirmed + Len(entries)
  /\ entries' = <<>>
  /\ pc' = AfterFlush
  /\ UNCHANGED <<emitted, rx, open, cancelled, batch, kept, atCancel>>

FlushOk ==
  /\ Confirm
  /\ Acceptable(entries)
  /\ stored' = stored \o entries
  /\ UNCHANGED lostReplies

\* Faulty variant of PutBack: the entries of a failed flush are dropped.
PutBackForgets ==
  /\ pc \in {"flush", "final"}
  /\ entries' = <<>>
  /\ pc' = AfterFlush
  /\ UNCHANGED <<emitted, rx, open, cancelled, batch, kept, confirmed, atCancel>>

\* insert_batch returned Err: the entries go back into the batch.
PutBack ==
  /\ pc \in {"flush", "final"}
  /\ batch' = entries
  /\ entries' = <<>>
  /\ pc' = AfterFlush
  /\ UNCHANGED <<emitted, rx, open, cancelled, kept, confirmed, atCancel>>

\* The sink refused or never saw the request.
FlushErr == PutBack /\ UNCHANGED <<stored, lostReplies>>

\* The sink stored the entries, and its answer was lost on the way.
FlushErrStored ==
  /\ PutBack
  /\ Acceptable(entries)
  /\ lostReplies < MaxLostReplies
  /\ lostReplies' = lostReplies + 1
  /\ stored' = stored \o entries

Loop == Receive \/ Cancelled \/ Tick
Sink == FlushOk \/ FlushErr \/ FlushErrStored
Next == TailerSend \/ TailerEnds \/ Stop \/ Loop \/ Sink

Spec == Init /\ [][Next]_vars

\* The loop is polled while an arm is ready and every call of the sink
\* returns; a sink that is asked again and again for what it can take takes it
\* at some point.
Fairness == WF_vars(Loop) /\ WF_vars(Sink) /\ SF_vars(FlushOk)

FairSpec == Spec /\ Fairness

-----------------------------------------------------------------------------
(***************************************************************************)
(* Properties.                                                             *)
(***************************************************************************)

TypeOK ==
  /\ emitted \in 0 .. MaxEvents
  /\ rx \in Seq(TailEvent)
  /\ open \in BOOLEAN
  /\ cancelled \in BOOLEAN
  /\ pc \in {"select", "flush", "final", "stopped"}
  /\ batch \in Seq(Line)
  /\ entries \in Seq(Line)
  /\ kept \in Seq(Line)
  /\ stored \in Seq(Line)
  /\ confirmed \in Nat
  /\ atCancel \in Nat
  /\ lostReplies \in Nat

\* A flush holds all the entries there are, and nothing is held outside one.
FlushShape ==
  /\ pc \in {"flush", "final"} => batch = <<>>
  /\ pc \in {"select", "stopped"} => entries = <<>>
  /\ pc \in {"final", "stopped"} => cancelled
  /\ atCancel <= emitted

Pending == entries \o batch

\* Whatever mix of failed flushes, retries and new lines came before, the
\* entries in memory are exactly the unconfirmed suffix of what the
\* pipeline produced, in order: flush_batch, with its put-back
\* (scanner.rs:197), forgets, repeats and reorders nothing, also while a flush
\* is awaited.
NothingForgotten ==
  /\ confirmed <= Len(kept)
  /\ Pending = SubSeq(kept, confirmed + 1, Len(kept))

\* The sink holds a prefix of what the pipeline produced, without a gap: no
\* entry is stored whose predecessor is not, even after lost replies.
StoredWithoutGap ==
  \E n \in confirmed .. Len(kept) :
    Range(stored) = {kept[i] : i \in 1 .. n}

\* A repetition in the sink has one cause only: a reply that was lost.  As
\* long as none was, the sink holds each confirmed entry once, in order.
RepeatedOnlyByLostReply ==
  lostReplies = 0 => stored = SubSeq(kept, 1, confirmed)

\* "In-flight events win over cancellation so that lines already in the
\* channel are still processed at shutdown" (scanner.rs:134): the final flush
\* starts with no line waiting that was sent before the token fired.
DrainedBeforeStop ==
  pc \in {"final", "stopped"} =>
    \A i \in 1 .. Len(rx) : rx[i] = ReadError \/ rx[i] > atCancel

Delivery == INSTANCE AtLeastOnce WITH Item <- Line, accepted <- kept

\* The loop implements ordered at-least-once delivery: what a flush hands to
\* the sink always starts right behind the confirmed prefix.
OrderedAtLeastOnce == Delivery!Spec

\* What is in memory can never be flushed again: it has outgrown a request while
\* flushes failed (see FlushFitsInOneRequest), or has an entry in it that the table
\* refuses.  As nothing is taken out of a batch, this does not end.
Stuck == ~Acceptable(Pending)

\* An entry is confirmed in the end, or the scanner was stopped: no entry is
\* left in the batch below the threshold for ever.  Needs the timer and a sink
\* that recovers before the batch is stuck.
EventuallyConfirmed ==
  \A n \in 1 .. MaxEvents :
    Len(kept) >= n ~> (confirmed >= n \/ pc = "stopped" \/ Stuck)

\* Cancellation ends the loop, however the last flush goes.
StopsWhenCancelled == cancelled ~> pc = "stopped"

-----------------------------------------------------------------------------
(***************************************************************************)
(* What the comments say and the code does not do.                         *)
(***************************************************************************)

\* "clamp the scanner batch so a flush always fits in one request"
\* (src/agent/logs.rs:184).
FlushFitsInOneRequest == Len(entries) <= MaxRequest
=============================================================================

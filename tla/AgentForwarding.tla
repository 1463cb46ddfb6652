---------------------------- MODULE AgentForwarding ----------------------------
(***************************************************************************)
(* Log forwarding from the agent to the hub: the batching loop of Scanner  *)
(* with GrpcSink (src/agent/logs.rs) as its sink, the connection between   *)
(* them, and the hub's handler of SendLogs (src/hub/grpc.rs).              *)
(*                                                                         *)
(* The agent makes one call at a time and sets no deadline on it.  When    *)
(* the connection breaks the call fails at once, while the hub's handler   *)
(* of it may go on and insert its lines later, beside the handler of the   *)
(* next attempt.  The agent may be killed at any moment; what it held is   *)
(* gone, and its next run tails every log from the beginning again.        *)
(*                                                                         *)
(* stored is the table log_entries of the hub.                             *)
(***************************************************************************)
EXTENDS Scanner, FiniteSets, Functions, Lists

CONSTANTS
  Invalid,        \* the lines the hub's validation rejects
  MaxRestarts     \* bound: times the agent is killed and started again

ASSUME ForwardingAssumption ==
  /\ Invalid \subseteq Line /\ Invalid \cap Unstorable = {}
  /\ MaxRestarts \in Nat

VARIABLES
  awaited,    \* the number of the call the sink awaits, 0 for none
  handlers,   \* the hub's handlers under way: [call, lines, stage]
  missed,     \* history: lines this run read but made no entry of
  restarts    \* times the agent was started again

forwardingVars == <<vars, awaited, handlers, missed, restarts>>

\* Lines of a request that pass the hub's validation.
Accepted(lines) == Kept(lines, Line \ Invalid)

InitForwarding ==
  /\ Init
  /\ awaited = 0 /\ handlers = {} /\ missed = {} /\ restarts = 0

\* The line the tailer failed to read or the pipeline declines in this step.
Missed == {n \in Line :
  \/ emitted' = n /\ emitted < n /\ n \notin Range(rx')
  \/ rx # <<>> /\ Head(rx) = n /\ rx' = Tail(rx) /\ n \notin Range(kept')}

\* A step of the tailer, the canceller or the loop between two flushes.
LoopStep ==
  /\ TailerSend \/ TailerEnds \/ Stop \/ Loop
  /\ missed' = missed \cup Missed
  /\ UNCHANGED <<awaited, handlers, restarts>>

(***************************************************************************)
(* GrpcSink::insert_batch on the agent.                                    *)
(***************************************************************************)

\* The request reaches the hub (the call gets the least number not in use) ...
SendLogs ==
  /\ pc \in {"flush", "final"} /\ awaited = 0
  /\ \E call \in 1 .. Cardinality(handlers) + 1 :
       /\ \A n \in 1 .. call : (n < call) <=> n \in {h.call : h \in handlers}
       /\ awaited' = call
       /\ handlers' = handlers \cup
            {[call |-> call, lines |-> entries, stage |-> "received"]}
  /\ UNCHANGED <<vars, missed, restarts>>

\* ... or fails without having reached it.
NotSent ==
  /\ awaited = 0
  /\ FlushErr
  /\ UNCHANGED <<awaited, handlers, missed, restarts>>

\* Faulty variant of ConnectionLost: the lost call is taken for a success.
ConnectionLostUnnoticed ==
  /\ awaited # 0
  /\ lostReplies < MaxLostReplies
  /\ lostReplies' = lostReplies + 1
  /\ Confirm
  /\ awaited' = 0
  /\ UNCHANGED <<stored, handlers, missed, restarts>>

\* The connection breaks while the answer is awaited: Err, at the agent.
ConnectionLost ==
  /\ awaited # 0
  /\ lostReplies < MaxLostReplies
  /\ lostReplies' = lostReplies + 1
  /\ PutBack
  /\ awaited' = 0
  /\ UNCHANGED <<stored, handlers, missed, restarts>>

(***************************************************************************)
(* IngestService::send_logs on the hub.                                    *)
(***************************************************************************)

\* The handler is over; its answer reaches the agent if it still waits.
Answer(h, ok) ==
  /\ handlers' = handlers \ {h}
  /\ IF h.call = awaited
       THEN /\ IF ok THEN Confirm ELSE PutBack
            /\ awaited' = 0
       ELSE UNCHANGED <<emitted, rx, open, cancelled, pc, batch, entries, kept,
                        confirmed, atCancel, awaited>>
  /\ UNCHANGED <<missed, restarts>>

\* The key is not accepted, there are too many lines, or the statement fails.
Refuse(h) ==
  /\ h.stage = "received"
  /\ Answer(h, FALSE)
  /\ UNCHANGED <<stored, lostReplies>>

\* The statement is carried out and its result does not reach the hub, which
\* answers Status::internal.  (If nobody waits for the answer this is InsertLines.)
InsertLost(h) ==
  /\ h.stage = "received" /\ h.call = awaited
  /\ Acceptable(h.lines)
  /\ lostReplies < MaxLostReplies
  /\ lostReplies' = lostReplies + 1
  /\ stored' = stored \o Accepted(h.lines)
  /\ Answer(h, FALSE)

\* The valid lines are inserted by one statement, the others are left out.
InsertLines(h) ==
  /\ h.stage = "received"
  /\ Acceptable(h.lines)
  /\ stored' = stored \o Accepted(h.lines)
  /\ handlers' = (handlers \ {h}) \cup {[h EXCEPT !.stage = "inserted"]}
  /\ UNCHANGED <<emitted, rx, open, cancelled, pc, batch, entries, kept, confirmed,
                 atCancel, lostReplies, awaited, missed, restarts>>

\* Faulty variant of Acknowledge: the handler stays and inserts again.
AcknowledgeAgain(h) ==
  /\ h.stage = "inserted"
  /\ h.call = awaited
  /\ Confirm
  /\ awaited' = 0
  /\ handlers' = (handlers \ {h}) \cup {[h EXCEPT !.stage = "received"]}
  /\ UNCHANGED <<stored, lostReplies, missed, restarts>>

\* Ack, accepted: true, whatever was left out.
Acknowledge(h) ==
  /\ h.stage = "inserted"
  /\ Answer(h, TRUE)
  /\ UNCHANGED <<stored, lostReplies>>

\* The server drops the handler of a call whose connection is gone.
DropHandler(h) ==
  /\ h.call # awaited
  /\ handlers' = handlers \ {h}
  /\ UNCHANGED <<vars, awaited, missed, restarts>>

(***************************************************************************)
(* The agent process.                                                      *)
(***************************************************************************)

\* Faulty variant of Restart: the positions of the tailer survive.
RestartResuming ==
  /\ restarts < MaxRestarts
  /\ restarts' = restarts + 1
  /\ rx' = <<>> /\ open' = TRUE
  /\ cancelled' = FALSE /\ pc' = "select"
  /\ batch' = <<>> /\ entries' = <<>> /\ kept' = <<>> /\ confirmed' = 0
  /\ atCancel' = 0 /\ missed' = {}
  /\ awaited' = 0
  /\ UNCHANGED <<emitted, stored, lostReplies, handlers>>

\* Killed in any state and started again: everything in memory is lost, the
\* tailer's positions included, and the logs are read from their beginning.
Restart ==
  /\ restarts < MaxRestarts
  /\ restarts' = restarts + 1
  /\ emitted' = 0 /\ rx' = <<>> /\ open' = TRUE
  /\ cancelled' = FALSE /\ pc' = "select"
  /\ batch' = <<>> /\ entries' = <<>> /\ kept' = <<>> /\ confirmed' = 0
  /\ atCancel' = 0 /\ missed' = {}
  /\ awaited' = 0
  /\ UNCHANGED <<stored, lostReplies, handlers>>

Agent == SendLogs \/ NotSent \/ ConnectionLost \/ Restart
Hub == \E h \in handlers :
         \/ Refuse(h) \/ InsertLines(h) \/ InsertLost(h)
         \/ Acknowledge(h) \/ DropHandler(h)

NextForwarding == LoopStep \/ Agent \/ Hub

ForwardingSpec == InitForwarding /\ [][NextForwarding]_forwardingVars

\* Everything takes its turn, and a hub that is asked again and again for what its
\* table can take inserts a request and answers it at some point.
FairForwardingSpec ==
  /\ ForwardingSpec
  /\ WF_forwardingVars(TailerSend /\ LoopStep)
  /\ WF_forwardingVars(Loop /\ LoopStep)
  /\ SF_forwardingVars(SendLogs)
  /\ WF_forwardingVars(Hub)
  /\ SF_forwardingVars(\E h \in handlers : h.call = awaited /\ InsertLines(h))
  /\ SF_forwardingVars(\E h \in handlers : h.call = awaited /\ Acknowledge(h))

-----------------------------------------------------------------------------
(***************************************************************************)
(* Properties.                                                             *)
(***************************************************************************)

Times(n) == Cardinality({i \in 1 .. Len(stored) : stored[i] = n})

\* What the agent's loop dropped as confirmed is in the hub's table, except
\* for lines the hub rejects; a broken connection, a late insert or an
\* overtaken handler never makes the agent drop a valid line.
ConfirmedIsStored ==
  \A i \in 1 .. confirmed : kept[i] \in Invalid \/ kept[i] \in Range(stored)

\* A line is in the table once, and once more at most for every call whose
\* answer, or the result of its insert, was lost and every run of the agent that
\* was cut short (GrpcSink::insert_batch, send_logs).
RepeatsAreAccountedFor ==
  \A n \in Line : Times(n) <= 1 + lostReplies + restarts

\* A line the agent once turned into an entry reaches the table however often
\* the agent is killed on the way, as long as its last run is not stopped.
\* (A line the parser declines, or the tailer fails to read, in the last run
\* is not an entry of that run.)  Not so for what is in a batch that the hub will
\* never take, as it has outgrown a request or holds a line its table refuses.
EventuallyStored ==
  \A n \in Line \ Invalid :
    n \in Range(kept) ~> (n \in Range(stored) \/ cancelled \/ n \in missed
                           \/ (~open /\ n \notin Range(rx) \cup Range(kept)) \/ Stuck)
=============================================================================

------------------------------- MODULE DaemonRun -------------------------------
(***************************************************************************)
(* The inside of the daemon (src/daemon/run.rs): the batching loop of      *)
(* Scanner as a task, the tailer that feeds it, and the main task that     *)
(* waits for a signal.                                                     *)
(*                                                                         *)
(* daemon_loop keeps the tailer's channel only.  The FileTailer itself is  *)
(* a temporary of the statement that starts it, and dropping it cancels    *)
(* the tailing task, which notices after the initial read.  On a signal    *)
(* run_daemon cancels the batching loop and returns without waiting for    *)
(* it; the process ends and the loop with it, wherever it is.              *)
(***************************************************************************)
EXTENDS Scanner

CONSTANT Existing   \* lines that are in the logs when the daemon starts

ASSUME DaemonRunAssumption == Existing \in 0 .. MaxEvents

VARIABLE main   \* run_daemon: "waiting", "leaving" after a signal, "gone"

InitDaemon == Init /\ main = "waiting"

\* Faulty variant of TailingEnds: cancellation is noticed between two lines.
TailingEndsEarly == TailerEnds

\* The tailing loop sees the cancelled token; until it does it may still
\* handle events that are ready.
TailingEnds == emitted >= Existing /\ TailerEnds

\* The batching loop and the tailing task, while there is a process.
Task ==
  /\ main # "gone"
  /\ TailerSend \/ TailingEnds \/ Loop \/ Sink
  /\ UNCHANGED main

\* SIGINT or SIGTERM: cancel.cancel() ...
Signal == main = "waiting" /\ Stop /\ main' = "leaving"

\* ... remove_pid_file(), and the runtime is dropped with its tasks.
Leave == main = "leaving" /\ main' = "gone" /\ UNCHANGED vars

NextDaemon == Task \/ Signal \/ Leave

daemonVars == <<vars, main>>
DaemonSpec == InitDaemon /\ [][NextDaemon]_daemonVars

\* The tasks are scheduled, the initial read goes on and the database works
\* again at some point, for what it can take.
FairDaemonSpec ==
  /\ DaemonSpec
  /\ WF_daemonVars(TailerSend /\ emitted < Existing /\ main # "gone" /\ UNCHANGED main)
  /\ SF_daemonVars(TailingEnds /\ main # "gone" /\ UNCHANGED main)
  /\ WF_daemonVars(main # "gone" /\ (Loop \/ Sink) /\ UNCHANGED main)
  /\ SF_daemonVars(main # "gone" /\ FlushOk /\ UNCHANGED main)

-----------------------------------------------------------------------------
(* The daemon stores what the logs hold when it starts, although its tailing
   is cancelled from the first moment: a line of the initial read is read,
   and the entry made of it confirmed, unless a signal comes or the batch has
   become one that no INSERT can take: while inserts fail it grows beyond the
   parameters of a statement (log_entry_repo.rs:43-68), or holds a NUL. *)
InitialReadIsStored ==
  \A n \in 1 .. Existing :
    /\ <>(emitted >= n \/ cancelled)
    /\ (n \in Range(kept)) ~> (n \in {kept[i] : i \in 1 .. confirmed} \/ cancelled \/ Stuck)

-----------------------------------------------------------------------------
(* What the comments say and the code does not do.                         *)

(* "The tailing loop: initial read, then live events forever"
   (tailer/mod.rs:207): as long as the daemon runs, so does its tailing. *)
TailsForever == main = "waiting" => open
=============================================================================

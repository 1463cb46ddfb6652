----------------------------- MODULE DaemonProcess -----------------------------
(***************************************************************************)
(* The daemon as a process: its PID files, how the TUI starts it and how   *)
(* it ends (src/daemon/process.rs, src/daemon/run.rs, src/main.rs).        *)
(*                                                                         *)
(* A starter is a TUI: it reads the PID file, asks ps about the process it *)
(* names, starts the daemon if there is none, sleeps for half a second and *)
(* asks again.  A daemon connects to the database before it writes the     *)
(* file.  The starter never waits for its child, so a daemon that ends     *)
(* while its starter lives stays a zombie, and ps finds a zombie.          *)
(*                                                                         *)
(* Every one of these calls resolves the path anew, from the environment   *)
(* of its process and from what that process may write at that moment: a   *)
(* check, the write and the removal may each mean another file.  A check   *)
(* that cannot read the file, or cannot run ps, says there is no daemon.   *)
(***************************************************************************)
EXTENDS Integers, FiniteSets

CONSTANTS
  Pid,        \* process numbers
  Starter,    \* terminals a TUI runs in
  File,       \* the paths a call may resolve to
  Home,       \* the one it resolves to unless its environment differs
  None

ASSUME DaemonProcessAssumption == None \notin Pid \cup Starter /\ Home \in File

VARIABLES
  proc,      \* what runs under a number: "free", "loading", "running",
             \* "stopping" (a daemon), "zombie" or "other"
  parent,    \* the starter of a daemon, or None
  pidFile,   \* per path, the number in the file, or None
  pc,        \* the starter: "off", "read", "ps", "spawn", "sleep", "reread",
             \* "reps" or "tui"
  seen,      \* the number the starter read
  child,     \* the daemon the starter spawned
  overlap,   \* history: daemons that have run beside another one
  disturbed  \* history: a start was not left to itself, or was misled

vars == <<proc, parent, pidFile, pc, seen, child, overlap, disturbed>>

Daemon == {p \in Pid : proc[p] \in {"loading", "running", "stopping"}}

\* Those that have written the file.
Wrote == {p \in Daemon : proc[p] # "loading"}

\* The path of the environment, else the one under /run, else the one in the
\* temporary directory.
pid_file_path == File

Init ==
  /\ proc = [p \in Pid |-> "free"] /\ parent = [p \in Pid |-> None]
  /\ pidFile = [f \in File |-> None]
  /\ pc = [s \in Starter |-> "off"]
  /\ seen = [s \in Starter |-> None] /\ child = [s \in Starter |-> None]
  /\ overlap = {} /\ disturbed = FALSE

-----------------------------------------------------------------------------
(* ensure_daemon_running.                                                  *)

Goes(s, to) == pc' = [pc EXCEPT ![s] = to]

\* Starters that are between the first look at the file and their TUI.
Starting == {s \in Starter : pc[s] \notin {"off", "tui"}}

StartTui(s) ==
  /\ pc[s] = "off" /\ Goes(s, "read")
  /\ disturbed' = (disturbed \/ Starting # {})
  /\ UNCHANGED <<proc, parent, pidFile, seen, child, overlap>>

\* is_daemon_running: the file is read, if it can be ...
Reads(f) == {pidFile[f], None}

ReadFile(s) ==
  /\ \E f \in pid_file_path : \E p \in Reads(f) :
       /\ seen' = [seen EXCEPT ![s] = p]
       /\ \/ /\ pc[s] = "read" /\ Goes(s, "ps")
             /\ disturbed' = (disturbed \/ f # Home \/ p # pidFile[f])
          \/ pc[s] = "reread" /\ Goes(s, "reps") /\ UNCHANGED disturbed
  /\ UNCHANGED <<proc, parent, pidFile, child, overlap>>

\* ... and ps, if it runs, asked about the number in it.
Alive(p) == p # None /\ proc[p] # "free"

Answers(p) == {Alive(p), FALSE}

\* Faulty variant of FirstCheck: asks about the starter's own child only.
FirstCheckOwnChild(s) ==
  /\ pc[s] = "ps"
  /\ Goes(s, IF Alive(child[s]) THEN "tui" ELSE "spawn")
  /\ UNCHANGED <<proc, parent, pidFile, seen, child, overlap, disturbed>>

FirstCheck(s) ==
  /\ pc[s] = "ps"
  /\ \E found \in Answers(seen[s]) :
       /\ Goes(s, IF found THEN "tui" ELSE "spawn")
       /\ disturbed' = (disturbed \/ found # Alive(seen[s]))
  /\ UNCHANGED <<proc, parent, pidFile, seen, child, overlap>>

\* A new process p, started by s or by hand.
Starts(p, s) ==
  /\ proc[p] = "free"
  /\ proc' = [proc EXCEPT ![p] = "loading"]
  /\ parent' = [parent EXCEPT ![p] = s]

Spawn(s) ==
  /\ pc[s] = "spawn" /\ Goes(s, "sleep")
  /\ \E p \in Pid : Starts(p, s) /\ child' = [child EXCEPT ![s] = p]
  /\ UNCHANGED <<pidFile, seen, overlap, disturbed>>

\* The sleep is over, whether the child has written the file or not.
Wake(s) ==
  /\ pc[s] = "sleep" /\ Goes(s, "reread")
  /\ disturbed' = (disturbed \/ proc[child[s]] = "loading")
  /\ UNCHANGED <<proc, parent, pidFile, seen, child, overlap>>

\* The starter's process ends: its zombies are reaped, its children orphaned.
Leaves(s) ==
  /\ proc' = [p \in Pid |-> IF parent[p] = s /\ proc[p] = "zombie" THEN "free" ELSE proc[p]]
  /\ parent' = [p \in Pid |-> IF parent[p] = s THEN None ELSE parent[p]]
  /\ child' = [child EXCEPT ![s] = None] /\ seen' = [seen EXCEPT ![s] = None]

\* A daemon that is not found goes on without its starter.
SecondCheck(s) ==
  /\ pc[s] = "reps"
  /\ \/ TRUE \in Answers(seen[s]) /\ Goes(s, "tui") /\ UNCHANGED <<proc, parent, seen, child>>
     \/ FALSE \in Answers(seen[s]) /\ Goes(s, "off") /\ Leaves(s)
  /\ UNCHANGED <<pidFile, overlap, disturbed>>

\* The executable cannot be found or started.
SpawnFails(s) ==
  /\ pc[s] = "spawn" /\ Goes(s, "off") /\ Leaves(s)
  /\ UNCHANGED <<pidFile, overlap, disturbed>>

\* The TUI is quit, or interrupted before it is up.
EndTui(s) ==
  /\ pc[s] # "off"
  /\ Goes(s, "off") /\ Leaves(s)
  /\ disturbed' = (disturbed \/ s \in Starting)
  /\ UNCHANGED <<pidFile, overlap>>

-----------------------------------------------------------------------------
(* run_daemon.                                                             *)

StartByHand ==
  /\ \E p \in Pid : Starts(p, None)
  /\ disturbed' = TRUE
  /\ UNCHANGED <<pidFile, pc, seen, child, overlap>>

\* p ends: a zombie while its starter lives, else free.
Ends(p) ==
  /\ proc' = [proc EXCEPT ![p] = IF parent[p] = None THEN "free" ELSE "zombie"]
  /\ overlap' = overlap \ {p}
  /\ UNCHANGED <<parent, pc, seen, child, disturbed>>

\* Faulty variant of WritePid: a file that is already there is kept.
WritePidIfAbsent(p) ==
  /\ proc[p] = "loading" /\ proc' = [proc EXCEPT ![p] = "running"]
  /\ \E f \in pid_file_path :
       /\ pidFile' = IF pidFile[f] = None THEN [pidFile EXCEPT ![f] = p] ELSE pidFile
       /\ disturbed' = (disturbed \/ f # Home)
  /\ overlap' = IF Wrote = {} THEN overlap ELSE overlap \cup Wrote \cup {p}
  /\ UNCHANGED <<parent, pc, seen, child>>

\* write_pid_file.
WritePid(p) ==
  /\ proc[p] = "loading" /\ proc' = [proc EXCEPT ![p] = "running"]
  /\ \E f \in pid_file_path :
       /\ pidFile' = [pidFile EXCEPT ![f] = p]
       /\ disturbed' = (disturbed \/ f # Home)
  /\ overlap' = IF Wrote = {} THEN overlap ELSE overlap \cup Wrote \cup {p}
  /\ UNCHANGED <<parent, pc, seen, child>>

\* The write fails, after the file has been cut to nothing, and run_daemon with
\* it: one that ran beside it is named no more.
WriteFails(p) ==
  /\ proc[p] = "loading"
  /\ \E f \in pid_file_path : pidFile' = [pidFile EXCEPT ![f] = None]
  /\ proc' = [proc EXCEPT ![p] = IF parent[p] = None THEN "free" ELSE "zombie"]
  /\ overlap' = overlap \cup Wrote
  /\ UNCHANGED <<parent, pc, seen, child, disturbed>>

\* A signal, or the end of the daemon's task.
BeginStop(p) ==
  /\ proc[p] = "running" /\ proc' = [proc EXCEPT ![p] = "stopping"]
  /\ UNCHANGED <<parent, pidFile, pc, seen, child, overlap, disturbed>>

\* remove_pid_file, whatever the file says, and the end of the process.
RemovePid(p) ==
  /\ proc[p] = "stopping" /\ Ends(p)
  /\ \E f \in pid_file_path : pidFile' = [pidFile EXCEPT ![f] = None]

\* No database, killed, or a file that cannot be opened or removed: the files
\* stay as they are.
Dies(p) ==
  /\ proc[p] \in {"loading", "running", "stopping"}
  /\ Ends(p) /\ UNCHANGED pidFile

\* Other processes take and leave free numbers.
OtherProcess(p) ==
  /\ \/ proc[p] = "free" /\ proc' = [proc EXCEPT ![p] = "other"]
     \/ proc[p] = "other" /\ proc' = [proc EXCEPT ![p] = "free"]
  /\ UNCHANGED <<parent, pidFile, pc, seen, child, overlap, disturbed>>

Next ==
  \/ \E s \in Starter :
       \/ StartTui(s) \/ ReadFile(s) \/ FirstCheck(s) \/ Spawn(s)
       \/ SpawnFails(s) \/ Wake(s) \/ SecondCheck(s) \/ EndTui(s)
  \/ StartByHand
  \/ \E p \in Pid :
       \/ WritePid(p) \/ WriteFails(p) \/ BeginStop(p) \/ RemovePid(p) \/ Dies(p)
       \/ OtherProcess(p)

Spec == Init /\ [][Next]_vars

-----------------------------------------------------------------------------
(* However daemons crash, stop, become zombies and leave stale files, however
   writes, removals and second checks fail, and however numbers are used again,
   there are never two as long as each start is left to itself and not misled:
   one starter at a time, not interrupted, a daemon that writes its file within
   the sleep, none started by hand, a first check that can read the file and run
   ps, and one path for the first checks and the writes (ensure_daemon_running,
   pid_file_path). *)
AtMostOneDaemon == ~disturbed => Cardinality(Daemon) <= 1

(* A daemon that runs is named by a file unless another daemon ran at the same
   time, whichever path each call resolves to: neither a stale file nor the
   shutdown of an earlier daemon hides it (write_pid_file, remove_pid_file). *)
FileNamesDaemon ==
  \A p \in Pid : proc[p] = "running" => (\E f \in File : pidFile[f] = p) \/ p \in overlap
=============================================================================

-------------------------- MODULE DaemonProcessProofs --------------------------
(***************************************************************************)
(* Theorems about DaemonProcess, for every set of process numbers, of       *)
(* starters and of paths a PID file may have.                              *)
(***************************************************************************)
EXTENDS FiniteSetTheorems, DaemonProcess, TLAPS

USE DEF pid_file_path

ProcState == {"free", "loading", "running", "stopping", "zombie", "other"}

ProcType ==
  /\ proc \in [Pid -> ProcState]
  /\ parent \in [Pid -> Starter \cup {None}]
  /\ pc \in [Starter -> {"off", "read", "ps", "spawn", "sleep", "reread", "reps", "tui"}]
  /\ seen \in [Starter -> Pid \cup {None}]
  /\ child \in [Starter -> Pid \cup {None}]
  /\ pidFile \in [File -> Pid \cup {None}]
  /\ disturbed \in BOOLEAN

LEMMA ProcTypeInit == Init => ProcType
BY DEF Init, ProcType, ProcState

LEMMA ProcTypeNext == ProcType /\ [Next]_vars => ProcType'
<1> SUFFICES ASSUME ProcType, [Next]_vars PROVE ProcType'
  OBVIOUS
<1> USE DEF ProcType, ProcState
<1>1. ASSUME NEW s \in Starter, StartTui(s) PROVE ProcType'
  BY <1>1 DEF StartTui, Goes, Starting
<1>2. ASSUME NEW s \in Starter, ReadFile(s) PROVE ProcType'
  BY <1>2 DEF ReadFile, Reads, Goes
<1>3. ASSUME NEW s \in Starter, FirstCheck(s) PROVE ProcType'
  BY <1>3 DEF FirstCheck, Answers, Alive, Goes
<1>4. ASSUME NEW s \in Starter, Spawn(s) PROVE ProcType'
  BY <1>4 DEF Spawn, Goes, Starts
<1>5. ASSUME NEW s \in Starter, Wake(s) PROVE ProcType'
  BY <1>5 DEF Wake, Goes
<1>6. ASSUME NEW s \in Starter, SecondCheck(s) \/ SpawnFails(s) PROVE ProcType'
  <2>1. CASE Goes(s, "tui") /\ UNCHANGED <<proc, parent, pidFile, seen, child, disturbed>>
    BY <2>1 DEF Goes
  <2>2. CASE Goes(s, "off") /\ Leaves(s) /\ UNCHANGED <<pidFile, disturbed>>
    BY <2>2 DEF Goes, Leaves
  <2> QED
    BY <1>6, <2>1, <2>2 DEF SecondCheck, SpawnFails
<1>7. ASSUME NEW s \in Starter, EndTui(s) PROVE ProcType'
  BY <1>7 DEF EndTui, Goes, Leaves, Starting
<1>8. CASE StartByHand
  BY <1>8 DEF StartByHand, Starts
<1>9. ASSUME NEW p \in Pid, WritePid(p) \/ WriteFails(p) PROVE ProcType'
  BY <1>9 DEF WritePid, WriteFails
<1>10. ASSUME NEW p \in Pid, BeginStop(p) PROVE ProcType'
  BY <1>10 DEF BeginStop
<1>11. ASSUME NEW p \in Pid, RemovePid(p) \/ Dies(p) PROVE ProcType'
  BY <1>11 DEF RemovePid, Dies, Ends
<1>12. ASSUME NEW p \in Pid, OtherProcess(p) PROVE ProcType'
  BY <1>12 DEF OtherProcess
<1>13. CASE UNCHANGED vars
  BY <1>13 DEF vars
<1> QED
  BY <1>1, <1>2, <1>3, <1>4, <1>5, <1>6, <1>7, <1>8, <1>9, <1>10, <1>11, <1>12, <1>13
  DEF Next

LEMMA ProcTypeInvariant == Spec => []ProcType
BY ProcTypeInit, ProcTypeNext, PTL DEF Spec

-----------------------------------------------------------------------------
(* The files.  A daemon's shutdown removes whatever file it resolves to, so  *)
(* that a file is missing needs that the two have overlapped.                *)

\* Two daemons that have written the file at the same time are both marked.
OverlapMarked == \A p, q \in Wrote : p # q => p \in overlap

FileInv == OverlapMarked /\ FileNamesDaemon

\* A step after which no other process than before has written the file.
LEMMA FileKept ==
  ASSUME FileInv, pidFile' = pidFile, overlap' = overlap,
         \A p \in Pid : proc'[p] # proc[p] => proc'[p] \notin {"running", "stopping"}
  PROVE  FileInv'
<1>1. Wrote' \subseteq Wrote
  BY DEF Wrote, Daemon
<1>2. \A p \in Pid : proc'[p] = "running" => proc[p] = "running"
  OBVIOUS
<1> QED
  BY <1>1, <1>2 DEF FileInv, OverlapMarked, FileNamesDaemon

LEMMA FileNext == FileInv /\ ProcType /\ [Next]_vars => FileInv'
<1> SUFFICES ASSUME FileInv, ProcType, [Next]_vars PROVE FileInv'
  OBVIOUS
<1>1. CASE \E s \in Starter : StartTui(s) \/ ReadFile(s) \/ FirstCheck(s) \/ Wake(s)
  BY <1>1, FileKept DEF StartTui, ReadFile, FirstCheck, Wake
<1>2. CASE (\E s \in Starter : Spawn(s)) \/ StartByHand
  <2>1. PICK p \in Pid : proc' = [proc EXCEPT ![p] = "loading"]
    BY <1>2 DEF Spawn, StartByHand, Starts
  <2>2. pidFile' = pidFile /\ overlap' = overlap
    BY <1>2 DEF Spawn, StartByHand
  <2>3. \A q \in Pid : proc'[q] # proc[q] => proc'[q] \notin {"running", "stopping"}
    BY <2>1 DEF ProcType
  <2> QED
    BY <2>2, <2>3, FileKept
<1>3. CASE \E s \in Starter : SecondCheck(s) \/ SpawnFails(s) \/ EndTui(s)
  <2>1. pidFile' = pidFile /\ overlap' = overlap
    BY <1>3 DEF SecondCheck, SpawnFails, EndTui
  <2>2. \A p \in Pid : proc'[p] # proc[p] => proc'[p] \notin {"running", "stopping"}
    BY <1>3 DEF SecondCheck, SpawnFails, EndTui, Leaves
  <2> QED
    BY <2>1, <2>2, FileKept
<1>4. ASSUME NEW p \in Pid, WritePid(p) PROVE FileInv'
  <2>1. /\ proc' = [proc EXCEPT ![p] = "running"]
        /\ proc[p] = "loading" /\ p \notin Wrote
        /\ overlap' = IF Wrote = {} THEN overlap ELSE overlap \cup Wrote \cup {p}
    BY <1>4 DEF WritePid, Wrote
  <2>6. \E f \in File : pidFile'[f] = p
    BY <1>4 DEF WritePid, ProcType
  <2>2. Wrote' = Wrote \cup {p}
    BY <2>1 DEF Wrote, Daemon, ProcType
  <2>3. Wrote # {} => Wrote' \subseteq overlap'
    BY <2>1, <2>2
  <2>4. OverlapMarked'
    BY <2>2, <2>3 DEF OverlapMarked
  <2>5. ASSUME NEW q \in Pid, proc'[q] = "running", q # p PROVE q \in overlap'
    <3>1. q \in Wrote
      BY <2>1, <2>5 DEF ProcType, Wrote, Daemon
    <3> QED
      BY <2>2, <2>3, <3>1
  <2> QED
    BY <2>4, <2>5, <2>6 DEF FileInv, FileNamesDaemon
<1>9. ASSUME NEW p \in Pid, WriteFails(p) PROVE FileInv'
  <2>1. /\ \E gone \in {"free", "zombie"} : proc' = [proc EXCEPT ![p] = gone]
        /\ proc[p] = "loading" /\ overlap' = overlap \cup Wrote
    BY <1>9 DEF WriteFails
  <2>2. Wrote' = Wrote
    BY <2>1 DEF Wrote, Daemon, ProcType
  <2>3. \A q \in Pid : proc'[q] = "running" => q \in Wrote
    BY <2>1 DEF Wrote, Daemon, ProcType
  <2> QED
    BY <2>1, <2>2, <2>3 DEF FileInv, OverlapMarked, FileNamesDaemon
<1>5. ASSUME NEW p \in Pid, BeginStop(p) PROVE FileInv'
  <2>1. /\ proc' = [proc EXCEPT ![p] = "stopping"] /\ proc[p] = "running"
        /\ UNCHANGED <<pidFile, overlap>>
    BY <1>5 DEF BeginStop
  <2>2. Wrote' = Wrote
    BY <2>1 DEF Wrote, Daemon, ProcType
  <2> QED
    BY <2>1, <2>2 DEF FileInv, OverlapMarked, FileNamesDaemon, ProcType
<1>6. ASSUME NEW p \in Pid, RemovePid(p) \/ Dies(p) PROVE FileInv'
  <2>1. /\ \E gone \in {"free", "zombie"} : proc' = [proc EXCEPT ![p] = gone]
        /\ overlap' = overlap \ {p}
        /\ pidFile' = pidFile \/ p \in Wrote
    BY <1>6 DEF RemovePid, Dies, Ends, Wrote, Daemon
  <2>2. Wrote' = Wrote \ {p}
    BY <2>1 DEF Wrote, Daemon, ProcType
  <2>3. OverlapMarked'
    BY <2>1, <2>2 DEF FileInv, OverlapMarked
  <2>4. ASSUME NEW q \in Pid, proc'[q] = "running"
        PROVE  (\E f \in File : pidFile'[f] = q) \/ q \in overlap'
    <3>1. q # p /\ proc[q] = "running" /\ q \in Wrote
      BY <2>1, <2>4 DEF ProcType, Wrote, Daemon
    <3> QED
      BY <2>1, <3>1 DEF FileInv, OverlapMarked, FileNamesDaemon
  <2> QED
    BY <2>3, <2>4 DEF FileInv, FileNamesDaemon
<1>7. ASSUME NEW p \in Pid, OtherProcess(p) PROVE FileInv'
  <2>1. pidFile' = pidFile /\ overlap' = overlap
    BY <1>7 DEF OtherProcess
  <2>2. \A q \in Pid : proc'[q] # proc[q] => proc'[q] \notin {"running", "stopping"}
    BY <1>7 DEF OtherProcess, ProcType
  <2> QED
    BY <2>1, <2>2, FileKept
<1>8. CASE UNCHANGED vars
  BY <1>8, FileKept DEF vars
<1> QED
  BY <1>1, <1>2, <1>3, <1>4, <1>5, <1>6, <1>7, <1>8, <1>9 DEF Next

\* A daemon that runs is named by a file, unless another one ran beside it,
\* whatever starts, ends and uses numbers again, and whichever path each call
\* resolves to (FileNamesDaemon).
THEOREM RunningDaemonIsNamed == Spec => []FileNamesDaemon
<1>1. Init => FileInv
  BY DEF Init, FileInv, OverlapMarked, FileNamesDaemon, Wrote, Daemon
<1>2. FileInv => FileNamesDaemon
  BY DEF FileInv
<1> QED
  BY <1>1, <1>2, ProcTypeInvariant, FileNext, PTL DEF Spec

-----------------------------------------------------------------------------
(* One daemon.  That a starter finds it needs that the file at Home names    *)
(* it, and that no daemon is about to write the file, while a starter looks. *)

Alone ==
  /\ \A s, t \in Starting : s = t
  /\ \A p, q \in Daemon : p = q
  /\ \A p \in Wrote : pidFile[Home] = p
  /\ \A p \in Daemon : proc[p] = "loading" =>
       \E s \in Starter : pc[s] = "sleep" /\ child[s] = p
  /\ \A s \in Starter : pc[s] = "ps" => \A p \in Daemon : seen[s] = p
  /\ \A s \in Starter : pc[s] = "spawn" => Daemon = {}

AloneInv == ~disturbed => Alone

\* A step that ends a daemon, or none, and moves no starter.
LEMMA AloneEnds ==
  ASSUME Alone, ProcType, NEW p \in Pid, proc[p] \in {"loading", "running", "stopping"},
         NEW gone \in {"free", "zombie"}, proc' = [proc EXCEPT ![p] = gone],
         UNCHANGED <<pc, seen, child>>
  PROVE  Alone'
<1>1. Daemon' = {}
  BY DEF Daemon, ProcType, Alone
<1>2. Starting' = Starting
  BY DEF Starting
<1> QED
  BY <1>1, <1>2 DEF Alone, Wrote

\* A step of others: the daemons and what names them stay as they are.
LEMMA AloneStays ==
  ASSUME Alone, Daemon' = Daemon, \A p \in Daemon : proc'[p] = proc[p],
         UNCHANGED <<pidFile, pc, seen, child>>
  PROVE  Alone'
<1>1. Starting' = Starting /\ Wrote' = Wrote
  BY DEF Starting, Wrote
<1> QED
  BY <1>1 DEF Alone

\* A step of starter s, to a place other than "ps", "spawn" and "sleep", after
\* which it is the only one that starts, or none does.
LEMMA AloneMoves ==
  ASSUME Alone, ProcType, NEW s \in Starter, Daemon' = Daemon,
         \A p \in Daemon : proc'[p] = proc[p], pidFile' = pidFile,
         \A t \in Starter : t # s =>
           pc'[t] = pc[t] /\ seen'[t] = seen[t] /\ child'[t] = child[t],
         pc'[s] \notin {"ps", "spawn", "sleep"},
         pc'[s] \in {"off", "tui"} \/ Starting \subseteq {s},
         \A p \in Daemon : pc[s] = "sleep" => proc[p] # "loading"
  PROVE  Alone'
<1>1. Starting' \subseteq Starting \cup {s} /\ Wrote' = Wrote
  BY DEF Starting, Wrote
<1>2. \A t, u \in Starting' : t = u
  BY <1>1 DEF Alone, Starting
<1>3. ASSUME NEW p \in Daemon', proc'[p] = "loading"
      PROVE  \E t \in Starter : pc'[t] = "sleep" /\ child'[t] = p
  BY <1>3 DEF Alone
<1>4. \A t \in Starter : pc'[t] = "ps" => \A p \in Daemon' : seen'[t] = p
  BY DEF Alone
<1>5. \A t \in Starter : pc'[t] = "spawn" => Daemon' = {}
  BY DEF Alone
<1> QED
  BY <1>1, <1>2, <1>3, <1>4, <1>5 DEF Alone

LEMMA AloneNext == AloneInv /\ ProcType /\ [Next]_vars => AloneInv'
<1> SUFFICES ASSUME AloneInv, ProcType, [Next]_vars, ~disturbed' PROVE Alone'
  BY DEF AloneInv
<1>0. ~disturbed /\ Alone
  <2>1. disturbed => disturbed'
    BY DEF Next, StartTui, ReadFile, FirstCheck, Spawn, SpawnFails, Wake, SecondCheck,
           EndTui, StartByHand, WritePid, WriteFails, BeginStop, RemovePid, Dies, Ends,
           OtherProcess, vars, ProcType
  <2> QED
    BY <2>1 DEF AloneInv
<1>1. ASSUME NEW s \in Starter, StartTui(s) PROVE Alone'
  <2>1. /\ pc' = [pc EXCEPT ![s] = "read"] /\ pc[s] = "off" /\ Starting = {}
        /\ UNCHANGED <<proc, pidFile, seen, child>>
    BY <1>1 DEF StartTui, Goes
  <2>2. Daemon' = Daemon
    BY <2>1 DEF Daemon
  <2> QED
    BY <1>0, <2>1, <2>2, AloneMoves DEF ProcType
<1>2. ASSUME NEW s \in Starter, ReadFile(s), pc[s] = "read" PROVE Alone'
  <2>1. /\ pc' = [pc EXCEPT ![s] = "ps"] /\ seen' = [seen EXCEPT ![s] = pidFile[Home]]
        /\ UNCHANGED <<proc, pidFile, child>>
    BY <1>2 DEF ReadFile, Goes
  <2>2. Daemon' = Daemon /\ Wrote' = Wrote /\ Starting' = Starting /\ s \in Starting
    BY <1>2, <2>1 DEF Daemon, Wrote, Starting, ProcType
  <2>3. \A p \in Daemon : proc[p] # "loading"
    <3>1. \A t \in Starter : pc[t] # "sleep"
      BY <1>0, <1>2, <2>2 DEF Alone, Starting
    <3> QED
      BY <1>0, <3>1 DEF Alone
  <2>4. \A p \in Daemon : pidFile[Home] = p
    BY <1>0, <2>3 DEF Alone, Wrote
  <2>5. \A t \in Starter : pc'[t] = "ps" => \A p \in Daemon' : seen'[t] = p
    BY <1>0, <2>1, <2>2, <2>4 DEF Alone, ProcType
  <2>6. \A t \in Starter : pc'[t] = "spawn" => Daemon' = {}
    BY <1>0, <2>1, <2>2 DEF Alone, ProcType
  <2> QED
    BY <1>0, <2>1, <2>2, <2>3, <2>5, <2>6 DEF Alone
<1>3. ASSUME NEW s \in Starter, ReadFile(s), pc[s] = "reread" PROVE Alone'
  <2>1. /\ pc' = [pc EXCEPT ![s] = "reps"]
        /\ \E p \in Pid \cup {None} : seen' = [seen EXCEPT ![s] = p]
        /\ UNCHANGED <<proc, pidFile, child>>
    BY <1>3 DEF ReadFile, Reads, Goes, ProcType
  <2>2. Daemon' = Daemon /\ s \in Starting
    BY <1>3, <2>1 DEF Daemon, Starting
  <2>3. Starting \subseteq {s}
    BY <1>0, <2>2 DEF Alone
  <2> QED
    BY <1>0, <1>3, <2>1, <2>2, <2>3, AloneMoves DEF ProcType
<1>4. ASSUME NEW s \in Starter, FirstCheck(s) PROVE Alone'
  <2>1. /\ pc' = [pc EXCEPT ![s] = IF Alive(seen[s]) THEN "tui" ELSE "spawn"]
        /\ pc[s] = "ps" /\ UNCHANGED <<proc, pidFile, seen, child>>
    BY <1>4 DEF FirstCheck, Goes
  <2>2. Daemon' = Daemon
    BY <2>1 DEF Daemon
  <2>3. CASE Alive(seen[s])
    BY <1>0, <2>1, <2>2, <2>3, AloneMoves DEF ProcType
  <2>4. CASE ~Alive(seen[s])
    <3>1. Daemon = {}
      <4> SUFFICES ASSUME NEW p \in Daemon PROVE FALSE
        OBVIOUS
      <4>1. seen[s] = p /\ p \in Pid /\ proc[p] # "free"
        BY <1>0, <2>1 DEF Alone, Daemon
      <4>2. p # None
        BY <4>1, DaemonProcessAssumption DEF DaemonProcessAssumption
      <4> QED
        BY <2>4, <4>1, <4>2 DEF Alive
    <3>2. Wrote' = {} /\ Daemon' = {}
      BY <2>2, <3>1 DEF Wrote
    <3>3. Starting' = Starting
      BY <2>1, <2>4 DEF Starting, ProcType
    <3> QED
      BY <1>0, <3>2, <3>3 DEF Alone
  <2> QED
    BY <2>3, <2>4
<1>5. ASSUME NEW s \in Starter, Spawn(s) PROVE Alone'
  <2>1. PICK p \in Pid : proc' = [proc EXCEPT ![p] = "loading"]
                           /\ child' = [child EXCEPT ![s] = p]
    BY <1>5 DEF Spawn, Starts
  <2>2. /\ pc' = [pc EXCEPT ![s] = "sleep"] /\ pc[s] = "spawn"
        /\ UNCHANGED <<pidFile, seen>>
    BY <1>5 DEF Spawn, Goes
  <2>3. Daemon = {} /\ Daemon' = {p} /\ Wrote' = {}
    BY <1>0, <2>1, <2>2 DEF Alone, Daemon, Wrote, ProcType
  <2>4. Starting' = Starting /\ s \in Starting
    BY <2>2 DEF Starting, ProcType
  <2>5. \A t \in Starter : pc'[t] \notin {"ps", "spawn"}
    BY <1>0, <2>2, <2>4 DEF Alone, Starting, ProcType
  <2>6. pc'[s] = "sleep" /\ child'[s] = p
    BY <2>1, <2>2 DEF ProcType
  <2> QED
    BY <1>0, <2>3, <2>4, <2>5, <2>6 DEF Alone
<1>6. ASSUME NEW s \in Starter, Wake(s) PROVE Alone'
  <2>1. /\ pc' = [pc EXCEPT ![s] = "reread"] /\ pc[s] = "sleep"
        /\ proc[child[s]] # "loading" /\ UNCHANGED <<proc, pidFile, seen, child>>
    BY <1>6 DEF Wake, Goes
  <2>2. Daemon' = Daemon /\ s \in Starting
    BY <2>1 DEF Daemon, Starting
  <2>3. Starting \subseteq {s}
    BY <1>0, <2>2 DEF Alone
  <2>4. \A p \in Daemon : proc[p] # "loading"
    <3>1. \A t \in Starter : pc[t] = "sleep" => t = s
      BY <2>3 DEF Starting
    <3> QED
      BY <1>0, <2>1, <3>1 DEF Alone
  <2> QED
    BY <1>0, <2>1, <2>2, <2>3, <2>4, AloneMoves DEF ProcType
<1>7. ASSUME NEW s \in Starter, SecondCheck(s) \/ SpawnFails(s) \/ EndTui(s) PROVE Alone'
  <2>1. /\ \E to \in {"off", "tui"} : pc' = [pc EXCEPT ![s] = to]
        /\ pc[s] # "off" /\ pidFile' = pidFile /\ pc[s] # "sleep"
    BY <1>7 DEF SecondCheck, SpawnFails, EndTui, Goes, Starting
  <2>2. /\ \A p \in Pid : proc'[p] = proc[p] \/ (proc[p] = "zombie" /\ proc'[p] = "free")
        /\ \A t \in Starter : t # s => seen'[t] = seen[t] /\ child'[t] = child[t]
    BY <1>7 DEF SecondCheck, SpawnFails, EndTui, Leaves, ProcType
  <2>3. Daemon' = Daemon /\ \A p \in Daemon : proc'[p] = proc[p]
    BY <2>2 DEF Daemon
  <2> QED
    BY <1>0, <2>1, <2>2, <2>3, AloneMoves DEF ProcType
<1>8. CASE StartByHand
  BY <1>8 DEF StartByHand
<1>9. ASSUME NEW p \in Pid, WritePid(p) PROVE Alone'
  <2>1. /\ proc' = [proc EXCEPT ![p] = "running"] /\ p \in Daemon
        /\ pidFile' = [pidFile EXCEPT ![Home] = p] /\ UNCHANGED <<pc, seen, child>>
    BY <1>9 DEF WritePid, Daemon
  <2>2. Daemon' = {p} /\ Daemon = {p} /\ Wrote' \subseteq {p} /\ Starting' = Starting
    BY <1>0, <2>1 DEF Alone, Daemon, Wrote, Starting, ProcType
  <2>3. proc'[p] # "loading"
    BY <2>1 DEF ProcType
  <2> QED
    BY <1>0, <2>1, <2>2, <2>3, DaemonProcessAssumption DEF Alone, ProcType
<1>10. ASSUME NEW p \in Pid, BeginStop(p) PROVE Alone'
  <2>1. /\ proc' = [proc EXCEPT ![p] = "stopping"] /\ proc[p] = "running"
        /\ UNCHANGED <<pidFile, pc, seen, child>>
    BY <1>10 DEF BeginStop
  <2>2. Daemon' = Daemon /\ Wrote' = Wrote /\ Starting' = Starting
    BY <2>1 DEF Daemon, Wrote, Starting, ProcType
  <2>3. \A q \in Daemon : proc'[q] = "loading" => proc[q] = "loading"
    BY <2>1 DEF ProcType, Daemon
  <2> QED
    BY <1>0, <2>1, <2>2, <2>3 DEF Alone
<1>11. ASSUME NEW p \in Pid, RemovePid(p) \/ WriteFails(p) \/ Dies(p) PROVE Alone'
  <2>1. /\ \E gone \in {"free", "zombie"} : proc' = [proc EXCEPT ![p] = gone]
        /\ proc[p] \in {"loading", "running", "stopping"}
        /\ UNCHANGED <<pc, seen, child>>
    BY <1>11 DEF RemovePid, WriteFails, Dies, Ends
  <2> QED
    BY <1>0, <2>1, AloneEnds
<1>12. ASSUME NEW p \in Pid, OtherProcess(p) PROVE Alone'
  <2>1. Daemon' = Daemon /\ \A q \in Daemon : proc'[q] = proc[q]
    BY <1>12 DEF OtherProcess, Daemon, ProcType
  <2> QED
    BY <1>0, <1>12, <2>1, AloneStays DEF OtherProcess
<1>13. CASE UNCHANGED vars
  <2>1. Daemon' = Daemon /\ \A q \in Daemon : proc'[q] = proc[q]
    BY <1>13 DEF Daemon, vars
  <2> QED
    BY <1>0, <1>13, <2>1, AloneStays DEF vars
<1>14. ASSUME NEW s \in Starter, ReadFile(s) PROVE Alone'
  BY <1>2, <1>3, <1>14 DEF ReadFile
<1> QED
  BY <1>1, <1>4, <1>5, <1>6, <1>7, <1>8, <1>9, <1>10, <1>11, <1>12, <1>13, <1>14
  DEF Next

\* Starts that are left to themselves and not misled never give two daemons
\* (AtMostOneDaemon).
THEOREM OneDaemonAtATime == Spec => []AtMostOneDaemon
<1>1. Init => AloneInv
  BY DEF Init, AloneInv, Alone, Starting, Daemon, Wrote
<1>2. AloneInv => AtMostOneDaemon
  <2> SUFFICES ASSUME Alone PROVE Cardinality(Daemon) <= 1
    BY DEF AloneInv, AtMostOneDaemon
  <2>1. CASE Daemon = {}
    BY <2>1, FS_EmptySet
  <2>2. CASE Daemon # {}
    <3>1. PICK p : Daemon = {p}
      BY <2>2 DEF Alone
    <3>2. Cardinality({p}) = 1
      BY FS_Singleton
    <3> QED
      BY <3>1, <3>2
  <2> QED
    BY <2>1, <2>2
<1> QED
  BY <1>1, <1>2, ProcTypeInvariant, AloneNext, PTL DEF Spec
=============================================================================

-------------------------------- MODULE Tailer --------------------------------
(***************************************************************************)
(* The file tailer (src/log_scanner/tailer/).                              *)
(*                                                                         *)
(* A watcher thread puts file-system events into a bounded queue and drops *)
(* an event the queue has no room for.  One task reads what the files      *)
(* already hold and then handles the events one by one: data was appended, *)
(* a file was created, removed, or renamed by a log rotation.  Per path it *)
(* keeps the byte offset to resume from.  The writer of a log goes on in   *)
(* between, so an event is handled against a file that has changed since.  *)
(*                                                                         *)
(* A file is a sequence of cells: the number of a line, once per byte of   *)
(* its text, or the bytes of its line end, NL or CR NL.  Lines are         *)
(* numbered in the order they are written and are one or two bytes long.   *)
(* Any read may fail: no permission, or bytes that are not UTF-8.          *)
(***************************************************************************)
EXTENDS Naturals, Sequences, FiniteSets, SequencesExt, Lists

CONSTANTS
  Path,         \* names of the logs
  Explicit,     \* those listed as files; the others match a watched directory
  MaxLines,     \* bound: lines written
  MaxChanges,   \* bound: files created, removed, renamed or truncated
  MaxErrors,    \* bound: watcher errors, failing reads and a stop; at 0 nothing
                \* fails or ends the task
  QueueCap,     \* events that wait between the watcher and the task
  Absent        \* in place of the cells of a file that does not exist

ASSUME TailerAssumption ==
  /\ Explicit \subseteq Path
  /\ {MaxLines, MaxChanges, MaxErrors} \subseteq Nat
  /\ QueueCap \in Nat \ {0}
  /\ Absent \notin Seq(Nat)

NL == 0
CR == MaxLines + 1        \* no line's number
NoPos == 8 * MaxLines + 1 \* beyond any offset: no entry

VARIABLES
  file,       \* the cells of each file, or Absent
  written,    \* lines begun so far
  changes, errors,  \* counters for the bounds
  happened,     \* history: kinds of changes so far: "replace" for a file created,
                \* renamed or removed, "truncate", "half" for a line written in
                \* two parts, "crlf" for one ended by CR NL, "drop" for an event
                \* the queue had no room for
  unread,       \* history: files whose last read failed
  watched,    \* paths the watcher still reports on
  events,     \* the queue
  phase,      \* "start", "loop", "adopt" (inside a create event), "dead"
  todo,       \* paths the initial read has not come to
  adopting,   \* the path of the create event being handled
  tailed,     \* tailed_files
  pos,        \* positions, NoPos where there is none
  out         \* pieces sent as lines, in order

environment == <<written, changes, happened>>
faults == <<errors, unread>>
vars == <<file, environment, faults, watched, events, phase, todo,
          adopting, tailed, pos, out>>

\* The text of line n.
Text(n) == [i \in 1 .. 1 + (n % 2) |-> n]
Incomplete(p) == file[p] \notin {Absent, <<>>} /\ Last(file[p]) # NL

(***************************************************************************)
(* str::lines() on the bytes from an offset to the end of the file.        *)
(***************************************************************************)

From(cells, offset) == SubSeq(cells, offset + 1, Len(cells))

\* Where a line begins, and where the one that begins at s ends: at its newline
\* or behind the last byte.
Starts(cells) == {s \in 1 .. Len(cells) : s = 1 \/ cells[s - 1] = NL}
End(cells, s) ==
  CHOOSE e \in s .. Len(cells) + 1 :
    /\ e = Len(cells) + 1 \/ cells[e] = NL
    /\ \A i \in s .. e - 1 : cells[i] # NL

\* The carriage returns in front of a newline: part of the line end.
Returns(cells) == {i \in 1 .. Len(cells) - 1 : cells[i] = CR /\ cells[i + 1] = NL}
TextEnd(cells, s) ==
  LET e == End(cells, s) IN IF e - 1 \in Returns(cells) THEN e - 2 ELSE e - 1

\* Faulty variant: split at the newlines, as BufRead::read_line would.
PiecesKeepReturn(cells) ==
  LET first == Ascending(Starts(cells))
  IN  [i \in 1 .. Cardinality(Starts(cells)) |->
         SubSeq(cells, first[i], End(cells, first[i]) - 1)]

Pieces(cells) ==
  LET first == Ascending(Starts(cells))
  IN  [i \in 1 .. Cardinality(Starts(cells)) |->
         SubSeq(cells, first[i], TextEnd(cells, first[i]))]

\* Faulty variant: the newline is not counted.
AdvanceByText(cells) == Cardinality({i \in 1 .. Len(cells) : cells[i] # NL})

\* Every piece counts its bytes and one for the line end: one too many where it
\* is not there, one too few where it is CR NL.
Advance(cells) ==
  (IF cells # <<>> /\ Last(cells) # NL THEN Len(cells) + 1 ELSE Len(cells))
    - Cardinality(Returns(cells))

-----------------------------------------------------------------------------
Init ==
  /\ \E existing \in SUBSET Path :
       /\ file = [p \in Path |-> IF p \in existing THEN <<>> ELSE Absent]
       /\ watched = (Path \ Explicit) \cup existing
  /\ written = 0 /\ changes = 0 /\ errors = 0 /\ happened = {} /\ unread = {}
  /\ events = <<>>
  /\ phase = "start" /\ todo = Path
  /\ adopting = {}
  /\ tailed = Explicit
  /\ pos = [p \in Path |-> NoPos]
  /\ out = <<>>

(***************************************************************************)
(* The file system and the watcher.                                        *)
(***************************************************************************)

\* Faulty variant of Notify: one waiting event is taken to stand for all.
NotifyCoalescing(kind, p, marks) ==
  /\ happened' = happened \cup marks
  /\ IF p \in watched /\ events = <<>>
       THEN events' = Append(events, [kind |-> kind, path |-> p])
       ELSE UNCHANGED events

\* ChannelHandler::handle_event, a try_send: a full queue drops the event.
Notify(kind, p, marks) ==
  LET fits == Len(events) < QueueCap IN
  /\ happened' = happened \cup marks \cup (IF p \in watched /\ ~fits THEN {"drop"} ELSE {})
  /\ events' = IF p \in watched /\ fits
                 THEN Append(events, [kind |-> kind, path |-> p]) ELSE events

taskVars == <<phase, todo, adopting, tailed, pos, out>>

\* The text and its line end are appended.
Complete(p, text) ==
  \/ /\ file' = [file EXCEPT ![p] = @ \o Append(text, NL)]
     /\ Notify("modify", p, {})
  \/ /\ file' = [file EXCEPT ![p] = @ \o Append(Append(text, CR), NL)]
     /\ Notify("modify", p, {"crlf"})

\* A whole line, or the first byte of one, is appended.
BeginLine(p) ==
  /\ file[p] # Absent /\ ~Incomplete(p)
  /\ written < MaxLines
  /\ written' = written + 1
  /\ \/ Complete(p, Text(written'))
     \/ /\ file' = [file EXCEPT ![p] = Append(@, written')]
        /\ Notify("modify", p, {"half"})
  /\ UNCHANGED <<changes, faults, watched, taskVars>>

\* The rest of the line.
EndLine(p) ==
  /\ file[p] # Absent /\ Incomplete(p)
  /\ Complete(p, Tail(Text(Last(file[p]))))
  /\ UNCHANGED <<written, changes, faults, watched, taskVars>>

Change ==
  /\ changes < MaxChanges
  /\ changes' = changes + 1
  /\ UNCHANGED <<written, faults, taskVars>>

\* A directory reports a new file; the watch on an explicit file is bound to
\* the file it was placed on.
CreateFile(p) ==
  /\ Change
  /\ file[p] = Absent
  /\ file' = [file EXCEPT ![p] = <<>>]
  /\ Notify("create", p, {"replace"})
  /\ UNCHANGED watched

\* Renamed to a rotated name: the event carries the new name (and the old).
RenameFile(p) ==
  /\ Change
  /\ file[p] # Absent
  /\ file' = [file EXCEPT ![p] = Absent]
  /\ Notify("rename", p, {"replace"})
  /\ watched' = watched \ ({p} \cap Explicit)

RemoveFile(p) ==
  /\ Change
  /\ file[p] # Absent
  /\ file' = [file EXCEPT ![p] = Absent]
  /\ Notify("remove", p, {"replace"})
  /\ watched' = watched \ ({p} \cap Explicit)

Truncate(p) ==
  /\ Change
  /\ file[p] \notin {Absent, <<>>}
  /\ file' = [file EXCEPT ![p] = <<>>]
  /\ Notify("modify", p, {"truncate"})
  /\ UNCHANGED watched

WatchError ==
  /\ errors < MaxErrors
  /\ Len(events) < QueueCap
  /\ errors' = errors + 1
  /\ events' = Append(events, [kind |-> "error"])
  /\ UNCHANGED <<file, environment, unread, watched, taskVars>>

(***************************************************************************)
(* The task.                                                               *)
(***************************************************************************)

\* Faulty variant: the position stays where the read began.
ReadFromStays(p, offset) ==
  /\ out' = out \o Pieces(From(file[p], offset))
  /\ pos' = [pos EXCEPT ![p] = offset]
  /\ unread' = unread \ {p}
  /\ UNCHANGED errors

\* Emit every line from the offset on and resume behind them.
ReadFrom(p, offset) ==
  LET cells == From(file[p], offset) IN
  /\ out' = out \o Pieces(cells)
  /\ pos' = [pos EXCEPT ![p] = offset + Advance(cells)]
  /\ unread' = unread \ {p}
  /\ UNCHANGED errors

\* The file cannot be read: nothing is sent, and the position is what it was.
ReadFails(p) ==
  /\ errors < MaxErrors
  /\ errors' = errors + 1
  /\ unread' = unread \cup {p}
  /\ UNCHANGED <<pos, out>>

Read(p, offset) == ReadFrom(p, offset) \/ ReadFails(p)

\* Initial read: the explicit files, then the matching files of a directory.  A
\* file that could not be read is tailed without a position.
ReadExisting(p) ==
  /\ phase = "start"
  /\ p \in todo
  /\ p \in Explicit \/ todo \cap Explicit = {}
  /\ todo' = todo \ {p}
  /\ IF file[p] = Absent
       THEN UNCHANGED <<tailed, pos, out, faults>>
       ELSE tailed' = tailed \cup {p} /\ Read(p, 0)
  /\ phase' = IF todo' = {} THEN "loop" ELSE "start"
  /\ UNCHANGED <<file, environment, watched, events, adopting>>

\* The directory cannot be listed, or not to its end: the files it has not come
\* to are not tailed.
ListingFails ==
  /\ phase = "start"
  /\ todo # {} /\ todo \cap Explicit = {}
  /\ errors < MaxErrors
  /\ errors' = errors + 1
  /\ todo' = {}
  /\ phase' = "loop"
  /\ UNCHANGED <<file, environment, unread, watched, events, adopting, tailed, pos, out>>

\* handle_event begins: the next event, of this kind, for a path p.
Handles(kind, p) ==
  /\ phase = "loop"
  /\ events # <<>>
  /\ Head(events).kind = kind
  /\ kind # "error" => Head(events).path = p
  /\ events' = Tail(events)
  /\ UNCHANGED <<file, environment, watched, todo>>

\* Data was modified: read on from the recorded position, if there is one.
HandleModify(p) ==
  /\ Handles("modify", p)
  /\ IF file[p] # Absent /\ p \in tailed /\ pos[p] # NoPos
       THEN Read(p, pos[p])
       ELSE UNCHANGED <<pos, out, faults>>
  /\ UNCHANGED <<phase, adopting, tailed>>

\* A file was created: adopt it, from its beginning, and wait for it to
\* stabilise before it is read.
HandleCreate(p) ==
  /\ Handles("create", p)
  /\ IF file[p] # Absent
       THEN /\ tailed' = tailed \cup {p}
            /\ pos' = [pos EXCEPT ![p] = 0]
            /\ phase' = "adopt"
            /\ adopting' = {p}
       ELSE UNCHANGED <<tailed, pos, phase, adopting>>
  /\ UNCHANGED <<out, faults>>

\* Faulty variant: follows the new file from its end.
ReadAdoptedAtEnd(p) ==
  /\ phase = "adopt"
  /\ p \in adopting
  /\ pos' = [pos EXCEPT ![p] = IF file[p] # Absent THEN Len(file[p]) ELSE @]
  /\ phase' = "loop"
  /\ adopting' = {}
  /\ UNCHANGED <<file, environment, faults, watched, events, todo, tailed, out>>

\* wait_for_file_stability is over; a file that is gone again is not read.
ReadAdopted(p) ==
  /\ phase = "adopt"
  /\ p \in adopting
  /\ IF file[p] # Absent THEN Read(p, 0) ELSE UNCHANGED <<pos, out, faults>>
  /\ phase' = "loop"
  /\ adopting' = {}
  /\ UNCHANGED <<file, environment, watched, events, todo, tailed>>

\* A file was removed: nothing is done for a path that is not a file.
HandleRemove(p) ==
  /\ Handles("remove", p)
  /\ IF file[p] # Absent
       THEN tailed' = tailed \ {p} /\ pos' = [pos EXCEPT ![p] = NoPos]
       ELSE UNCHANGED <<tailed, pos>>
  /\ UNCHANGED <<phase, adopting, out, faults>>

\* A file was renamed: what is forgotten is the state of the rotated name,
\* and none is ever kept for one.
HandleRename(p) ==
  /\ Handles("rename", p)
  /\ UNCHANGED <<phase, adopting, tailed, pos, out, faults>>

\* An error from the watcher ends the task, and so does stop().
HandleError ==
  /\ \E p \in Path : Handles("error", p)
  /\ phase' = "dead"
  /\ UNCHANGED <<adopting, tailed, pos, out, faults>>

StopTailer ==
  /\ phase = "loop"
  /\ errors < MaxErrors
  /\ errors' = errors + 1
  /\ phase' = "dead"
  /\ UNCHANGED <<file, environment, unread, watched, events, todo, adopting,
                 tailed, pos, out>>

Task ==
  \/ \E p \in Path : \/ ReadExisting(p) \/ HandleModify(p) \/ HandleCreate(p)
                     \/ ReadAdopted(p) \/ HandleRemove(p) \/ HandleRename(p)
  \/ HandleError \/ ListingFails

Environment ==
  \/ \E p \in Path : \/ BeginLine(p) \/ EndLine(p) \/ CreateFile(p)
                     \/ RenameFile(p) \/ RemoveFile(p) \/ Truncate(p)
  \/ WatchError \/ StopTailer

Next == Task \/ Environment

Spec == Init /\ [][Next]_vars

\* The task is scheduled as long as it has something to do.
FairSpec == Spec /\ WF_vars(Task)

-----------------------------------------------------------------------------
(***************************************************************************)
(* Properties.                                                             *)
(***************************************************************************)

TypeOK ==
  /\ \A p \in Path : file[p] = Absent \/ file[p] \in Seq(0 .. CR)
  /\ watched \subseteq Path /\ tailed \subseteq Path /\ todo \subseteq Path
  /\ unread \subseteq Path
  /\ Len(events) <= QueueCap
  /\ phase \in {"start", "loop", "adopt", "dead"}
  /\ phase = "adopt" <=> adopting # {}
  /\ \A p \in Path : pos[p] \in 0 .. NoPos
  /\ \A i \in 1 .. Len(out) : out[i] \in Seq(1 .. MaxLines)

Emitted(n) == {i \in 1 .. Len(out) : out[i] = Text(n)}
LinesIn(p) ==
  IF file[p] = Absent THEN {}
  ELSE {n \in 1 .. MaxLines : \E i \in 1 .. Len(file[p]) : file[p][i] = n}

\* Lines appended whole and ended by a bare newline are sent whole, once each,
\* and in the order written to their file, however the initial read and the
\* events interleave, whatever reads fail and whatever events the full queue
\* drops (mod.rs:90).  With CR NL it does not hold: str::lines() strips both,
\* one is counted (state.rs:52, 139), and what the offset falls behind by is
\* sent again.
EmittedOnceInOrder ==
  happened \subseteq {"drop"} =>
    /\ \A i \in 1 .. Len(out) : \E n \in 1 .. MaxLines : out[i] = Text(n)
    /\ \A n \in 1 .. MaxLines : Cardinality(Emitted(n)) <= 1
    /\ \A p \in Path : \A i, j \in 1 .. Len(out) :
         i < j /\ {out[i][1], out[j][1]} \subseteq LinesIn(p) => out[i][1] < out[j][1]

\* An event was dropped, or the file changed in a way the position does not
\* follow: it shrank, or a line was read before its newline was written.
OutOfStep == happened \cap {"drop", "truncate", "half"} # {}

\* When the task has handled every event, each complete line of each file it
\* tails and the watcher reports on has been sent, unless the last read of that
\* very file failed: the recorded position never runs ahead of what was read
\* from the file that is there now, with either line end, after rotations, after
\* a failing read that a later one makes good, and when an event comes long
\* after the change it reports (state.rs:123-167).
CaughtUp ==
  phase = "loop" /\ events = <<>> /\ ~OutOfStep =>
    \A p \in (tailed \cap watched) \ unread : file[p] # Absent =>
      \A n \in LinesIn(p) : Emitted(n) # {}

\* The bytes of the line n in what was sent, by piece and place.
SentBytes(n) ==
  {b \in (1 .. Len(out)) \X (1 .. 2) : b[2] <= Len(out[b[1]]) /\ out[b[1]][b[2]] = n}

\* No byte of a line ended by a bare newline is sent twice, even when the line is
\* read in two halves, a read fails or the file shrinks: the offset counts the
\* newline each line ends with (state.rs:52, 139).  With CR NL it is one short
\* for each line of a read, and bytes are sent again.  A file that is created
\* while the task starts is read by the initial read and again when its event
\* is handled.
NoByteTwice ==
  happened \subseteq {"drop", "half", "truncate"} =>
    \A n \in 1 .. MaxLines : Cardinality(SentBytes(n)) <= Len(Text(n))

\* A complete line of a tailed log that the watcher reports on is sent sooner or
\* later, unless the task ends, the file is renamed or removed first, or a read
\* of the file that holds it fails, which nothing retries (state.rs:93-97,
\* 163-166, mod.rs:211-215, 232-237); changes may overtake the events that
\* report them.
Followed ==
  \A n \in 1 .. MaxLines :
    (\E p \in tailed : n \in LinesIn(p) /\ ~Incomplete(p))
      ~> \/ Emitted(n) # {} \/ phase = "dead" \/ OutOfStep
         \/ \A p \in watched \ unread : n \notin LinesIn(p)
=============================================================================

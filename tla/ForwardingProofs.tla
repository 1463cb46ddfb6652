--------------------------- MODULE ForwardingProofs ---------------------------
(***************************************************************************)
(* Theorems about Scanner and AgentForwarding, for every threshold, every  *)
(* capacity, limit and set of lines the hub rejects, and every number of   *)
(* events, lines, lost answers and restarts.  What is proved of the loop   *)
(* alone (Held) holds in every run of the agent; the rest is about the     *)
(* handlers of the hub.                                                    *)
(***************************************************************************)
EXTENDS ListProofs, AgentForwarding

-----------------------------------------------------------------------------
(* The batching loop.                                                      *)

LEMMA TypeInit == Init => TypeOK
<1>1. <<>> \in Seq(Line) /\ <<>> \in Seq(TailEvent)
  BY EmptySeq
<1>2. 0 \in 0 .. MaxEvents
  BY ScannerAssumption DEF ScannerAssumption
<1> SUFFICES ASSUME Init PROVE TypeOK
  OBVIOUS
<1>3. open \in BOOLEAN /\ cancelled \in BOOLEAN
  BY Zenon DEF Init
<1> QED
  BY <1>1, <1>2, <1>3, SMT DEF Init, TypeOK

\* The pipeline makes entries of lines only.
LEMMA ProcessedType ==
  ASSUME NEW event \in TailEvent, NEW new \in Processed(event)
  PROVE  new \in Seq(Line)
<1>1. CASE new = <<>>
  BY <1>1
<1>2. CASE event # ReadError /\ new = <<event>>
  <2>1. event \in Line
    BY <1>2 DEF TailEvent
  <2> QED
    BY <1>2, <2>1
<1> QED
  BY <1>1, <1>2 DEF Processed

LEMMA TypeNext == TypeOK /\ [Next]_vars => TypeOK'
<1> SUFFICES ASSUME TypeOK, [Next]_vars PROVE TypeOK'
  OBVIOUS
<1> USE ScannerAssumption DEF TypeOK
<1> <<>> \in Seq(Line)
  BY EmptySeq
<1>1. CASE TailerSend
  <2>1. emitted + 1 \in Line
    BY <1>1 DEF TailerSend, Line
  <2>2. PICK event \in {emitted + 1, ReadError} : rx' = Append(rx, event)
    BY <1>1 DEF TailerSend
  <2>3. rx' \in Seq(TailEvent)
    BY <2>1, <2>2 DEF TailEvent
  <2>4. emitted' \in 0 .. MaxEvents
    BY <1>1 DEF TailerSend
  <2> QED
    BY <1>1, <2>3, <2>4 DEF TailerSend
<1>2. CASE TailerEnds
  BY <1>2 DEF TailerEnds
<1>3. CASE Stop
  BY <1>3 DEF Stop
<1>4. CASE Receive
  <2>1. Head(rx) \in TailEvent /\ Tail(rx) \in Seq(TailEvent)
    BY <1>4 DEF Receive
  <2>2. PICK new \in Processed(Head(rx)) :
          /\ kept' = kept \o new
          /\ IF Len(batch \o new) >= BatchSize
               THEN BeginFlush(batch \o new, "flush")
               ELSE batch' = batch \o new /\ UNCHANGED <<pc, entries>>
    BY <1>4 DEF Receive
  <2>3. new \in Seq(Line)
    BY <2>1, <2>2, ProcessedType
  <2>4. kept' \in Seq(Line) /\ batch \o new \in Seq(Line)
    BY <2>2, <2>3
  <2>5. batch' \in Seq(Line) /\ entries' \in Seq(Line)
    BY <2>2, <2>4 DEF BeginFlush
  <2>6. pc' \in {"select", "flush", "final", "stopped"}
    BY <2>2 DEF BeginFlush
  <2> QED
    BY <1>4, <2>1, <2>4, <2>5, <2>6 DEF Receive
<1>5. CASE Cancelled
  BY <1>5 DEF Cancelled, BeginFlush
<1>6. CASE Tick
  BY <1>6 DEF Tick, BeginFlush
<1>7. CASE FlushOk
  BY <1>7 DEF FlushOk, Confirm, AfterFlush
<1>8. CASE FlushErr
  BY <1>8 DEF FlushErr, PutBack, AfterFlush
<1>9. CASE FlushErrStored
  BY <1>9 DEF FlushErrStored, PutBack, AfterFlush
<1>10. CASE UNCHANGED vars
  BY <1>10 DEF vars
<1> QED
  BY <1>1, <1>2, <1>3, <1>4, <1>5, <1>6, <1>7, <1>8, <1>9, <1>10
  DEF Next, Loop, Sink

\* Every variable keeps its type: in particular only numbers of lines, never
\* a read error, get into the batch and the sink (scanner.rs:159-167).
THEOREM TypeCorrect == Spec => []TypeOK
BY TypeInit, TypeNext, PTL DEF Spec

-----------------------------------------------------------------------------
(***************************************************************************)
(* The inductive invariant of delivery.                                    *)
(***************************************************************************)

\* What is said of the agent alone, and holds with any sink.
Held ==
  /\ TypeOK
  /\ FlushShape
  /\ NothingForgotten

Delivered ==
  /\ Held
  /\ StoredWithoutGap
  /\ RepeatedOnlyByLostReply

KeptUpTo(n) == {kept[i] : i \in 1 .. n}

\* What is left of a sequence behind its first c elements.
LEMMA SuffixProperties ==
  ASSUME NEW S, NEW s \in Seq(S), NEW c \in 0 .. Len(s)
  PROVE  /\ SubSeq(s, c + 1, Len(s)) \in Seq(S)
         /\ Len(SubSeq(s, c + 1, Len(s))) = Len(s) - c
         /\ \A i \in 1 .. Len(s) - c : SubSeq(s, c + 1, Len(s))[i] = s[c + i]
<1>1. Len(s) \in Nat
  BY LenProperties
<1>2. \A i \in c + 1 .. Len(s) : s[i] \in S
  BY <1>1, ElementOfSeq
<1>3. /\ SubSeq(s, c + 1, Len(s)) \in Seq(S)
      /\ Len(SubSeq(s, c + 1, Len(s)))
           = IF c + 1 <= Len(s) THEN Len(s) - (c + 1) + 1 ELSE 0
      /\ \A i \in 1 .. Len(s) - (c + 1) + 1 :
           SubSeq(s, c + 1, Len(s))[i] = s[(c + 1) + i - 1]
  BY <1>1, <1>2, SubSeqProperties
<1>4. ASSUME NEW i \in 1 .. Len(s) - c PROVE (c + 1) + i - 1 = c + i
  BY <1>1
<1> QED
  BY <1>1, <1>3, <1>4

\* Appending to a sequence appends to each of its suffixes and leaves its
\* prefixes alone.
LEMMA SuffixOfConcat ==
  ASSUME NEW S, NEW s \in Seq(S), NEW t \in Seq(S), NEW c \in 0 .. Len(s)
  PROVE  /\ SubSeq(s, c + 1, Len(s)) \o t = SubSeq(s \o t, c + 1, Len(s \o t))
         /\ SubSeq(s \o t, 1, c) = SubSeq(s, 1, c)
<1> DEFINE u == s \o t
           w == SubSeq(s, c + 1, Len(s))
           a == w \o t
           b == SubSeq(u, c + 1, Len(u))
<1>1. /\ Len(s) \in Nat /\ Len(t) \in Nat
      /\ u \in Seq(S) /\ Len(u) = Len(s) + Len(t)
      /\ \A i \in 1 .. Len(u) : u[i] = IF i <= Len(s) THEN s[i] ELSE t[i - Len(s)]
  BY ConcatProperties, LenProperties
<1> HIDE DEF u
<1>2. /\ w \in Seq(S)
      /\ Len(w) = Len(s) - c
      /\ \A i \in 1 .. Len(s) - c : w[i] = s[c + i]
  BY SuffixProperties
<1> HIDE DEF w
<1>3. /\ a \in Seq(S) /\ Len(a) = Len(u) - c
      /\ \A i \in 1 .. Len(u) - c :
           a[i] = IF i <= Len(s) - c THEN s[c + i] ELSE t[i - (Len(s) - c)]
  <2>1. /\ a \in Seq(S) /\ Len(a) = Len(w) + Len(t)
        /\ \A i \in 1 .. Len(w) + Len(t) :
             a[i] = IF i <= Len(w) THEN w[i] ELSE t[i - Len(w)]
    BY <1>2, ConcatProperties
  <2>2. Len(w) + Len(t) = Len(u) - c
    BY <1>1, <1>2
  <2> HIDE DEF a
  <2>3. ASSUME NEW i \in 1 .. Len(u) - c
        PROVE  a[i] = IF i <= Len(s) - c THEN s[c + i] ELSE t[i - (Len(s) - c)]
    <3>1. PICK n : n = Len(s) - c
      OBVIOUS
    <3>2. n \in Nat /\ i \in 1 .. Len(w) + Len(t)
      BY <1>1, <2>2, <3>1
    <3>3. a[i] = IF i <= n THEN w[i] ELSE t[i - n]
      BY <1>2, <2>1, <3>1, <3>2
    <3>4. i <= n => w[i] = s[c + i]
      BY <1>2, <3>1, <3>2
    <3> QED
      BY <3>1, <3>3, <3>4
  <2> QED
    BY <2>1, <2>2, <2>3
<1>4. /\ b \in Seq(S) /\ Len(b) = Len(u) - c
      /\ \A i \in 1 .. Len(u) - c : b[i] = u[c + i]
  <2>1. c \in 0 .. Len(u)
    BY <1>1
  <2> QED
    BY <1>1, <2>1, SuffixProperties
<1> HIDE DEF a, b
<1>5. ASSUME NEW i \in 1 .. Len(u) - c PROVE a[i] = b[i]
  <2>1. PICK j : j = c + i
    OBVIOUS
  <2>2. PICK n : n = Len(s) - c
    OBVIOUS
  <2>3. /\ j \in 1 .. Len(u)
        /\ j - Len(s) = i - n
        /\ j <= Len(s) <=> i <= n
    BY <1>1, <2>1, <2>2
  <2>4. a[i] = IF i <= n THEN s[j] ELSE t[i - n]
    BY <1>3, <2>1, <2>2
  <2>5. b[i] = u[j]
    BY <1>4, <2>1
  <2>6. u[j] = IF j <= Len(s) THEN s[j] ELSE t[j - Len(s)]
    BY <1>1, <2>3
  <2>7. CASE i <= n
    BY <2>3, <2>4, <2>5, <2>6, <2>7
  <2>8. CASE ~(i <= n)
    BY <2>3, <2>4, <2>5, <2>6, <2>8
  <2> QED
    BY <2>7, <2>8
<1>6. a = b
  BY <1>3, <1>4, <1>5, SeqEqual
<1>7. SubSeq(u, 1, c) = SubSeq(s, 1, c)
  <2>1. CASE c = 0
    BY <2>1, SubSeqEmpty
  <2>2. CASE c # 0
    BY <1>1, <2>2, SubSeqOfConcat1 DEF u
  <2> QED
    BY <2>1, <2>2
<1> QED
  BY <1>6, <1>7 DEF a, b, u, w

\* A flush that is under way holds the whole unconfirmed suffix.
LEMMA InFlight ==
  ASSUME Held, pc \in {"flush", "final"}
  PROVE  /\ entries = SubSeq(kept, confirmed + 1, Len(kept))
         /\ Len(entries) = Len(kept) - confirmed
         /\ \A i \in 1 .. Len(entries) : entries[i] = kept[confirmed + i]
<1> USE DEF Held, TypeOK
<1>1. batch = <<>> /\ entries \o batch = entries
  BY ConcatEmptySeq DEF FlushShape
<1>2. entries = SubSeq(kept, confirmed + 1, Len(kept))
  BY <1>1 DEF NothingForgotten, Pending
<1>3. /\ Len(kept) \in Nat /\ confirmed <= Len(kept)
      /\ \A i \in 1 .. Len(kept) : kept[i] \in Line
  BY LenProperties, ElementOfSeq DEF NothingForgotten
<1> QED
  BY <1>2, <1>3, SubSeqProperties

\* Whether its answer arrives or not, a flush that reaches the sink leaves
\* there everything the pipeline has produced.
LEMMA StoredByFlush ==
  ASSUME Delivered, pc \in {"flush", "final"}
  PROVE  Range(stored \o entries) = KeptUpTo(Len(kept))
<1> USE DEF Delivered, Held, TypeOK
<1>1. /\ Len(entries) = Len(kept) - confirmed
      /\ \A i \in 1 .. Len(entries) : entries[i] = kept[confirmed + i]
  BY InFlight
<1>2. PICK n \in confirmed .. Len(kept) : Range(stored) = KeptUpTo(n)
  BY DEF StoredWithoutGap, KeptUpTo
<1>3. Range(stored \o entries) = Range(stored) \cup Range(entries)
  BY RangeConcatenation
<1>4. Len(kept) \in Nat /\ confirmed <= Len(kept)
  BY LenProperties DEF NothingForgotten
<1>5. Range(entries)
        = {kept[i] : i \in confirmed + 1 .. Len(kept)}
  <2>1. ASSUME NEW i \in 1 .. Len(entries)
        PROVE  entries[i] \in {kept[j] : j \in confirmed + 1 .. Len(kept)}
    BY <1>1, <1>4
  <2>2. ASSUME NEW j \in confirmed + 1 .. Len(kept)
        PROVE  kept[j] \in {entries[i] : i \in 1 .. Len(entries)}
    <3>1. j - confirmed \in 1 .. Len(entries) /\ confirmed + (j - confirmed) = j
      BY <1>1, <1>4
    <3>2. entries[j - confirmed] = kept[confirmed + (j - confirmed)]
      BY <1>1, <3>1
    <3> QED
      BY <3>1, <3>2
  <2>3. Range(entries) = {entries[i] : i \in 1 .. Len(entries)}
    BY RangeEquality
  <2> QED
    BY <2>1, <2>2, <2>3
<1>6. KeptUpTo(n) \cup {kept[i] : i \in confirmed + 1 .. Len(kept)}
        = KeptUpTo(Len(kept))
  BY <1>4 DEF KeptUpTo
<1> QED
  BY <1>2, <1>3, <1>5, <1>6

LEMMA HeldInit == Init => Held
<1> SUFFICES ASSUME Init PROVE Held
  OBVIOUS
<1>1. TypeOK
  BY TypeInit
<1>2. <<>> \in Seq(Line) /\ Len(<<>>) = 0 /\ <<>> \o <<>> = <<>>
  BY EmptySeq, ConcatEmptySeq
<1>3. SubSeq(<<>>, 1, 0) = <<>>
  BY SubSeqEmpty
<1>4. FlushShape
  BY DEF Init, FlushShape
<1>5. NothingForgotten
  BY <1>2, <1>3 DEF Init, NothingForgotten, Pending
<1> QED
  BY <1>1, <1>4, <1>5 DEF Held

\* Receiving leaves what was kept and confirmed where it is.
LEMMA ReceiveKeeps ==
  ASSUME Held, Receive
  PROVE  /\ Held'
         /\ UNCHANGED <<stored, confirmed, lostReplies>>
         /\ Len(kept') \in Nat /\ Len(kept') >= Len(kept)
         /\ \A i \in 1 .. Len(kept) : kept'[i] = kept[i]
         /\ SubSeq(kept', 1, confirmed) = SubSeq(kept, 1, confirmed)
<1> USE DEF Held
<1>t. TypeOK'
  BY TypeNext DEF Next, Loop
<1>l. Len(kept) \in Nat /\ confirmed \in 0 .. Len(kept)
  BY LenProperties DEF TypeOK, NothingForgotten
<1>e. <<>> \in Seq(Line) /\ \A s \in Seq(Line) : s \o <<>> = s /\ <<>> \o s = s
  BY EmptySeq, ConcatEmptySeq
<1>1. PICK new \in Processed(Head(rx)) :
        /\ kept' = kept \o new
        /\ IF Len(batch \o new) >= BatchSize
             THEN BeginFlush(batch \o new, "flush")
             ELSE batch' = batch \o new /\ UNCHANGED <<pc, entries>>
  BY DEF Receive
<1>2. new \in Seq(Line)
  BY <1>1, ProcessedType DEF Receive, TypeOK
<1>3. pc = "select" /\ entries = <<>>
  BY DEF Receive, FlushShape
<1>4. batch \o new \in Seq(Line)
  BY <1>2 DEF TypeOK
<1>5. Pending' = batch \o new
  BY <1>e, <1>1, <1>3, <1>4 DEF Pending, BeginFlush
<1>6. FlushShape'
  BY <1>1, <1>3 DEF Receive, FlushShape, BeginFlush
<1>7. /\ batch = SubSeq(kept, confirmed + 1, Len(kept))
      /\ UNCHANGED <<stored, confirmed, lostReplies>>
  BY <1>e, <1>3 DEF Receive, NothingForgotten, Pending, TypeOK
<1>8. /\ batch \o new = SubSeq(kept \o new, confirmed + 1, Len(kept \o new))
      /\ SubSeq(kept \o new, 1, confirmed) = SubSeq(kept, 1, confirmed)
  BY <1>l, <1>2, <1>7, SuffixOfConcat DEF TypeOK
<1>9. /\ Len(kept') >= Len(kept) /\ Len(kept') \in Nat
      /\ \A i \in 1 .. Len(kept) : kept'[i] = kept[i]
  BY <1>l, <1>1, <1>2, ConcatProperties, LenProperties DEF TypeOK
<1>10. NothingForgotten'
  <2>1. confirmed' <= Len(kept')
    BY <1>l, <1>7, <1>9
  <2>2. Pending' = SubSeq(kept', confirmed' + 1, Len(kept'))
    BY <1>1, <1>5, <1>7, <1>8
  <2> QED
    BY <2>1, <2>2 DEF NothingForgotten
<1> QED
  BY <1>t, <1>1, <1>6, <1>7, <1>8, <1>9, <1>10

\* So do the other steps of the loop, the tailer and the canceller.
LEMMA OthersKeep ==
  ASSUME Held, TailerSend \/ TailerEnds \/ Stop \/ Cancelled \/ Tick
  PROVE  /\ Held'
         /\ UNCHANGED <<kept, stored, confirmed, lostReplies>>
<1> USE DEF Held
<1>t. TypeOK'
  BY TypeNext DEF Next, Loop
<1>e. \A s \in Seq(Line) : s \o <<>> = s /\ <<>> \o s = s
  BY ConcatEmptySeq
<1>1. CASE TailerSend \/ TailerEnds \/ Stop
  <2>1. /\ UNCHANGED <<pc, batch, entries, kept, stored, confirmed, lostReplies>>
        /\ cancelled => cancelled'
        /\ atCancel' <= emitted'
    BY <1>1 DEF TailerSend, TailerEnds, Stop, FlushShape, TypeOK
  <2> QED
    BY <1>t, <2>1 DEF FlushShape, NothingForgotten, Pending
<1>2. CASE Cancelled \/ Tick
  <2>1. /\ pc = "select" /\ entries = <<>>
        /\ UNCHANGED <<emitted, cancelled, kept, stored, confirmed, atCancel, lostReplies>>
    BY <1>2 DEF Cancelled, Tick, FlushShape
  <2>2. Pending' = Pending
    BY <1>2, <1>e, <2>1 DEF Cancelled, Tick, BeginFlush, Pending, TypeOK
  <2>3. FlushShape'
    BY <1>2, <2>1 DEF Cancelled, Tick, BeginFlush, FlushShape
  <2> QED
    BY <1>t, <2>1, <2>2, <2>3 DEF NothingForgotten
<1> QED
  BY <1>1, <1>2

\* The two ways a flush ends: everything produced is confirmed, or the batch is
\* what it was before the flush.
LEMMA ConfirmKeeps ==
  ASSUME Held, Confirm, TypeOK'
  PROVE  Held' /\ confirmed' = Len(kept) /\ Len(kept) \in Nat /\ kept' = kept
<1> USE DEF Held
<1>l. Len(kept) \in Nat /\ confirmed \in 0 .. Len(kept)
  BY LenProperties DEF TypeOK, NothingForgotten
<1>1. /\ pc \in {"flush", "final"} /\ batch = <<>>
      /\ confirmed' = confirmed + Len(entries)
      /\ entries' = <<>> /\ pc' = AfterFlush
      /\ UNCHANGED <<emitted, cancelled, batch, kept, atCancel>>
  BY DEF Confirm, FlushShape
<1>2. Len(entries) = Len(kept) - confirmed
  BY <1>1, InFlight
<1>3. confirmed' = Len(kept)
  BY <1>l, <1>1, <1>2
<1>4. FlushShape'
  BY <1>1 DEF FlushShape, AfterFlush
<1>5. NothingForgotten'
  <2>1. SubSeq(kept, Len(kept) + 1, Len(kept)) = <<>>
    BY <1>l, SubSeqEmpty
  <2>2. Pending' = <<>>
    BY <1>1, EmptySeq, ConcatEmptySeq DEF Pending
  <2> QED
    BY <1>l, <1>1, <1>3, <2>1, <2>2 DEF NothingForgotten
<1> QED
  BY <1>l, <1>1, <1>3, <1>4, <1>5

LEMMA PutBackKeeps ==
  ASSUME Held, PutBack, TypeOK'
  PROVE  Held' /\ UNCHANGED <<kept, confirmed>>
<1> USE DEF Held
<1>1. /\ pc \in {"flush", "final"} /\ batch = <<>>
      /\ batch' = entries /\ entries' = <<>> /\ pc' = AfterFlush
      /\ UNCHANGED <<emitted, cancelled, kept, confirmed, atCancel>>
  BY DEF PutBack, FlushShape
<1>2. FlushShape'
  BY <1>1 DEF FlushShape, AfterFlush
<1>3. NothingForgotten'
  BY <1>1, EmptySeq, ConcatEmptySeq DEF NothingForgotten, Pending, TypeOK
<1> QED
  BY <1>1, <1>2, <1>3

LEMMA DeliveredInit == Init => Delivered
<1> SUFFICES ASSUME Init PROVE Delivered
  OBVIOUS
<1>1. <<>> \in Seq(Line) /\ Len(<<>>) = 0
  BY EmptySeq
<1>2. SubSeq(<<>>, 1, 0) = <<>>
  BY SubSeqEmpty
<1>3. Held
  BY HeldInit
<1>4. StoredWithoutGap
  <2>1. 0 \in confirmed .. Len(kept)
    BY <1>1 DEF Init
  <2>2. Range(stored) = {kept[i] : i \in 1 .. 0}
    <3>1. Range(stored) = {stored[i] : i \in 1 .. Len(stored)}
      BY <1>3, RangeEquality DEF Held, TypeOK
    <3> QED
      BY <1>1, <3>1 DEF Init
  <2> QED
    BY <2>1, <2>2 DEF StoredWithoutGap
<1>5. RepeatedOnlyByLostReply
  BY <1>2 DEF Init, RepeatedOnlyByLostReply
<1> QED
  BY <1>3, <1>4, <1>5 DEF Delivered

LEMMA DeliveredNext == Delivered /\ [Next]_vars => Delivered'
<1> SUFFICES ASSUME Delivered, [Next]_vars PROVE Delivered'
  OBVIOUS
<1> USE DEF Delivered
<1>t. TypeOK'
  BY TypeNext DEF Held
<1>l. Len(kept) \in Nat /\ confirmed \in 0 .. Len(kept)
  BY LenProperties DEF Held, TypeOK, NothingForgotten
<1>n. PICK n \in confirmed .. Len(kept) : Range(stored) = {kept[i] : i \in 1 .. n}
  BY DEF StoredWithoutGap
<1>1. ASSUME Held', UNCHANGED <<kept, stored, confirmed, lostReplies>>
      PROVE  Delivered'
  BY <1>1 DEF StoredWithoutGap, RepeatedOnlyByLostReply
<1>2. CASE TailerSend \/ TailerEnds \/ Stop \/ Cancelled \/ Tick
  BY <1>1, <1>2, OthersKeep
<1>3. CASE Receive
  <2>1. /\ Held'
        /\ UNCHANGED <<stored, confirmed, lostReplies>>
        /\ Len(kept') \in Nat /\ Len(kept') >= Len(kept)
        /\ \A i \in 1 .. Len(kept) : kept'[i] = kept[i]
        /\ SubSeq(kept', 1, confirmed) = SubSeq(kept, 1, confirmed)
    BY <1>3, ReceiveKeeps
  <2>2. StoredWithoutGap'
    <3>1. n \in confirmed .. Len(kept') /\ 1 .. n \subseteq 1 .. Len(kept)
      BY <1>l, <2>1
    <3>2. {kept'[i] : i \in 1 .. n} = {kept[i] : i \in 1 .. n}
      BY <2>1, <3>1
    <3> QED
      BY <1>n, <2>1, <3>1, <3>2 DEF StoredWithoutGap
  <2>3. RepeatedOnlyByLostReply'
    BY <2>1 DEF RepeatedOnlyByLostReply
  <2> QED
    BY <2>1, <2>2, <2>3
<1>4. ASSUME pc \in {"flush", "final"}, stored' = stored \o entries,
             kept' = kept, confirmed' \in 0 .. Len(kept)
      PROVE  StoredWithoutGap'
  <2>1. Range(stored') = {kept[i] : i \in 1 .. Len(kept)}
    BY <1>4, StoredByFlush DEF KeptUpTo
  <2>2. Len(kept) \in confirmed' .. Len(kept')
    BY <1>l, <1>4
  <2> QED
    BY <1>4, <2>1, <2>2 DEF StoredWithoutGap
<1>5. CASE FlushOk
  <2>1. Held' /\ confirmed' = Len(kept) /\ kept' = kept
    BY <1>t, <1>5, ConfirmKeeps DEF FlushOk
  <2>2. pc \in {"flush", "final"} /\ stored' = stored \o entries /\ UNCHANGED lostReplies
    BY <1>5 DEF FlushOk, Confirm
  <2>3. entries = SubSeq(kept, confirmed + 1, Len(kept))
    BY <2>2, InFlight
  <2>4. SubSeq(kept, 1, confirmed) \o SubSeq(kept, confirmed + 1, Len(kept))
          = SubSeq(kept, 1, Len(kept))
    <3>1. /\ kept \in Seq(Line)
          /\ 1 \in 1 .. Len(kept) + 1
          /\ confirmed \in 1 - 1 .. Len(kept)
          /\ Len(kept) \in confirmed .. Len(kept)
      BY <1>l DEF Held, TypeOK
    <3> QED
      BY <3>1, ConcatAdjacentSubSeq
  <2>5. RepeatedOnlyByLostReply'
    BY <2>1, <2>2, <2>3, <2>4 DEF RepeatedOnlyByLostReply
  <2>6. StoredWithoutGap'
    BY <1>l, <1>4, <2>1, <2>2
  <2> QED
    BY <2>1, <2>5, <2>6
<1>6. CASE FlushErr
  BY <1>t, <1>1, <1>6, PutBackKeeps DEF FlushErr
<1>7. CASE FlushErrStored
  <2>1. Held' /\ UNCHANGED <<kept, confirmed>>
    BY <1>t, <1>7, PutBackKeeps DEF FlushErrStored
  <2>2. /\ pc \in {"flush", "final"} /\ stored' = stored \o entries
        /\ lostReplies' = lostReplies + 1
    BY <1>7 DEF FlushErrStored, PutBack
  <2>3. RepeatedOnlyByLostReply'
    BY <2>2 DEF RepeatedOnlyByLostReply, Held, TypeOK
  <2>4. StoredWithoutGap'
    BY <1>l, <1>4, <2>1, <2>2
  <2> QED
    BY <2>1, <2>3, <2>4
<1>8. CASE UNCHANGED vars
  <2>1. Held'
    BY <1>t, <1>8 DEF vars, Held, FlushShape, NothingForgotten, Pending
  <2> QED
    BY <1>1, <1>8, <2>1 DEF vars
<1> QED
  BY <1>2, <1>3, <1>5, <1>6, <1>7, <1>8 DEF Next, Loop, Sink

\* The entries in memory are always the unconfirmed suffix of what the
\* pipeline produced (the put-back of flush_batch, scanner.rs:197).
THEOREM ForgetsNothing == Spec => []NothingForgotten
<1>1. Delivered => NothingForgotten
  BY DEF Delivered, Held
<1> QED
  BY <1>1, DeliveredInit, DeliveredNext, PTL DEF Spec

\* The sink never has an entry without the ones before it.
THEOREM StoresWithoutGap == Spec => []StoredWithoutGap
<1>1. Delivered => StoredWithoutGap
  BY DEF Delivered, Held
<1> QED
  BY <1>1, DeliveredInit, DeliveredNext, PTL DEF Spec

\* Without a lost reply the sink has every confirmed entry exactly once.
THEOREM RepeatsOnlyAfterLostReply == Spec => []RepeatedOnlyByLostReply
<1>1. Delivered => RepeatedOnlyByLostReply
  BY DEF Delivered, Held
<1> QED
  BY <1>1, DeliveredInit, DeliveredNext, PTL DEF Spec

-----------------------------------------------------------------------------
\* The biased select (scanner.rs:133-149) serves every line that was sent
\* before the token fired ahead of the final flush.
THEOREM DrainsBeforeStop == Spec => []DrainedBeforeStop
<1>1. Init => DrainedBeforeStop
  BY DEF Init, DrainedBeforeStop
<1>2. Delivered /\ DrainedBeforeStop /\ [Next]_vars => DrainedBeforeStop'
  <2> SUFFICES ASSUME Delivered, DrainedBeforeStop, [Next]_vars
               PROVE  DrainedBeforeStop'
    OBVIOUS
  <2> USE DEF Delivered, Held, TypeOK, DrainedBeforeStop
  <2>1. CASE TailerSend
    <3>1. PICK event \in {emitted + 1, ReadError} : rx' = Append(rx, event)
      BY <2>1 DEF TailerSend
    <3>2. /\ event \in TailEvent
          /\ event = ReadError \/ event > atCancel
          /\ UNCHANGED <<pc, atCancel>>
      BY <2>1, ScannerAssumption
      DEF TailerSend, FlushShape, ScannerAssumption, TailEvent, Line
    <3>3. /\ Len(rx') = Len(rx) + 1 /\ Len(rx) \in Nat
          /\ \A i \in 1 .. Len(rx) : rx'[i] = rx[i]
          /\ rx'[Len(rx) + 1] = event
      BY <3>1, <3>2, AppendProperties, LenProperties
    <3>4. ASSUME pc \in {"final", "stopped"}, NEW i \in 1 .. Len(rx')
          PROVE  rx'[i] = ReadError \/ rx'[i] > atCancel
      <4>1. CASE i <= Len(rx)
        <5>1. i \in 1 .. Len(rx) /\ rx'[i] = rx[i]
          BY <3>3, <3>4, <4>1
        <5>2. pc \in {"final", "stopped"}
          BY <3>2, <3>4
        <5> QED
          BY <5>1, <5>2
      <4>2. CASE i = Len(rx) + 1
        BY <3>2, <3>3, <4>2
      <4> QED
        BY <3>3, <3>4, <4>1, <4>2
    <3> QED
      BY <3>2, <3>4
  <2>2. CASE TailerEnds
    BY <2>2 DEF TailerEnds
  <2>3. CASE Stop
    BY <2>3 DEF Stop, FlushShape
  <2>4. CASE Receive
    BY <2>4 DEF Receive, BeginFlush
  <2>5. CASE Cancelled
    BY <2>5, EmptySeq DEF Cancelled
  <2>6. CASE Tick
    BY <2>6 DEF Tick, BeginFlush
  <2>7. CASE FlushOk
    BY <2>7 DEF FlushOk, Confirm, AfterFlush
  <2>8. CASE PutBack
    BY <2>8 DEF PutBack, AfterFlush
  <2>9. CASE UNCHANGED vars
    BY <2>9 DEF vars
  <2> QED
    BY <2>1, <2>2, <2>3, <2>4, <2>5, <2>6, <2>7, <2>8, <2>9
    DEF Next, Loop, Sink, FlushErr, FlushErrStored
<1> QED
  BY <1>1, <1>2, DeliveredInit, DeliveredNext, PTL DEF Spec

-----------------------------------------------------------------------------
\* The loop, with its retries, its timer and its shutdown, implements the
\* ordered at-least-once delivery of module AtLeastOnce.
THEOREM ImplementsAtLeastOnce == Spec => OrderedAtLeastOnce
<1>1. Init => Delivery!Init
  BY DEF Init, Delivery!Init
<1>2. Delivered /\ [Next]_vars => [Delivery!Next]_(Delivery!deliveryVars)
  <2> SUFFICES ASSUME Delivered, [Next]_vars
               PROVE  Delivery!Next \/ UNCHANGED <<kept, stored, confirmed>>
    BY DEF Delivery!deliveryVars
  <2> USE DEF Delivered, Held, TypeOK
  <2>1. CASE Receive
    <3>1. PICK new \in Processed(Head(rx)) : kept' = kept \o new
      BY <2>1 DEF Receive
    <3>2. UNCHANGED <<stored, confirmed>>
      BY <2>1 DEF Receive
    <3>3. CASE new = <<>>
      BY <3>1, <3>2, <3>3, ConcatEmptySeq
    <3>4. CASE Head(rx) \in Line /\ new = <<Head(rx)>>
      <4>1. kept' = Append(kept, Head(rx))
        BY <3>1, <3>4, AppendIsConcat
      <4>2. Delivery!Accept
        BY <3>2, <3>4, <4>1 DEF Delivery!Accept
      <4> QED
        BY <4>2 DEF Delivery!Next
    <3>5. Head(rx) \in TailEvent
      BY <2>1 DEF Receive
    <3> QED
      BY <3>1, <3>3, <3>4, <3>5 DEF Processed, TailEvent
  <2>2. ASSUME pc \in {"flush", "final"}, stored' = stored \o entries,
               kept' = kept,
               confirmed' \in {confirmed, confirmed + Len(entries)}
        PROVE  Delivery!Next \/ UNCHANGED <<kept, stored, confirmed>>
    <3>1. /\ entries = SubSeq(kept, confirmed + 1, Len(kept))
          /\ Len(entries) = Len(kept) - confirmed
      BY <2>2, InFlight
    <3>2. Len(kept) \in Nat /\ confirmed <= Len(kept)
      BY LenProperties DEF NothingForgotten
    <3>3. CASE confirmed = Len(kept)
      <4>1. entries = <<>>
        BY <3>1, <3>2, <3>3, SubSeqEmpty
      <4> QED
        BY <2>2, <4>1, ConcatEmptySeq, EmptySeq
    <3>4. CASE confirmed # Len(kept)
      <4>1. Len(kept) \in confirmed + 1 .. Len(kept)
        BY <3>2, <3>4
      <4>2. confirmed + Len(entries) = Len(kept)
        BY <3>1, <3>2
      <4>3. Delivery!Deliver(Len(kept))
        BY <2>2, <3>1, <4>2 DEF Delivery!Deliver
      <4> QED
        BY <4>1, <4>3 DEF Delivery!Next
    <3> QED
      BY <3>3, <3>4
  <2>3. CASE FlushOk
    BY <2>2, <2>3 DEF FlushOk, Confirm
  <2>4. CASE FlushErrStored
    BY <2>2, <2>4 DEF FlushErrStored, PutBack
  <2>5. CASE TailerSend \/ TailerEnds \/ Stop \/ Cancelled \/ Tick \/ FlushErr
             \/ UNCHANGED vars
    BY <2>5 DEF TailerSend, TailerEnds, Stop, Cancelled, Tick, FlushErr, PutBack, vars
  <2> QED
    BY <2>1, <2>3, <2>4, <2>5 DEF Next, Loop, Sink
<1> QED
  BY <1>1, <1>2, DeliveredInit, DeliveredNext, PTL DEF Spec, OrderedAtLeastOnce, Delivery!Spec

-----------------------------------------------------------------------------
(* The agent and the handlers of the hub.                                  *)

Handler == [call : Nat \ {0}, lines : Seq(Line), stage : {"received", "inserted"}]

\* Every line of a list is in the table, or is one the hub rejects.
AllStored(lines) ==
  \A i \in 1 .. Len(lines) : lines[i] \in Invalid \/ lines[i] \in Range(stored)

\* ConfirmedIsStored is not inductive: that the lines of the call the agent
\* waits for are those it holds, and that a handler answers after its insert,
\* has to be known.
HandlersInv ==
  /\ awaited \in Nat /\ restarts \in Nat
  /\ IsFiniteSet(handlers) /\ handlers \in SUBSET Handler
  /\ awaited # 0 => pc \in {"flush", "final"}
  /\ \A h \in handlers : h.call = awaited => h.lines = entries
  /\ \A h \in handlers : h.stage = "inserted" => AllStored(h.lines)

ForwardingInv == Held /\ HandlersInv /\ ConfirmedIsStored

-----------------------------------------------------------------------------
LEMMA AnswerTypes ==
  ASSUME TypeOK, Confirm \/ PutBack, stored' \in Seq(Line), lostReplies' \in Nat
  PROVE  TypeOK'
<1>1. <<>> \in Seq(Line)
  BY EmptySeq
<1>2. CASE Confirm
  BY <1>1, <1>2 DEF Confirm, AfterFlush, TypeOK
<1>3. CASE PutBack
  BY <1>1, <1>3 DEF PutBack, AfterFlush, TypeOK
<1> QED
  BY <1>2, <1>3

\* What a request leaves in the table.
LEMMA AcceptedLines ==
  ASSUME stored \in Seq(Line), NEW lines \in Seq(Line),
         stored' = stored \o Accepted(lines)
  PROVE  /\ stored' \in Seq(Line)
         /\ Range(stored) \subseteq Range(stored')
         /\ AllStored(lines)'
<1>1. /\ Accepted(lines) \in Seq(Line \cap (Line \ Invalid))
      /\ Range(Accepted(lines)) = Range(lines) \cap (Line \ Invalid)
  BY KeptItems, KeptRange DEF Accepted
<1>2. Accepted(lines) \in Seq(Line)
  BY <1>1
<1>3. stored' \in Seq(Line) /\ Range(stored') = Range(stored) \cup Range(Accepted(lines))
  BY <1>2, ConcatProperties, RangeConcatenation
<1>4. ASSUME NEW i \in 1 .. Len(lines)
      PROVE  lines[i] \in Invalid \/ lines[i] \in Range(stored')
  <2>1. lines[i] \in Line /\ lines[i] \in Range(lines)
    BY ElementOfSeq, RangeEquality
  <2> QED
    BY <1>1, <1>3, <2>1
<1> QED
  BY <1>3, <1>4 DEF AllStored

LEMMA InsertedHandler ==
  ASSUME NEW h \in Handler
  PROVE  \E g \in Handler : /\ g = [h EXCEPT !.stage = "inserted"]
                            /\ g.call = h.call /\ g.lines = h.lines
                            /\ g.stage = "inserted"
<1>1. [h EXCEPT !.stage = "inserted"] \in Handler
  BY DEF Handler
<1>2. h = [call |-> h.call, lines |-> h.lines, stage |-> h.stage]
  BY DEF Handler
<1>3. [h EXCEPT !.stage = "inserted"]
        = [call |-> h.call, lines |-> h.lines, stage |-> "inserted"]
  BY <1>2
<1> QED
  BY <1>1, <1>3

LEMMA ForwardingInit == InitForwarding => ForwardingInv
<1> SUFFICES ASSUME InitForwarding PROVE ForwardingInv
  OBVIOUS
<1>1. Held
  BY HeldInit DEF InitForwarding
<1>2. HandlersInv
  BY FS_EmptySet DEF InitForwarding, HandlersInv
<1>3. ConfirmedIsStored
  BY DEF InitForwarding, Init, ConfirmedIsStored
<1> QED
  BY <1>1, <1>2, <1>3 DEF ForwardingInv

\* A step of the loop leaves alone what a call under way depends on.
LEMMA LoopStepKeeps ==
  ASSUME ForwardingInv, LoopStep
  PROVE  ForwardingInv'
<1> USE DEF ForwardingInv
<1>1. UNCHANGED <<awaited, handlers, restarts>>
  BY DEF LoopStep
<1>2. /\ Held'
      /\ UNCHANGED <<stored, confirmed, lostReplies>>
      /\ \A i \in 1 .. confirmed : kept'[i] = kept[i]
  <2>1. Len(kept) \in Nat /\ confirmed \in 0 .. Len(kept)
    BY LenProperties DEF Held, TypeOK, NothingForgotten
  <2>2. CASE Receive
    BY <2>1, <2>2, ReceiveKeeps
  <2>3. CASE TailerSend \/ TailerEnds \/ Stop \/ Cancelled \/ Tick
    BY <2>3, OthersKeep
  <2> QED
    BY <2>2, <2>3 DEF LoopStep, Loop
<1>3. pc \in {"flush", "final"} => UNCHANGED <<pc, entries>>
  BY DEF LoopStep, Loop, TailerSend, TailerEnds, Stop, Receive, Cancelled, Tick
<1>4. HandlersInv'
  <2>1. awaited = 0 => \A h \in handlers : h.call # awaited
    BY DEF HandlersInv, Handler
  <2>2. \A h \in handlers' : h.call = awaited' => h.lines = entries'
    BY <1>1, <1>3, <2>1 DEF HandlersInv
  <2>3. \A h \in handlers' : h.stage = "inserted" => AllStored(h.lines)'
    BY <1>1, <1>2 DEF HandlersInv, AllStored
  <2> QED
    BY <1>1, <1>3, <2>2, <2>3 DEF HandlersInv
<1>5. ConfirmedIsStored'
  BY <1>2 DEF ConfirmedIsStored
<1> QED
  BY <1>2, <1>4, <1>5

LEMMA ForwardingNext == ForwardingInv /\ [NextForwarding]_forwardingVars => ForwardingInv'
<1> SUFFICES ASSUME ForwardingInv, [NextForwarding]_forwardingVars PROVE ForwardingInv'
  OBVIOUS
<1> USE DEF ForwardingInv
<1>z. \A h \in handlers : h.call # 0 /\ h \in Handler
  BY DEF HandlersInv, Handler
<1>t. TypeOK /\ lostReplies \in Nat /\ lostReplies + 1 \in Nat
  BY DEF Held, TypeOK
<1>1. CASE LoopStep
  BY <1>1, LoopStepKeeps
<1>2. CASE SendLogs
  <2>1. PICK call \in 1 .. Cardinality(handlers) + 1 :
          /\ \A n \in 1 .. call : (n < call) <=> n \in {h.call : h \in handlers}
          /\ awaited' = call
          /\ handlers' = handlers \cup
               {[call |-> call, lines |-> entries, stage |-> "received"]}
    BY <1>2 DEF SendLogs
  <2>2. pc \in {"flush", "final"} /\ UNCHANGED <<vars, missed, restarts>>
    BY <1>2 DEF SendLogs
  <2>3. Cardinality(handlers) \in Nat
    BY FS_CardinalityType DEF HandlersInv
  <2>4. call \in Nat \ {0} /\ \A h \in handlers : h.call # call
    BY <2>1, <2>3
  <2>5. [call |-> call, lines |-> entries, stage |-> "received"] \in Handler
    BY <2>4 DEF Held, TypeOK, Handler
  <2>6. IsFiniteSet(handlers') /\ handlers' \in SUBSET Handler
    BY <2>1, <2>5, FS_AddElement DEF HandlersInv
  <2>7. /\ Held' /\ ConfirmedIsStored'
        /\ \A h \in handlers : h.stage = "inserted" => AllStored(h.lines)'
        /\ UNCHANGED <<pc, entries>>
    BY <2>2 DEF vars, Held, TypeOK, FlushShape, NothingForgotten, Pending,
                ConfirmedIsStored, HandlersInv, AllStored
  <2>8. \A h \in handlers' : h.call = awaited' => h.lines = entries'
    BY <2>1, <2>4, <2>7
  <2>9. \A h \in handlers' : h.stage = "inserted" => h \in handlers
    BY <2>1
  <2> QED
    BY <2>1, <2>2, <2>4, <2>6, <2>7, <2>8, <2>9 DEF HandlersInv
<1>3. ASSUME PutBack, stored' \in Seq(Line), Range(stored) \subseteq Range(stored'),
             lostReplies' \in Nat, awaited' = 0,
             handlers' \subseteq handlers, restarts' = restarts
      PROVE  ForwardingInv'
  <2>1. Held' /\ UNCHANGED <<kept, confirmed>>
    BY <1>3, <1>t, AnswerTypes, PutBackKeeps
  <2>2. ConfirmedIsStored'
    BY <1>3, <2>1 DEF ConfirmedIsStored
  <2>3. IsFiniteSet(handlers') /\ handlers' \in SUBSET Handler
    BY <1>3, FS_Subset DEF HandlersInv
  <2>4. HandlersInv'
    BY <1>3, <1>z, <2>3 DEF HandlersInv, AllStored
  <2> QED
    BY <2>1, <2>2, <2>4
<1>4. CASE NotSent
  BY <1>3, <1>4, <1>t DEF NotSent, FlushErr, TypeOK
<1>5. CASE ConnectionLost
  BY <1>3, <1>5, <1>t DEF ConnectionLost, TypeOK
<1>6. ASSUME NEW h \in handlers, handlers' = handlers \ {h}, stored' = stored,
             UNCHANGED <<pc, entries, kept, confirmed, awaited, restarts>>, Held'
      PROVE  ForwardingInv'
  <2>1. IsFiniteSet(handlers') /\ handlers' \in SUBSET Handler
    BY <1>6, FS_Subset DEF HandlersInv
  <2> QED
    BY <1>6, <2>1 DEF HandlersInv, AllStored, ConfirmedIsStored
<1>7. ASSUME NEW h \in handlers, h.call # awaited,
             Refuse(h) \/ Acknowledge(h) \/ DropHandler(h)
      PROVE  ForwardingInv'
  <2>1. /\ handlers' = handlers \ {h}
        /\ UNCHANGED vars
        /\ UNCHANGED <<awaited, restarts>>
    BY <1>7 DEF Refuse, Acknowledge, DropHandler, Answer, vars
  <2>2. Held' /\ UNCHANGED <<stored, pc, entries, kept, confirmed>>
    BY <2>1 DEF vars, Held, TypeOK, FlushShape, NothingForgotten, Pending
  <2> QED
    BY <1>6, <2>1, <2>2
<1>8. ASSUME NEW h \in handlers, h.call = awaited, Refuse(h)
      PROVE  ForwardingInv'
  <2>1. /\ PutBack /\ awaited' = 0 /\ handlers' \subseteq handlers
        /\ UNCHANGED <<stored, lostReplies, restarts>>
    BY <1>8 DEF Refuse, Answer
  <2> QED
    BY <1>3, <1>t, <2>1 DEF TypeOK
<1>8l. ASSUME NEW h \in handlers, InsertLost(h)
       PROVE  ForwardingInv'
  <2>1. /\ PutBack /\ awaited' = 0 /\ handlers' \subseteq handlers
        /\ stored' = stored \o Accepted(h.lines)
        /\ lostReplies' = lostReplies + 1 /\ restarts' = restarts
    BY <1>8l DEF InsertLost, Answer
  <2>2. h.lines \in Seq(Line)
    BY <1>z DEF Handler
  <2>3. stored' \in Seq(Line) /\ Range(stored) \subseteq Range(stored')
    BY <1>t, <2>1, <2>2, AcceptedLines DEF TypeOK
  <2> QED
    BY <1>3, <1>t, <2>1, <2>3
<1>9. ASSUME NEW h \in handlers, h.call = awaited, Acknowledge(h)
      PROVE  ForwardingInv'
  <2>1. /\ Confirm /\ awaited' = 0 /\ handlers' = handlers \ {h}
        /\ UNCHANGED <<stored, lostReplies, restarts>>
        /\ pc \in {"flush", "final"}
    BY <1>9 DEF Acknowledge, Answer, Confirm
  <2>2. Held' /\ confirmed' = Len(kept) /\ Len(kept) \in Nat /\ kept' = kept
    BY <2>1, <1>t, AnswerTypes, ConfirmKeeps DEF TypeOK
  <2>3. h.lines = entries /\ AllStored(entries)
    BY <1>9 DEF Acknowledge, HandlersInv
  <2>4. /\ Len(entries) = Len(kept) - confirmed
        /\ \A i \in 1 .. Len(entries) : entries[i] = kept[confirmed + i]
    BY <2>1, InFlight
  <2>5. confirmed \in Nat
    BY DEF Held, TypeOK
  <2>6. ASSUME NEW i \in 1 .. Len(kept)
        PROVE  kept[i] \in Invalid \/ kept[i] \in Range(stored)
    <3>1. CASE i <= confirmed
      BY <2>5, <3>1 DEF ConfirmedIsStored
    <3>2. CASE i > confirmed
      <4>1. i - confirmed \in 1 .. Len(entries) /\ confirmed + (i - confirmed) = i
        BY <2>2, <2>4, <2>5, <3>2
      <4>2. entries[i - confirmed] = kept[i]
        BY <2>4, <4>1
      <4> QED
        BY <2>3, <4>1, <4>2 DEF AllStored
    <3> QED
      BY <2>2, <2>5, <3>1, <3>2
  <2>7. ConfirmedIsStored'
    BY <2>1, <2>2, <2>6 DEF ConfirmedIsStored
  <2>8. IsFiniteSet(handlers') /\ handlers' \in SUBSET Handler
    BY <2>1, FS_Subset DEF HandlersInv
  <2>9. HandlersInv'
    BY <1>z, <2>1, <2>8 DEF HandlersInv, AllStored
  <2> QED
    BY <2>2, <2>7, <2>9
<1>10. ASSUME NEW h \in handlers, InsertLines(h)
       PROVE  ForwardingInv'
  <2>1. /\ stored' = stored \o Accepted(h.lines)
        /\ handlers' = (handlers \ {h}) \cup {[h EXCEPT !.stage = "inserted"]}
        /\ UNCHANGED <<emitted, rx, open, cancelled, pc, batch, entries, kept,
                       confirmed, atCancel, lostReplies, awaited, restarts>>
    BY <1>10 DEF InsertLines
  <2>2. h \in Handler /\ h.lines \in Seq(Line)
    BY <1>z DEF Handler
  <2>3. /\ stored' \in Seq(Line) /\ Range(stored) \subseteq Range(stored')
        /\ AllStored(h.lines)'
    BY <1>t, <2>1, <2>2, AcceptedLines DEF TypeOK
  <2>4. Held'
    BY <2>1, <2>3 DEF Held, TypeOK, FlushShape, NothingForgotten, Pending
  <2>5. ConfirmedIsStored'
    BY <2>1, <2>3 DEF ConfirmedIsStored
  <2>6. PICK g \in Handler : /\ g = [h EXCEPT !.stage = "inserted"]
                             /\ g.call = h.call /\ g.lines = h.lines
                             /\ g.stage = "inserted"
    BY <2>2, InsertedHandler
  <2>7. IsFiniteSet(handlers') /\ handlers' \in SUBSET Handler
    <3>1. IsFiniteSet(handlers \ {h})
      BY FS_Subset DEF HandlersInv
    <3> QED
      BY <2>1, <2>6, <3>1, FS_AddElement DEF HandlersInv
  <2>8. \A k \in handlers' : k.stage = "inserted" => AllStored(k.lines)'
    <3>1. \A k \in handlers : k.stage = "inserted" => AllStored(k.lines)'
      BY <2>3 DEF HandlersInv, AllStored
    <3> QED
      BY <2>1, <2>3, <2>6, <3>1
  <2>9. \A k \in handlers' : k.call = awaited' => k.lines = entries'
    BY <2>1, <2>6 DEF HandlersInv
  <2> QED
    BY <2>1, <2>4, <2>5, <2>7, <2>8, <2>9 DEF HandlersInv
<1>11. CASE Restart
  <2>1. /\ pc' = "select" /\ kept' = <<>> /\ confirmed' = 0 /\ awaited' = 0
        /\ restarts' = restarts + 1
        /\ UNCHANGED <<stored, lostReplies, handlers>>
    BY <1>11 DEF Restart
  <2>2. Held'
    <3>1. <<>> \in Seq(Line) /\ <<>> \in Seq(TailEvent) /\ Len(<<>>) = 0
            /\ <<>> \o <<>> = <<>> /\ SubSeq(<<>>, 1, 0) = <<>>
      BY EmptySeq, ConcatEmptySeq, SubSeqEmpty
    <3>2. 0 \in 0 .. MaxEvents /\ 0 \in Nat
      BY ScannerAssumption DEF ScannerAssumption
    <3>3. TypeOK'
      BY <1>11, <1>t, <3>1, <3>2 DEF Restart, TypeOK
    <3>4. FlushShape'
      BY <1>11 DEF Restart, FlushShape
    <3>5. NothingForgotten'
      BY <1>11, <3>1 DEF Restart, NothingForgotten, Pending
    <3> QED
      BY <3>3, <3>4, <3>5 DEF Held
  <2>3. ConfirmedIsStored'
    BY <2>1 DEF ConfirmedIsStored
  <2>4. HandlersInv'
    BY <1>z, <2>1 DEF HandlersInv, AllStored
  <2> QED
    BY <2>2, <2>3, <2>4
<1>12. CASE UNCHANGED forwardingVars
  <2>1. UNCHANGED <<vars, awaited, handlers, restarts>>
    BY <1>12 DEF forwardingVars
  <2>2. Held'
    BY <2>1 DEF vars, Held, TypeOK, FlushShape, NothingForgotten, Pending
  <2>3. HandlersInv'
    BY <2>1 DEF vars, HandlersInv, AllStored
  <2>4. ConfirmedIsStored'
    BY <2>1 DEF vars, ConfirmedIsStored
  <2> QED
    BY <2>2, <2>3, <2>4
<1>13. CASE Hub
  <2>1. PICK h \in handlers :
          \/ Refuse(h) \/ InsertLines(h) \/ InsertLost(h)
          \/ Acknowledge(h) \/ DropHandler(h)
    BY <1>13 DEF Hub
  <2>2. h.call = awaited => ~DropHandler(h)
    BY DEF DropHandler
  <2> QED
    BY <1>7, <1>8, <1>8l, <1>9, <1>10, <2>1, <2>2
<1> QED
  BY <1>1, <1>2, <1>4, <1>5, <1>11, <1>12, <1>13 DEF NextForwarding, Agent

\* What flush_batch drops as confirmed is in the hub's table or was rejected
\* (agent/logs.rs insert_batch, hub/grpc.rs send_logs), whatever was lost or late.
THEOREM ConfirmedLinesAreStored == ForwardingSpec => []ConfirmedIsStored
<1>1. ForwardingInv => ConfirmedIsStored
  BY DEF ForwardingInv
<1> QED
  BY <1>1, ForwardingInit, ForwardingNext, PTL DEF ForwardingSpec

-----------------------------------------------------------------------------
\* A run numbers its lines in the order it meets them, so what is in memory and
\* what is on its way to it are all different.
Numbered ==
  /\ \A i, j \in 1 .. Len(kept) : i < j => kept[i] < kept[j]
  /\ \A i \in 1 .. Len(kept) : kept[i] <= emitted
  /\ \A i, j \in 1 .. Len(rx) : i < j /\ rx[j] # ReadError => rx[i] < rx[j]
  /\ \A i \in 1 .. Len(rx) : rx[i] <= emitted
  /\ \A i \in 1 .. Len(kept), j \in 1 .. Len(rx) : rx[j] # ReadError => kept[i] < rx[j]

\* The handlers that may still insert the line n.
UnderWay(n) == {h \in handlers : h.stage = "received" /\ n \in Range(h.lines)}

\* Whether the agent may send the line n once more without a further cause.
ToSend(n) ==
  n > emitted \/ n \in Range(rx) \/ (awaited = 0 /\ n \in Range(Pending))

\* How often the line n is in the table or may yet come into it.
Copies(n) == Times(n) + Cardinality(UnderWay(n)) + (IF ToSend(n) THEN 1 ELSE 0)

CopiesInv ==
  /\ Numbered
  /\ \A h \in handlers : IsInjective(h.lines)
  /\ \A n \in Line : Copies(n) <= 1 + lostReplies + restarts

-----------------------------------------------------------------------------
LEMMA PendingRange ==
  Held => Range(Pending) = {kept[i] : i \in confirmed + 1 .. Len(kept)}
<1> SUFFICES ASSUME Held
             PROVE  Range(Pending) = {kept[i] : i \in confirmed + 1 .. Len(kept)}
  OBVIOUS
<1>1. /\ Len(kept) \in Nat /\ confirmed \in 0 .. Len(kept) /\ kept \in Seq(Line)
      /\ Pending = SubSeq(kept, confirmed + 1, Len(kept))
  BY LenProperties DEF Held, TypeOK, NothingForgotten
<1>2. /\ Pending \in Seq(Line)
      /\ Len(Pending) = Len(kept) - confirmed
      /\ \A i \in 1 .. Len(kept) - confirmed : Pending[i] = kept[confirmed + i]
  BY <1>1, SuffixProperties
<1>3. Range(Pending) = {Pending[i] : i \in 1 .. Len(Pending)}
  BY <1>2, RangeEquality
<1>4. ASSUME NEW i \in confirmed + 1 .. Len(kept)
      PROVE  \E j \in 1 .. Len(Pending) : Pending[j] = kept[i]
  <2>1. i - confirmed \in 1 .. Len(Pending) /\ confirmed + (i - confirmed) = i
    BY <1>1, <1>2
  <2> QED
    BY <1>2, <2>1
<1>5. ASSUME NEW j \in 1 .. Len(Pending)
      PROVE  \E i \in confirmed + 1 .. Len(kept) : Pending[j] = kept[i]
  BY <1>1, <1>2
<1> QED
  BY <1>3, <1>4, <1>5

\* What the pipeline makes of the event that is received.
LEMMA ReceivedEvent ==
  ASSUME TypeOK, Receive
  PROVE  /\ rx' = Tail(rx) /\ Len(rx) \in Nat \ {0} /\ emitted' = emitted
         /\ Len(rx') = Len(rx) - 1
         /\ \A i \in 1 .. Len(rx') : rx'[i] = rx[i + 1]
         /\ kept' = kept \/ (kept' = Append(kept, rx[1]) /\ rx[1] \in Line)
<1>1. rx \in Seq(TailEvent) /\ rx # <<>> /\ rx' = Tail(rx) /\ emitted' = emitted
  BY DEF Receive, TypeOK
<1>2. /\ Len(rx) \in Nat \ {0} /\ Head(rx) = rx[1] /\ Head(rx) \in TailEvent
      /\ Len(rx') = Len(rx) - 1
      /\ \A i \in 1 .. Len(rx') : rx'[i] = rx[i + 1]
  BY <1>1
<1>3. PICK new \in Processed(Head(rx)) : kept' = kept \o new
  BY DEF Receive
<1>4. CASE new = <<>>
  BY <1>1, <1>2, <1>3, <1>4, ConcatEmptySeq DEF TypeOK
<1>5. CASE Head(rx) # ReadError /\ new = <<Head(rx)>>
  <2>1. Head(rx) \in Line
    BY <1>2, <1>5 DEF TailEvent
  <2>2. kept' = Append(kept, Head(rx))
    BY <1>3, <1>5, <2>1, AppendIsConcat DEF TypeOK
  <2> QED
    BY <1>1, <1>2, <2>1, <2>2
<1> QED
  BY <1>4, <1>5 DEF Processed

LEMMA AllNumbers ==
  ASSUME TypeOK
  PROVE  /\ emitted \in Nat
         /\ Len(kept) \in Nat /\ \A i \in 1 .. Len(kept) : kept[i] \in Nat
         /\ Len(rx) \in Nat /\ \A i \in 1 .. Len(rx) : rx[i] \in Nat
<1>1. emitted \in Nat /\ Line \subseteq Nat /\ TailEvent \subseteq Nat
  BY ScannerAssumption DEF ScannerAssumption, TypeOK, Line, TailEvent, ReadError
<1>2. kept \in Seq(Line) /\ rx \in Seq(TailEvent)
  BY DEF TypeOK
<1>3. \A i \in 1 .. Len(kept) : kept[i] \in Line
  BY <1>2, ElementOfSeq
<1>4. \A i \in 1 .. Len(rx) : rx[i] \in TailEvent
  BY <1>2, ElementOfSeq
<1> QED
  BY <1>1, <1>2, <1>3, <1>4, LenProperties

LEMMA NumberedReceive ==
  ASSUME TypeOK, Numbered, Receive
  PROVE  Numbered'
<1> DEFINE K == Len(kept)
<1>1. /\ Len(rx) \in Nat \ {0} /\ emitted' = emitted /\ emitted \in Nat
      /\ Len(rx') = Len(rx) - 1
      /\ \A i \in 1 .. Len(rx') : rx'[i] = rx[i + 1]
      /\ kept' = kept \/ (kept' = Append(kept, rx[1]) /\ rx[1] \in Line)
  BY ReceivedEvent, ScannerAssumption DEF ScannerAssumption, TypeOK
<1>2. /\ K \in Nat /\ \A i \in 1 .. K : kept[i] \in Nat
      /\ \A i \in 1 .. Len(rx) : rx[i] \in Nat
  BY AllNumbers
<1>a. \A i \in 1 .. Len(rx') : i + 1 \in 1 .. Len(rx) /\ rx'[i] = rx[i + 1]
  BY <1>1
<1>b. ASSUME NEW i \in 1 .. Len(rx'), NEW j \in 1 .. Len(rx'),
             i < j, rx'[j] # ReadError
      PROVE  rx'[i] < rx'[j]
  <2>1. i + 1 < j + 1
    BY <1>1, <1>b
  <2> QED
    BY <1>a, <1>b, <2>1 DEF Numbered
<1>3. /\ \A i, j \in 1 .. Len(rx') : i < j /\ rx'[j] # ReadError => rx'[i] < rx'[j]
      /\ \A i \in 1 .. Len(rx') : rx'[i] <= emitted'
  BY <1>1, <1>a, <1>b DEF Numbered
<1>4. CASE kept' = kept
  <2>1. \A i \in 1 .. Len(kept'), j \in 1 .. Len(rx') :
          rx'[j] # ReadError => kept'[i] < rx'[j]
    BY <1>1, <1>4 DEF Numbered
  <2> QED
    BY <1>1, <1>3, <1>4, <2>1 DEF Numbered
<1>5. CASE kept' = Append(kept, rx[1]) /\ rx[1] \in Line
  <2>1. /\ Len(kept') = K + 1 /\ kept'[K + 1] = rx[1]
        /\ \A i \in 1 .. K : kept'[i] = kept[i]
        /\ rx[1] # ReadError /\ 1 \in 1 .. Len(rx)
    BY <1>1, <1>5, AppendProperties DEF TypeOK, Line, ReadError
  <2>2. /\ \A i \in 1 .. K : kept[i] < rx[1]
        /\ rx[1] <= emitted
        /\ \A j \in 1 .. Len(rx') : rx'[j] # ReadError => rx[1] < rx'[j]
    BY <1>1, <2>1 DEF Numbered
  <2>3. \A i \in 1 .. Len(kept') : i \in 1 .. K \/ i = K + 1
    BY <1>2, <2>1
  <2>4. \A i, j \in 1 .. Len(kept') : i < j => kept'[i] < kept'[j]
    BY <1>2, <2>1, <2>2, <2>3 DEF Numbered
  <2>5. \A i \in 1 .. Len(kept') : kept'[i] <= emitted'
    BY <1>1, <2>1, <2>2, <2>3 DEF Numbered
  <2>6. \A j \in 1 .. Len(rx') : j + 1 \in 1 .. Len(rx)
    BY <1>1
  <2>7. \A i \in 1 .. Len(kept'), j \in 1 .. Len(rx') :
          rx'[j] # ReadError => kept'[i] < rx'[j]
    BY <1>1, <2>1, <2>2, <2>3, <2>6 DEF Numbered
  <2> QED
    BY <1>3, <2>4, <2>5, <2>7 DEF Numbered
<1> QED
  BY <1>1, <1>4, <1>5

LEMMA NumberedSend ==
  ASSUME TypeOK, Numbered, TailerSend
  PROVE  Numbered'
<1>1. PICK event \in {emitted + 1, ReadError} : rx' = Append(rx, event)
  BY DEF TailerSend
<1>2. /\ emitted \in Nat /\ emitted' = emitted + 1 /\ event \in TailEvent /\ kept' = kept
      /\ event = ReadError \/ event = emitted + 1
  BY ScannerAssumption DEF ScannerAssumption, TypeOK, TailerSend, TailEvent, Line
<1>3. /\ Len(rx) \in Nat /\ Len(rx') = Len(rx) + 1 /\ rx'[Len(rx) + 1] = event
      /\ \A i \in 1 .. Len(rx) : rx'[i] = rx[i]
  BY <1>1, <1>2, AppendProperties, LenProperties DEF TypeOK
<1>4. /\ \A i \in 1 .. Len(kept) : kept[i] \in Nat
      /\ \A i \in 1 .. Len(rx) : rx[i] \in Nat
  BY AllNumbers
<1>5. \A i \in 1 .. Len(rx') : i \in 1 .. Len(rx) \/ i = Len(rx) + 1
  BY <1>3
<1>6. \A i, j \in 1 .. Len(rx') : i < j /\ rx'[j] # ReadError => rx'[i] < rx'[j]
  BY <1>2, <1>3, <1>4, <1>5 DEF Numbered
<1>7. \A i \in 1 .. Len(rx') : rx'[i] <= emitted'
  BY <1>2, <1>3, <1>4, <1>5 DEF Numbered, ReadError
<1>8. \A i \in 1 .. Len(kept'), j \in 1 .. Len(rx') :
        rx'[j] # ReadError => kept'[i] < rx'[j]
  BY <1>2, <1>3, <1>4, <1>5 DEF Numbered
<1>9. \A i \in 1 .. Len(kept') : kept'[i] <= emitted'
  BY <1>2, <1>4 DEF Numbered
<1>10. \A i, j \in 1 .. Len(kept') : i < j => kept'[i] < kept'[j]
  BY <1>2 DEF Numbered
<1> QED
  BY <1>6, <1>7, <1>8, <1>9, <1>10 DEF Numbered

Occurrences(s, n) == Cardinality({i \in 1 .. Len(s) : s[i] = n})

\* Appending a list without repetitions adds a line at most once.
LEMMA OccurrencesAdded ==
  ASSUME NEW T, NEW s \in Seq(T), NEW t \in Seq(T), IsInjective(t), NEW n
  PROVE  /\ Occurrences(s, n) \in Nat /\ Occurrences(s \o t, n) \in Nat
         /\ Occurrences(s \o t, n) <= Occurrences(s, n) + 1
         /\ n \notin Range(t) => Occurrences(s \o t, n) = Occurrences(s, n)
<1> DEFINE u == s \o t
           A == {i \in 1 .. Len(s) : s[i] = n}
           B == {i \in 1 .. Len(u) : u[i] = n}
<1>1. /\ Len(s) \in Nat /\ Len(t) \in Nat /\ Len(u) = Len(s) + Len(t)
      /\ \A i \in 1 .. Len(s) : u[i] = s[i]
      /\ \A i \in 1 .. Len(t) : u[Len(s) + i] = t[i]
      /\ \A i \in 1 .. Len(u) : i \in 1 .. Len(s) \/ i - Len(s) \in 1 .. Len(t)
      /\ \A i \in 1 .. Len(u) : u[Len(s) + (i - Len(s))] = u[i]
  <2>1. /\ Len(s) \in Nat /\ Len(t) \in Nat /\ Len(u) = Len(s) + Len(t)
        /\ \A i \in 1 .. Len(u) : u[i] = IF i <= Len(s) THEN s[i] ELSE t[i - Len(s)]
    BY ConcatProperties, LenProperties
  <2> HIDE DEF u
  <2>2. ASSUME NEW i \in 1 .. Len(t) PROVE u[Len(s) + i] = t[i]
    <3>1. Len(s) + i \in 1 .. Len(u) /\ ~(Len(s) + i <= Len(s)) /\ Len(s) + i - Len(s) = i
      BY <2>1
    <3> QED
      BY <2>1, <3>1
  <2> QED
    BY <2>1, <2>2
<1> HIDE DEF u
<1>2. IsFiniteSet(A) /\ Cardinality(A) \in Nat
  <2>1. IsFiniteSet(1 .. Len(s)) /\ A \in SUBSET (1 .. Len(s))
    BY <1>1, FS_Interval
  <2> QED
    BY <2>1, FS_Subset, FS_CardinalityType
<1>a. \A i : i \in A => i \in B
  BY <1>1
<1>b. ASSUME NEW i \in B
      PROVE  i \in A \/ \E j \in 1 .. Len(t) : i = Len(s) + j /\ t[j] = n
  <2>1. CASE i \in 1 .. Len(s)
    BY <1>1, <1>b, <2>1
  <2>2. CASE i - Len(s) \in 1 .. Len(t)
    <3>1. t[i - Len(s)] = u[i] /\ u[i] = n /\ i = Len(s) + (i - Len(s))
      BY <1>1, <1>b, <2>2
    <3> QED
      BY <2>2, <3>1
  <2> QED
    BY <1>1, <1>b, <2>1, <2>2
<1>c. \A j \in 1 .. Len(t) : t[j] = n => Len(s) + j \in B
  BY <1>1
<1> HIDE DEF A, B
<1> SUFFICES /\ Cardinality(A) \in Nat /\ Cardinality(B) \in Nat
             /\ Cardinality(B) <= Cardinality(A) + 1
             /\ n \notin Range(t) => Cardinality(B) = Cardinality(A)
  BY Zenon DEF Occurrences, A, B, u
<1>3. CASE n \notin Range(t)
  <2>1. \A i \in 1 .. Len(t) : t[i] # n
    BY <1>3, RangeEquality
  <2>2. A = B
    BY <1>a, <1>b, <2>1
  <2> QED
    BY <1>2, <1>3, <2>2
<1>4. CASE n \in Range(t)
  <2>1. PICK j \in 1 .. Len(t) : t[j] = n
    BY <1>4, RangeEquality
  <2>2. \A k \in 1 .. Len(t) : t[k] = n => k = j
    BY <2>1 DEF IsInjective
  <2>3. B = A \cup {Len(s) + j}
    BY <1>a, <1>b, <1>c, <2>1, <2>2
  <2>4. Cardinality(B) \in {Cardinality(A), Cardinality(A) + 1}
    BY <1>2, <2>3, FS_AddElement
  <2> QED
    BY <1>2, <1>4, <2>4
<1> QED
  BY <1>3, <1>4

LEMMA NumberedNext ==
  ASSUME ForwardingInv, Numbered, NextForwarding
  PROVE  Numbered'
<1>1. ASSUME UNCHANGED <<kept, rx, emitted>> PROVE Numbered'
  BY <1>1 DEF Numbered
<1>2. CASE LoopStep
  <2>1. CASE TailerSend
    BY <2>1, NumberedSend DEF ForwardingInv, Held
  <2>2. CASE Receive
    BY <2>2, NumberedReceive DEF ForwardingInv, Held
  <2>3. CASE TailerEnds \/ Stop \/ Cancelled \/ Tick
    BY <1>1, <2>3 DEF TailerEnds, Stop, Cancelled, Tick
  <2> QED
    BY <1>2, <2>1, <2>2, <2>3 DEF LoopStep, Loop
<1>3. CASE SendLogs
  BY <1>1, <1>3 DEF SendLogs, vars
<1>4. CASE NotSent \/ ConnectionLost
  BY <1>1, <1>4 DEF NotSent, FlushErr, ConnectionLost, PutBack
<1>5. CASE Restart
  <2>1. rx' = <<>> /\ kept' = <<>>
    BY <1>5 DEF Restart
  <2> QED
    BY <2>1 DEF Numbered
<1>6. CASE Hub
  BY <1>1, <1>6
  DEF Hub, Refuse, InsertLines, InsertLost, Acknowledge, DropHandler, Answer, Confirm, PutBack, vars
<1> QED
  BY <1>2, <1>3, <1>4, <1>5, <1>6 DEF NextForwarding, Agent

\* What a call sends has no repetitions and is not waiting to be sent as well.
LEMMA SentOnce ==
  ASSUME Held, Numbered, pc \in {"flush", "final"}
  PROVE  /\ IsInjective(entries)
         /\ \A n \in Range(entries) \cap Line : ~(n > emitted) /\ n \notin Range(rx)
<1>1. /\ \A i \in 1 .. Len(entries) : entries[i] = kept[confirmed + i]
      /\ Len(entries) = Len(kept) - confirmed
  BY InFlight
<1>2. /\ Len(kept) \in Nat /\ confirmed \in Nat /\ emitted \in Nat
      /\ entries \in Seq(Line) /\ DOMAIN entries = 1 .. Len(entries)
      /\ \A i \in 1 .. Len(kept) : kept[i] \in Nat
      /\ rx \in Seq(TailEvent)
  BY LenProperties, ElementOfSeq, ScannerAssumption
  DEF Held, TypeOK, ScannerAssumption, Line
<1>3. \A i \in 1 .. Len(entries) : confirmed + i \in 1 .. Len(kept)
  BY <1>1, <1>2
<1>4. ASSUME NEW i \in 1 .. Len(entries), NEW j \in 1 .. Len(entries), i < j
      PROVE  entries[i] < entries[j]
  <2>1. confirmed + i < confirmed + j
    BY <1>2, <1>4
  <2> QED
    BY <1>1, <1>3, <2>1 DEF Numbered
<1>5. ASSUME NEW i \in 1 .. Len(entries), NEW j \in 1 .. Len(entries),
             entries[i] = entries[j]
      PROVE  i = j
  <2>1. entries[i] \in Nat
    BY <1>1, <1>2, <1>3
  <2> QED
    BY <1>2, <1>4, <1>5, <2>1
<1>6. IsInjective(entries)
  BY <1>2, <1>5 DEF IsInjective
<1>7. ASSUME NEW n \in Range(entries) \cap Line
      PROVE  ~(n > emitted) /\ n \notin Range(rx)
  <2>1. PICK i \in 1 .. Len(kept) : n = kept[i]
    BY <1>1, <1>2, <1>3, RangeEquality
  <2>2. n <= emitted /\ n \in Nat
    BY <1>2, <2>1 DEF Numbered
  <2>3. \A j \in 1 .. Len(rx) : rx[j] # n
    BY <1>2, <2>1, <2>2 DEF Numbered, Line, ReadError
  <2> QED
    BY <1>2, <2>2, <2>3, RangeEquality
<1> QED
  BY <1>6, <1>7

\* The loop gives nothing to send that was not to be sent before.
LEMMA LoopSendsNoMore ==
  ASSUME ForwardingInv, LoopStep, NEW n \in Line, ToSend(n)'
  PROVE  ToSend(n)
<1> USE DEF ForwardingInv
<1>1. Held' /\ awaited' = awaited
  BY LoopStepKeeps DEF LoopStep
<1>2. /\ Range(Pending) = {kept[i] : i \in confirmed + 1 .. Len(kept)}
      /\ Range(Pending') = {kept'[i] : i \in confirmed' + 1 .. Len(kept')}
  <2>1. (Held => Range(Pending) = {kept[i] : i \in confirmed + 1 .. Len(kept)})'
    BY PendingRange, PTL
  <2> QED
    BY <1>1, <2>1, PendingRange
<1>3. /\ emitted \in Nat /\ rx \in Seq(TailEvent) /\ kept \in Seq(Line)
      /\ n \in Nat \ {0}
  BY ScannerAssumption DEF Held, TypeOK, ScannerAssumption, Line
<1>4. CASE TailerSend
  <2>1. PICK event \in {emitted + 1, ReadError} : rx' = Append(rx, event)
    BY <1>4 DEF TailerSend
  <2>2. emitted' = emitted + 1 /\ UNCHANGED <<kept, confirmed>> /\ event \in TailEvent
    BY <1>3, <1>4, ScannerAssumption DEF ScannerAssumption, TailerSend, TailEvent, Line
  <2>3. n \in Range(rx') => n \in Range(rx) \/ n = event
    <3>1. /\ Len(rx) \in Nat /\ Len(rx') = Len(rx) + 1 /\ rx' \in Seq(TailEvent)
          /\ \A i \in 1 .. Len(rx) : rx'[i] = rx[i]
          /\ rx'[Len(rx) + 1] = event
      BY <1>3, <2>1, <2>2, AppendProperties, LenProperties
    <3>2. \A i \in 1 .. Len(rx') : i \in 1 .. Len(rx) \/ i = Len(rx) + 1
      BY <3>1
    <3> QED
      BY <1>3, <3>1, <3>2, RangeEquality
  <2>4. n = event => n > emitted
    BY <1>3, <2>1 DEF ReadError
  <2>5. n > emitted' => n > emitted
    BY <1>3, <2>2
  <2>6. Range(Pending') = Range(Pending)
    BY <1>2, <2>2
  <2> QED
    BY <1>1, <2>3, <2>4, <2>5, <2>6 DEF ToSend
<1>5. CASE Receive
  <2>1. /\ Len(rx) \in Nat \ {0} /\ emitted' = emitted
        /\ Len(rx') = Len(rx) - 1 /\ rx' = Tail(rx)
        /\ \A i \in 1 .. Len(rx') : rx'[i] = rx[i + 1]
        /\ kept' = kept \/ (kept' = Append(kept, rx[1]) /\ rx[1] \in Line)
    BY <1>5, ReceivedEvent DEF Held
  <2>2. n \in Range(rx') => n \in Range(rx)
    <3>1. rx' \in Seq(TailEvent)
      BY <1>1 DEF Held, TypeOK
    <3>2. \A i \in 1 .. Len(rx') : i + 1 \in 1 .. Len(rx)
      BY <2>1
    <3>3. Range(rx') = {rx'[i] : i \in 1 .. Len(rx')} /\ Range(rx) = {rx[i] : i \in 1 .. Len(rx)}
      BY <1>3, <3>1, RangeEquality
    <3> QED
      BY <2>1, <3>2, <3>3
  <2>3. n \in Range(Pending') => n \in Range(Pending) \/ n \in Range(rx)
    <3>1. confirmed' = confirmed /\ confirmed \in Nat
      BY <1>5 DEF Receive, Held, TypeOK
    <3>2. CASE kept' = kept
      BY <1>2, <3>1, <3>2
    <3>3. CASE kept' = Append(kept, rx[1]) /\ rx[1] \in Line
      <4>1. /\ Len(kept) \in Nat /\ Len(kept') = Len(kept) + 1
            /\ \A i \in 1 .. Len(kept) : kept'[i] = kept[i]
            /\ kept'[Len(kept) + 1] = rx[1]
        BY <1>3, <3>3, AppendProperties, LenProperties
      <4>2. rx[1] \in Range(rx)
        BY <1>3, <2>1, RangeEquality
      <4>3. \A i \in confirmed' + 1 .. Len(kept') :
              i = Len(kept) + 1 \/ (i \in confirmed + 1 .. Len(kept) /\ i \in 1 .. Len(kept))
        BY <3>1, <4>1
      <4> QED
        BY <1>2, <4>1, <4>2, <4>3
    <3> QED
      BY <2>1, <3>2, <3>3
  <2>4. awaited' = 0 <=> awaited = 0
    BY <1>1
  <2>5. n \in Range(Pending') /\ awaited' = 0 => ToSend(n)
    BY <2>3, <2>4 DEF ToSend
  <2> QED
    BY <2>1, <2>2, <2>5 DEF ToSend
<1>6. CASE TailerEnds \/ Stop \/ Cancelled \/ Tick
  <2>1. /\ UNCHANGED <<kept, confirmed, emitted>>
        /\ rx' = rx
    BY <1>6 DEF TailerEnds, Stop, Cancelled, Tick
  <2>2. Range(Pending') = Range(Pending)
    BY <1>2, <2>1
  <2> QED
    BY <1>1, <2>1, <2>2 DEF ToSend
<1> QED
  BY <1>4, <1>5, <1>6 DEF LoopStep, Loop

-----------------------------------------------------------------------------
LEMMA CopiesTypes ==
  ASSUME ForwardingInv, NEW n \in Line
  PROVE  /\ Times(n) \in Nat /\ lostReplies \in Nat /\ restarts \in Nat
         /\ IsFiniteSet(UnderWay(n)) /\ Cardinality(UnderWay(n)) \in Nat
<1>1. /\ stored \in Seq(Line) /\ Len(stored) \in Nat
      /\ lostReplies \in Nat /\ restarts \in Nat /\ IsFiniteSet(handlers)
  BY LenProperties DEF ForwardingInv, Held, TypeOK, HandlersInv
<1>2. IsFiniteSet(1 .. Len(stored))
  BY <1>1, FS_Interval
<1>3. {i \in 1 .. Len(stored) : stored[i] = n} \in SUBSET (1 .. Len(stored))
  OBVIOUS
<1>4. Times(n) \in Nat
  BY <1>2, <1>3, FS_Subset, FS_CardinalityType DEF Times
<1>5. UnderWay(n) \in SUBSET handlers
  BY DEF UnderWay
<1>6. IsFiniteSet(UnderWay(n)) /\ Cardinality(UnderWay(n)) \in Nat
  BY <1>1, <1>5, FS_Subset, FS_CardinalityType
<1> QED
  BY <1>1, <1>4, <1>6

\* The copies of a line where the table does not change: fewer handlers, and
\* something to send that was not to be sent, are paid for by what is lost.
LEMMA CopiesWithoutInsert ==
  ASSUME ForwardingInv, CopiesInv, NEW n \in Line, stored' = stored,
         NEW more \in {0, 1},
         1 + lostReplies' + restarts' = 1 + lostReplies + restarts + more,
         UnderWay(n)' \subseteq UnderWay(n),
         \/ more = 1
         \/ ToSend(n)' => ToSend(n)
         \/ \E h \in UnderWay(n) : h \notin UnderWay(n)'
  PROVE  Copies(n)' <= 1 + lostReplies' + restarts'
<1> DEFINE U == UnderWay(n)
           V == UnderWay(n)'
           p == IF ToSend(n) THEN 1 ELSE 0
           q == IF ToSend(n)' THEN 1 ELSE 0
<1>1. /\ Times(n) \in Nat /\ lostReplies \in Nat /\ restarts \in Nat
      /\ IsFiniteSet(U) /\ Cardinality(U) \in Nat
  BY CopiesTypes
<1>2. Times(n)' = Times(n)
  BY DEF Times
<1>3. Times(n) + Cardinality(U) + p <= 1 + lostReplies + restarts
  BY DEF CopiesInv, Copies
<1>4. p \in {0, 1} /\ q \in {0, 1} /\ (q = 1 <=> ToSend(n)') /\ (p = 1 <=> ToSend(n))
  OBVIOUS
<1>5. V \subseteq U /\ (more = 1 \/ q <= p \/ \E h \in U : h \notin V)
  BY <1>4
<1>6. Copies(n)' = Times(n) + Cardinality(V) + q
  BY <1>2 DEF Copies
<1> HIDE DEF U, V, p, q
<1>7. IsFiniteSet(V) /\ Cardinality(V) \in Nat /\ Cardinality(V) <= Cardinality(U)
  BY <1>1, <1>5, FS_Subset, FS_CardinalityType
<1>8. (\E h \in U : h \notin V) => Cardinality(V) < Cardinality(U)
  <2>1. V # U => Cardinality(V) < Cardinality(U)
    BY <1>1, <1>5, <1>7, FS_Subset
  <2> QED
    BY <2>1
<1> QED
  BY <1>1, <1>3, <1>4, <1>5, <1>6, <1>7, <1>8

\* What a flush holds is all there is to send, and after it there is the same
\* again, or nothing.
LEMMA PendingOfFlush ==
  ASSUME Held, pc \in {"flush", "final"}
  PROVE  /\ Pending = entries
         /\ PutBack => Pending' = entries
         /\ Confirm => Pending' = <<>>
<1>1. entries \in Seq(Line) /\ batch = <<>>
  BY DEF Held, TypeOK, FlushShape
<1>2. entries \o <<>> = entries /\ <<>> \o entries = entries /\ <<>> \o <<>> = <<>>
  BY <1>1, EmptySeq, ConcatEmptySeq
<1> QED
  BY <1>1, <1>2 DEF Pending, PutBack, Confirm

LEMMA CopiesOfRequest ==
  ASSUME ForwardingInv, CopiesInv, SendLogs, NEW n \in Line
  PROVE  Copies(n)' <= 1 + lostReplies' + restarts'
<1> USE DEF ForwardingInv
<1>1. PICK call \in 1 .. Cardinality(handlers) + 1 :
        /\ awaited' = call
        /\ handlers' = handlers \cup
             {[call |-> call, lines |-> entries, stage |-> "received"]}
  BY DEF SendLogs
<1>2. /\ pc \in {"flush", "final"} /\ awaited = 0
      /\ UNCHANGED <<emitted, rx, entries, batch, stored, lostReplies, restarts>>
  BY DEF SendLogs, vars
<1>3. Cardinality(handlers) \in Nat
  BY FS_CardinalityType DEF HandlersInv
<1>4. awaited' # 0
  BY <1>1, <1>3
<1>5. PICK g : g = [call |-> call, lines |-> entries, stage |-> "received"]
  OBVIOUS
<1>6. handlers' = handlers \cup {g} /\ g.lines = entries
  BY <1>1, <1>5
<1>7. CASE n \in Range(entries)
  <2>1. ToSend(n)
    BY <1>2, <1>7, PendingOfFlush DEF ToSend
  <2>2. ~ToSend(n)'
    BY <1>2, <1>4, <1>7, SentOnce DEF ToSend, CopiesInv
  <2>3. UnderWay(n)' \subseteq UnderWay(n) \cup {g} /\ UnderWay(n) \subseteq UnderWay(n)'
    BY <1>6 DEF UnderWay
  <2>4. /\ Times(n) \in Nat /\ IsFiniteSet(UnderWay(n)) /\ Cardinality(UnderWay(n)) \in Nat
        /\ lostReplies \in Nat /\ restarts \in Nat
    BY CopiesTypes
  <2>5. Times(n)' = Times(n)
    BY <1>2 DEF Times
  <2>6. Cardinality(UnderWay(n)') \in {Cardinality(UnderWay(n)), Cardinality(UnderWay(n)) + 1}
    <3>1. UnderWay(n)' = UnderWay(n) \/ UnderWay(n)' = UnderWay(n) \cup {g}
      BY <2>3
    <3> QED
      BY <2>4, <3>1, FS_AddElement
  <2>7. Copies(n) = Times(n) + Cardinality(UnderWay(n)) + 1
    BY <2>1 DEF Copies
  <2>8. Copies(n)' = Times(n) + Cardinality(UnderWay(n)') + 0
    BY <2>2, <2>5 DEF Copies
  <2>9. Copies(n) <= 1 + lostReplies + restarts
    BY DEF CopiesInv
  <2> QED
    BY <1>2, <2>4, <2>6, <2>7, <2>8, <2>9
<1>8. CASE n \notin Range(entries)
  <2>1. UnderWay(n)' \subseteq UnderWay(n)
    BY <1>6, <1>8 DEF UnderWay
  <2>2. ToSend(n)' => ToSend(n)
    BY <1>2, <1>4 DEF ToSend
  <2>3. 1 + lostReplies' + restarts' = 1 + lostReplies + restarts + 0
    BY <1>2, CopiesTypes
  <2> QED
    BY <1>2, <2>1, <2>2, <2>3, CopiesWithoutInsert
<1> QED
  BY <1>7, <1>8

\* An insert adds a line once at most, and only if it was sent.
LEMMA TimesAdded ==
  ASSUME ForwardingInv, CopiesInv, NEW h \in handlers, NEW n \in Line,
         stored' = stored \o Accepted(h.lines)
  PROVE  /\ Times(n) \in Nat /\ Times(n)' \in Nat /\ Times(n)' <= Times(n) + 1
         /\ n \notin Range(h.lines) => Times(n)' = Times(n)
<1> USE DEF ForwardingInv
<1>1. h.lines \in Seq(Line) /\ IsInjective(h.lines)
  BY DEF HandlersInv, Handler, CopiesInv
<1>2. /\ Accepted(h.lines) \in Seq(Line \cap (Line \ Invalid))
      /\ Range(Accepted(h.lines)) = Range(h.lines) \cap (Line \ Invalid)
      /\ IsInjective(Accepted(h.lines))
  BY <1>1, KeptItems, KeptRange, KeptInjective DEF Accepted
<1>3. Accepted(h.lines) \in Seq(Line) /\ stored \in Seq(Line)
  BY <1>2 DEF Held, TypeOK
<1>4. n \notin Range(h.lines) => n \notin Range(Accepted(h.lines))
  BY <1>2
<1>5. /\ Times(n) = Occurrences(stored, n)
      /\ Times(n)' = Occurrences(stored \o Accepted(h.lines), n)
  BY DEF Times, Occurrences
<1> QED
  BY <1>2, <1>3, <1>4, <1>5, OccurrencesAdded

LEMMA CopiesOfInsert ==
  ASSUME ForwardingInv, CopiesInv, NEW h \in handlers, InsertLines(h), NEW n \in Line
  PROVE  Copies(n)' <= 1 + lostReplies' + restarts'
<1> USE DEF ForwardingInv
<1>1. /\ h.stage = "received"
      /\ stored' = stored \o Accepted(h.lines)
      /\ handlers' = (handlers \ {h}) \cup {[h EXCEPT !.stage = "inserted"]}
      /\ UNCHANGED <<emitted, rx, entries, batch, lostReplies, awaited, restarts>>
  BY DEF InsertLines
<1>2. h \in Handler
  BY DEF HandlersInv
<1>3. PICK g : g = [h EXCEPT !.stage = "inserted"] /\ g.stage = "inserted"
  BY <1>2, InsertedHandler
<1>4. UnderWay(n)' = UnderWay(n) \ {h}
  BY <1>1, <1>3 DEF UnderWay
<1>5. /\ Times(n) \in Nat /\ IsFiniteSet(UnderWay(n)) /\ Cardinality(UnderWay(n)) \in Nat
      /\ lostReplies \in Nat /\ restarts \in Nat
  BY CopiesTypes
<1>6. /\ Times(n)' \in Nat /\ Times(n)' <= Times(n) + 1
      /\ n \notin Range(h.lines) => Times(n)' = Times(n)
  BY <1>1, TimesAdded
<1>7. Cardinality(UnderWay(n)') \in Nat
        /\ Cardinality(UnderWay(n)')
             = IF h \in UnderWay(n) THEN Cardinality(UnderWay(n)) - 1
                                    ELSE Cardinality(UnderWay(n))
  BY <1>4, <1>5, FS_RemoveElement, FS_CardinalityType
<1>8. n \in Range(h.lines) => h \in UnderWay(n)
  BY <1>1 DEF UnderWay
<1>9. ToSend(n)' <=> ToSend(n)
  BY <1>1 DEF ToSend, Pending
<1> DEFINE p == IF ToSend(n) THEN 1 ELSE 0
<1>10. Copies(n) = Times(n) + Cardinality(UnderWay(n)) + p
  BY DEF Copies
<1>11. Copies(n)' = Times(n)' + Cardinality(UnderWay(n)') + p
  BY <1>9 DEF Copies
<1>12. Copies(n) <= 1 + lostReplies + restarts /\ p \in {0, 1}
  BY DEF CopiesInv
<1> HIDE DEF p
<1> QED
  BY <1>1, <1>5, <1>6, <1>7, <1>8, <1>10, <1>11, <1>12

\* An insert whose result is lost puts a line into the table and leaves it to be
\* sent again: one copy more, and one loss more.
LEMMA CopiesOfLostInsert ==
  ASSUME ForwardingInv, CopiesInv, NEW h \in handlers, InsertLost(h), NEW n \in Line
  PROVE  Copies(n)' <= 1 + lostReplies' + restarts'
<1>1. /\ h.stage = "received"
      /\ stored' = stored \o Accepted(h.lines)
      /\ handlers' = handlers \ {h}
      /\ lostReplies' = lostReplies + 1 /\ restarts' = restarts
  BY DEF InsertLost, Answer
<1>2. UnderWay(n)' = UnderWay(n) \ {h}
  BY <1>1 DEF UnderWay
<1>3. /\ IsFiniteSet(UnderWay(n)) /\ Cardinality(UnderWay(n)) \in Nat
      /\ lostReplies \in Nat /\ restarts \in Nat
  BY CopiesTypes DEF ForwardingInv
<1>4. /\ Times(n) \in Nat /\ Times(n)' \in Nat /\ Times(n)' <= Times(n) + 1
      /\ n \notin Range(h.lines) => Times(n)' = Times(n)
  BY <1>1, TimesAdded
<1>5. Cardinality(UnderWay(n)') \in Nat
        /\ Cardinality(UnderWay(n)')
             = IF h \in UnderWay(n) THEN Cardinality(UnderWay(n)) - 1
                                    ELSE Cardinality(UnderWay(n))
  BY <1>2, <1>3, FS_RemoveElement, FS_CardinalityType
<1>6. n \in Range(h.lines) => h \in UnderWay(n)
  BY <1>1 DEF UnderWay
<1> DEFINE p == IF ToSend(n) THEN 1 ELSE 0
           q == IF ToSend(n)' THEN 1 ELSE 0
<1>7. Copies(n) = Times(n) + Cardinality(UnderWay(n)) + p
  BY DEF Copies
<1>8. Copies(n)' = Times(n)' + Cardinality(UnderWay(n)') + q
  BY DEF Copies
<1>9. Copies(n) <= 1 + lostReplies + restarts /\ p \in {0, 1} /\ q \in {0, 1}
  BY DEF CopiesInv
<1> HIDE DEF p, q
<1> QED
  BY <1>1, <1>3, <1>4, <1>5, <1>6, <1>7, <1>8, <1>9

LEMMA CopiesNext ==
  ForwardingInv /\ CopiesInv /\ [NextForwarding]_forwardingVars => CopiesInv'
<1> SUFFICES ASSUME ForwardingInv, CopiesInv, NextForwarding \/ UNCHANGED forwardingVars
             PROVE  CopiesInv'
  OBVIOUS
<1> USE DEF ForwardingInv
<1>1. Numbered'
  <2>1. CASE UNCHANGED forwardingVars
    BY <2>1 DEF forwardingVars, vars, CopiesInv, Numbered
  <2> QED
    BY <2>1, NumberedNext DEF CopiesInv
<1>2. \A h \in handlers' : IsInjective(h.lines)
  <2>1. CASE handlers' \subseteq handlers
    BY <2>1 DEF CopiesInv
  <2>2. CASE SendLogs
    <3>1. PICK call :
            handlers' = handlers \cup {[call |-> call, lines |-> entries, stage |-> "received"]}
      BY <2>2 DEF SendLogs
    <3>2. IsInjective(entries)
      BY <2>2, SentOnce DEF SendLogs, CopiesInv
    <3> QED
      BY <3>1, <3>2 DEF CopiesInv
  <2>3. ASSUME NEW h \in handlers, InsertLines(h)
        PROVE  \A k \in handlers' : IsInjective(k.lines)
    <3>1. h \in Handler /\ IsInjective(h.lines)
      BY DEF HandlersInv, CopiesInv
    <3>2. PICK g : g = [h EXCEPT !.stage = "inserted"] /\ g.lines = h.lines
      BY <3>1, InsertedHandler
    <3>3. \A k \in handlers' : k \in handlers \/ k = g
      BY <2>3, <3>2 DEF InsertLines
    <3> QED
      BY <3>1, <3>2, <3>3 DEF CopiesInv
  <2> QED
    BY <2>1, <2>2, <2>3
    DEF NextForwarding, LoopStep, Agent, NotSent, ConnectionLost, Restart, Hub,
        Refuse, InsertLost, Acknowledge, Answer, DropHandler, forwardingVars
<1>3. ASSUME NEW n \in Line PROVE Copies(n)' <= 1 + lostReplies' + restarts'
  <2>t. lostReplies \in Nat /\ restarts \in Nat
    BY CopiesTypes
  <2>1. ASSUME UNCHANGED <<stored, lostReplies, restarts>>, handlers' \subseteq handlers,
               ToSend(n)' => ToSend(n)
        PROVE  Copies(n)' <= 1 + lostReplies' + restarts'
    <3>1. UnderWay(n)' \subseteq UnderWay(n)
      BY <2>1 DEF UnderWay
    <3>2. 1 + lostReplies' + restarts' = 1 + lostReplies + restarts + 0
      BY <2>1, <2>t
    <3> QED
      BY <2>1, <3>1, <3>2, CopiesWithoutInsert
  <2>2. CASE LoopStep
    <3>1. UNCHANGED <<stored, lostReplies, restarts, handlers>>
      BY <2>2 DEF LoopStep, TailerSend, TailerEnds, Stop, Loop, Receive, Cancelled, Tick
    <3> QED
      BY <2>1, <2>2, <3>1, LoopSendsNoMore
  <2>3. CASE SendLogs
    BY <2>3, CopiesOfRequest
  <2>4. CASE NotSent
    <3>1. PutBack /\ UNCHANGED <<stored, lostReplies, restarts, handlers, awaited>>
      BY <2>4 DEF NotSent, FlushErr
    <3>2. Pending' = Pending /\ UNCHANGED <<emitted, rx>>
      BY <3>1, PendingOfFlush DEF PutBack
    <3> QED
      BY <2>1, <3>1, <3>2 DEF ToSend
  <2>5. CASE ConnectionLost \/ Restart
    <3>1. /\ stored' = stored /\ handlers' = handlers
          /\ \/ lostReplies' = lostReplies + 1 /\ restarts' = restarts
             \/ lostReplies' = lostReplies /\ restarts' = restarts + 1
      BY <2>5 DEF ConnectionLost, Restart
    <3>2. 1 + lostReplies' + restarts' = 1 + lostReplies + restarts + 1
      BY <2>t, <3>1
    <3>3. UnderWay(n)' \subseteq UnderWay(n)
      BY <3>1 DEF UnderWay
    <3> QED
      BY <3>1, <3>2, <3>3, CopiesWithoutInsert
  <2>6. ASSUME NEW h \in handlers, h.call # awaited,
               Refuse(h) \/ Acknowledge(h) \/ DropHandler(h)
        PROVE  Copies(n)' <= 1 + lostReplies' + restarts'
    <3>1. /\ handlers' \subseteq handlers
          /\ UNCHANGED <<emitted, rx, batch, entries, awaited>>
          /\ UNCHANGED <<stored, lostReplies, restarts>>
      BY <2>6 DEF Refuse, Acknowledge, DropHandler, Answer, vars
    <3>2. ToSend(n)' => ToSend(n)
      BY <3>1 DEF ToSend, Pending
    <3> QED
      BY <2>1, <3>1, <3>2
  <2>7. ASSUME NEW h \in handlers, h.call = awaited, Refuse(h)
        PROVE  Copies(n)' <= 1 + lostReplies' + restarts'
    <3>1. /\ PutBack /\ handlers' = handlers \ {h} /\ h.stage = "received"
          /\ UNCHANGED <<stored, lostReplies, restarts>>
      BY <2>7 DEF Refuse, Answer
    <3>2. h.lines = entries
      BY <2>7 DEF HandlersInv
    <3>3. pc \in {"flush", "final"} /\ UNCHANGED <<emitted, rx>>
      BY <3>1 DEF PutBack
    <3>4. Pending' = entries
      BY <3>1, <3>3, PendingOfFlush
    <3>5. CASE n \in Range(entries)
      <4>1. h \in UnderWay(n) /\ h \notin UnderWay(n)' /\ UnderWay(n)' \subseteq UnderWay(n)
        BY <3>1, <3>2, <3>5 DEF UnderWay
      <4>2. 1 + lostReplies' + restarts' = 1 + lostReplies + restarts + 0
        BY <2>t, <3>1
      <4> QED
        BY <3>1, <4>1, <4>2, CopiesWithoutInsert
    <3>6. CASE n \notin Range(entries)
      <4>1. ToSend(n)' => ToSend(n)
        BY <3>3, <3>4, <3>6 DEF ToSend
      <4> QED
        BY <2>1, <3>1, <4>1
    <3> QED
      BY <3>5, <3>6
  <2>8. ASSUME NEW h \in handlers, h.call = awaited, Acknowledge(h)
        PROVE  Copies(n)' <= 1 + lostReplies' + restarts'
    <3>1. /\ Confirm /\ handlers' \subseteq handlers
          /\ UNCHANGED <<stored, lostReplies, restarts>>
      BY <2>8 DEF Acknowledge, Answer
    <3>2. pc \in {"flush", "final"} /\ UNCHANGED <<emitted, rx>>
      BY <3>1 DEF Confirm
    <3>3. Range(Pending') = {}
      <4>1. Pending' = <<>> /\ <<>> \in Seq(Line) /\ Len(<<>>) = 0
        BY <3>1, <3>2, PendingOfFlush, EmptySeq
      <4>2. Range(<<>>) = {<<>>[i] : i \in 1 .. 0}
        BY <4>1, RangeEquality
      <4> QED
        BY <4>1, <4>2
    <3>4. ToSend(n)' => ToSend(n)
      BY <3>2, <3>3 DEF ToSend
    <3> QED
      BY <2>1, <3>1, <3>4
  <2>9. CASE Hub
    <3>1. PICK h \in handlers :
            \/ Refuse(h) \/ InsertLines(h) \/ InsertLost(h)
            \/ Acknowledge(h) \/ DropHandler(h)
      BY <2>9 DEF Hub
    <3>2. h.call = awaited => ~DropHandler(h)
      BY DEF DropHandler
    <3> QED
      BY <2>6, <2>7, <2>8, <3>1, <3>2, CopiesOfInsert, CopiesOfLostInsert
  <2>10. CASE UNCHANGED forwardingVars
    <3>1. UNCHANGED <<stored, lostReplies, restarts, handlers, awaited, emitted, rx,
                      entries, batch>>
      BY <2>10 DEF forwardingVars, vars
    <3> QED
      BY <2>1, <3>1 DEF ToSend, Pending
  <2> QED
    BY <2>2, <2>3, <2>4, <2>5, <2>9, <2>10 DEF NextForwarding, Agent
<1> QED
  BY <1>1, <1>2, <1>3 DEF CopiesInv

LEMMA CopiesInit == InitForwarding => CopiesInv
<1> SUFFICES ASSUME InitForwarding PROVE CopiesInv
  OBVIOUS
<1>1. /\ kept = <<>> /\ rx = <<>> /\ stored = <<>> /\ handlers = {}
      /\ lostReplies = 0 /\ restarts = 0 /\ Len(<<>>) = 0
  BY DEF InitForwarding, Init
<1>2. Numbered
  BY <1>1 DEF Numbered
<1>3. ASSUME NEW n \in Line PROVE Copies(n) <= 1 + lostReplies + restarts
  <2>1. {i \in 1 .. Len(stored) : stored[i] = n} = {} /\ UnderWay(n) = {}
    BY <1>1 DEF UnderWay
  <2>2. Times(n) = 0 /\ Cardinality(UnderWay(n)) = 0
    BY <2>1, FS_EmptySet DEF Times
  <2> QED
    BY <1>1, <2>2 DEF Copies
<1> QED
  BY <1>1, <1>2, <1>3 DEF CopiesInv

\* No line is in the hub's table more often than lost answers, lost results of an
\* insert and runs cut short explain (the retries of scanner.rs:197, the late
\* handlers of hub/grpc.rs and its answer to a statement that failed,
\* RepeatsAreAccountedFor).
THEOREM RepeatsHaveACause == ForwardingSpec => []RepeatsAreAccountedFor
<1>1. ForwardingInv /\ CopiesInv => RepeatsAreAccountedFor
  <2> SUFFICES ASSUME ForwardingInv, CopiesInv, NEW n \in Line
               PROVE  Times(n) <= 1 + lostReplies + restarts
    BY DEF RepeatsAreAccountedFor
  <2>1. /\ Times(n) \in Nat /\ lostReplies \in Nat /\ restarts \in Nat
        /\ Cardinality(UnderWay(n)) \in Nat
    BY CopiesTypes
  <2>2. Copies(n) <= 1 + lostReplies + restarts
    BY DEF CopiesInv
  <2>3. Copies(n) \in {Times(n) + Cardinality(UnderWay(n)) + 0,
                       Times(n) + Cardinality(UnderWay(n)) + 1}
    BY DEF Copies
  <2> QED
    BY <2>1, <2>2, <2>3
<1> QED
  BY <1>1, ForwardingInit, ForwardingNext, CopiesInit, CopiesNext, PTL DEF ForwardingSpec
=============================================================================

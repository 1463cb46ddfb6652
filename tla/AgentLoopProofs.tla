----------------------------- MODULE AgentLoopProofs -----------------------------
(***************************************************************************)
(* The agent's loop, proved for every number of lines and every capacity   *)
(* of the channels, size of the buffer and size of a batch.                *)
(*                                                                         *)
(* A line is known by its place in what was read.  LoopInv says that the   *)
(* places run on without a gap through the request under way, the buffer,  *)
(* the channels and the thread: each of the four is a run of consecutive   *)
(* places that begins where the one before it ends.  Done is the last      *)
(* place in front of them; what reached the hub, failed or was dropped     *)
(* lies at or before it.                                                   *)
(***************************************************************************)
EXTENDS FiniteSetTheorems, SequenceTheorems, AgentLoop, TLAPS

-----------------------------------------------------------------------------
(* Runs of consecutive places.                                             *)

Consecutive(s, n) == s \in Seq(Nat) /\ \A i \in 1 .. Len(s) : s[i] = n + i

LEMMA EmptyRun == ASSUME NEW n PROVE Consecutive(<<>>, n) /\ Len(<<>>) = 0
BY DEF Consecutive

LEMMA RunHead ==
  ASSUME NEW n \in Nat, NEW s, Consecutive(s, n), s # <<>>
  PROVE  Head(s) = n + 1 /\ Consecutive(Tail(s), n + 1) /\ Len(Tail(s)) = Len(s) - 1
BY DEF Consecutive

LEMMA RunGrows ==
  ASSUME NEW n \in Nat, NEW s, Consecutive(s, n), NEW x, x = n + Len(s) + 1
  PROVE  Consecutive(Append(s, x), n) /\ Len(Append(s, x)) = Len(s) + 1
BY DEF Consecutive

LEMMA RunCut ==
  ASSUME NEW n \in Nat, NEW s, Consecutive(s, n), NEW m \in 0 .. Len(s)
  PROVE  /\ Consecutive(SubSeq(s, 1, m), n) /\ Len(SubSeq(s, 1, m)) = m
         /\ Consecutive(SubSeq(s, m + 1, Len(s)), n + m)
         /\ Len(SubSeq(s, m + 1, Len(s))) = Len(s) - m
<1>1. s \in Seq(Nat) /\ Len(s) \in Nat /\ \A i \in 1 .. Len(s) : s[i] = n + i
  BY DEF Consecutive
<1>2. /\ SubSeq(s, 1, m) \in Seq(Nat) /\ Len(SubSeq(s, 1, m)) = m
      /\ \A i \in 1 .. m : SubSeq(s, 1, m)[i] = n + i
  BY <1>1
<1>3. /\ SubSeq(s, m + 1, Len(s)) \in Seq(Nat) /\ Len(SubSeq(s, m + 1, Len(s))) = Len(s) - m
      /\ \A i \in 1 .. Len(s) - m : SubSeq(s, m + 1, Len(s))[i] = (n + m) + i
  BY <1>1
<1> QED
  BY <1>2, <1>3 DEF Consecutive

LEMMA RunPlaces ==
  ASSUME NEW n \in Nat, NEW s, Consecutive(s, n), NEW m \in Nat, n + Len(s) <= m
  PROVE  s \in Seq(1 .. m)
BY DEF Consecutive

LEMMA RunAsSet ==
  ASSUME NEW n \in Nat, NEW s, Consecutive(s, n)
  PROVE  ToSet(s) = n + 1 .. n + Len(s)
<1>1. DOMAIN s = 1 .. Len(s) /\ Len(s) \in Nat /\ \A i \in 1 .. Len(s) : s[i] = n + i
  BY DEF Consecutive
<1>2. ASSUME NEW x \in n + 1 .. n + Len(s) PROVE x \in ToSet(s)
  <2>1. x - n \in 1 .. Len(s) /\ s[x - n] = x
    BY <1>1
  <2> QED
    BY <1>1, <2>1 DEF ToSet
<1>3. ASSUME NEW x \in ToSet(s) PROVE x \in n + 1 .. n + Len(s)
  BY <1>1 DEF ToSet
<1> QED
  BY <1>2, <1>3

LEMMA WiderSeq ==
  ASSUME NEW S, NEW T, S \subseteq T, NEW s \in Seq(S) PROVE s \in Seq(T)
OBVIOUS

LEMMA NarrowSeq ==
  ASSUME NEW S, NEW T, NEW s \in Seq(S), \A i \in 1 .. Len(s) : s[i] \in T
  PROVE  s \in Seq(T)
OBVIOUS

LEMMA ToSetOfConcatenation ==
  ASSUME NEW U, NEW V, NEW t \in Seq(U), NEW u \in Seq(V)
  PROVE  ToSet(t \o u) = ToSet(t) \cup ToSet(u)
<1>1. PICK m \in Nat, n \in Nat : m = Len(t) /\ n = Len(u)
  BY LenProperties
<1>2. DOMAIN t = 1 .. m /\ DOMAIN u = 1 .. n /\ DOMAIN (t \o u) = 1 .. m + n
  BY <1>1
<1>3. /\ \A i \in 1 .. m : (t \o u)[i] = t[i]
      /\ \A i \in 1 .. n : (t \o u)[m + i] = u[i] /\ m + i \in 1 .. m + n
  BY <1>1
<1>4. ASSUME NEW x \in ToSet(t \o u) PROVE x \in ToSet(t) \cup ToSet(u)
  <2>1. PICK i \in 1 .. m + n : x = (t \o u)[i]
    BY <1>2 DEF ToSet
  <2>2. i \in 1 .. m \/ (i - m \in 1 .. n /\ i = m + (i - m))
    OBVIOUS
  <2> QED
    BY <1>2, <1>3, <2>1, <2>2 DEF ToSet
<1>5. ASSUME NEW x \in ToSet(t) \cup ToSet(u) PROVE x \in ToSet(t \o u)
  <2>1. CASE x \in ToSet(t)
    <3>1. PICK i \in 1 .. m : x = t[i]
      BY <1>2, <2>1 DEF ToSet
    <3>2. i \in 1 .. m + n
      OBVIOUS
    <3> QED
      BY <1>2, <1>3, <3>1, <3>2 DEF ToSet
  <2>2. CASE x \in ToSet(u)
    <3>1. PICK i \in 1 .. n : x = u[i]
      BY <1>2, <2>2 DEF ToSet
    <3> QED
      BY <1>2, <1>3, <3>1 DEF ToSet
  <2> QED
    BY <2>1, <2>2
<1> QED
  BY <1>4, <1>5

-----------------------------------------------------------------------------
(* The invariant.                                                          *)

\* The thread and the channels.
QueueInv ==
  /\ written \in 0 .. MaxLines /\ offset \in 0 .. written /\ events \in 0 .. written
  /\ size \in {None} \cup offset + 1 .. written
  /\ watcher \in {"placed", "dropped"} /\ tailing \in BOOLEAN
  /\ read \in Seq(Line)
  /\ size # None => pending = <<>>
  /\ Taken \in Nat /\ Len(stream) <= StreamCap
  /\ Consecutive(stream, Taken)
  /\ Consecutive(pending, Taken + Len(stream))

\* Places that are behind the loop.
Done == Taken - Len(buf) - Len(sending)

\* The buffer and the request under way.
BufferInv ==
  /\ config \in [bufferMax : BufferSizes, batchSize : BatchSizes]
  /\ loop \in {"starting", "select", "metric", "flush", "parked"}
  /\ client \in {"free", "loop", "sink"}
  /\ Done \in Nat
  /\ Consecutive(sending, Done)
  /\ Consecutive(buf, Done + Len(sending))
  /\ Len(buf) <= BufferMax /\ (BatchSize > 0 => Len(buf) < BatchSize)
  /\ loop # "flush" => sending = <<>>

Lost == 1 .. Done \ (ToSet(received) \cup failed)

\* What became of the places behind the loop.
HubInv ==
  /\ received \in Seq(1 .. Done)
  /\ \A i, j \in 1 .. Len(received) : i < j => received[i] < received[j]
  /\ failed \subseteq 1 .. Done
  /\ Cardinality(Lost) = totalDropped
  /\ dropped \in Nat /\ reported \in Nat /\ reported + dropped = totalDropped

LoopInv == QueueInv /\ BufferInv /\ HubInv

LEMMA LoopInit == Init => LoopInv
<1> SUFFICES ASSUME Init PROVE LoopInv
  OBVIOUS
<1>1. /\ read = <<>> /\ pending = <<>> /\ stream = <<>> /\ buf = <<>> /\ sending = <<>>
      /\ received = <<>> /\ failed = {}
  BY DEF Init
<1>2. Taken = 0 /\ Done = 0
  <2>1. \A s : s = <<>> => Len(s) = 0
    OBVIOUS
  <2>2. /\ Len(read) = 0 /\ Len(pending) = 0 /\ Len(stream) = 0
        /\ Len(buf) = 0 /\ Len(sending) = 0
    BY <1>1, <2>1
  <2> QED
    BY <2>2 DEF Taken, Done
<1>3. QueueInv
  BY <1>1, <1>2, EmptyRun, AgentLoopAssumption DEF QueueInv, Init, AgentLoopAssumption, None
<1>4. config.batchSize \in Nat /\ config.bufferMax \in Nat
  BY AgentLoopAssumption DEF Init, AgentLoopAssumption
<1>5. BufferInv
  BY <1>1, <1>2, <1>4, EmptyRun DEF BufferInv, Init, BatchSize, BufferMax
<1>6. Lost = {}
  BY <1>2 DEF Lost
<1>7. HubInv
  BY <1>1, <1>2, <1>6, FS_EmptySet DEF HubInv, Init
<1> QED
  BY <1>3, <1>5, <1>7 DEF LoopInv

\* The invariant has the properties in it.
LEMMA LoopInvImplies ==
  ASSUME LoopInv PROVE TypeOK /\ BufferIsNewest /\ OverflowIsCounted /\ AtMostOnceInOrder
<1> USE DEF LoopInv
<1>1. /\ Len(read) \in Nat /\ Len(pending) \in Nat /\ Len(stream) \in Nat /\ Taken \in Nat
      /\ Taken = Len(read) - Len(pending) - Len(stream)
  BY DEF QueueInv, Consecutive, Taken
<1>2. /\ Len(buf) \in Nat /\ Len(sending) \in Nat /\ Done \in Nat
      /\ Taken = Done + Len(sending) + Len(buf)
  BY <1>1 DEF BufferInv, Consecutive, Done
<1>3. /\ ToSet(sending) = Done + 1 .. Done + Len(sending)
      /\ ToSet(buf) = Done + Len(sending) + 1 .. Taken
  BY <1>2, RunAsSet DEF BufferInv
<1>4. Lost \subseteq 1 .. Done /\ totalDropped \in 0 .. Done
  <2> DEFINE S == 1 .. Done
  <2>1. IsFiniteSet(S) /\ Cardinality(S) = Done
    <3>1. PICK d \in Nat : d = Done
      BY <1>2
    <3>2. IsFiniteSet(1 .. d) /\ Cardinality(1 .. d) = d
      BY FS_Interval
    <3> QED
      BY <3>1, <3>2
  <2> HIDE DEF S
  <2>4. Lost \in SUBSET S
    BY DEF Lost, S
  <2>2. IsFiniteSet(Lost) /\ Cardinality(Lost) <= Done
    BY <2>1, <2>4, FS_Subset
  <2>3. Cardinality(Lost) \in Nat
    BY <2>2, FS_CardinalityType
  <2> QED
    BY <1>2, <2>4, <2>2, <2>3 DEF HubInv, S
<1>5. TypeOK
  <2>1. pending \in Seq(Place) /\ stream \in Seq(Place)
    BY <1>1, RunPlaces DEF QueueInv, Place
  <2>2. buf \in Seq(Place) /\ sending \in Seq(Place)
    BY <1>1, <1>2, RunPlaces DEF BufferInv, Place
  <2>3. 1 .. Done \subseteq Place
    <3>1. Done <= Len(read)
      BY <1>1, <1>2
    <3> QED
      BY <1>1, <1>2, <3>1 DEF Place
  <2>4. received \in Seq(Place) /\ failed \subseteq Place
    BY <2>3, WiderSeq DEF HubInv
  <2>5. {dropped, totalDropped, reported} \subseteq 0 .. Len(read)
    BY <1>1, <1>2, <1>4 DEF HubInv
  <2>6. events \in 0 .. MaxLines
    BY AgentLoopAssumption DEF AgentLoopAssumption, QueueInv
  <2> QED
    BY <2>1, <2>2, <2>4, <2>5, <2>6 DEF TypeOK, QueueInv, BufferInv
<1>6. BufferIsNewest
  <2>1. \A i \in 1 .. Len(buf) : buf[i] = Done + Len(sending) + i
    BY DEF BufferInv, Consecutive
  <2>2. Taken - Len(buf) = Done + Len(sending)
    BY <1>1, <1>2
  <2> QED
    BY <2>1, <2>2 DEF BufferIsNewest
<1>7. OverflowIsCounted
  <2>1. ToSet(buf \o sending \o received) = ToSet(buf) \cup ToSet(sending) \cup ToSet(received)
    <3>1. buf \in Seq(Nat) /\ sending \in Seq(Nat) /\ received \in Seq(1 .. Done)
      BY DEF BufferInv, HubInv, Consecutive
    <3>2. PICK front \in Seq(Nat) : front = buf \o sending
      BY <3>1, ConcatProperties
    <3>3. ToSet(front) = ToSet(buf) \cup ToSet(sending)
      BY <3>1, <3>2, ToSetOfConcatenation
    <3>4. ToSet(front \o received) = ToSet(front) \cup ToSet(received)
      BY <3>1, ToSetOfConcatenation
    <3> QED
      BY <3>2, <3>3, <3>4
  <2>2. 1 .. Taken \ (ToSet(buf \o sending \o received) \cup failed) = Lost
    BY <1>2, <1>3, <2>1 DEF Lost
  <2> QED
    BY <2>2 DEF OverflowIsCounted, HubInv
<1>8. AtMostOnceInOrder
  <2> DEFINE all == received \o sending
  <2>1. PICK m \in Nat : m = Len(received)
    BY LenProperties DEF HubInv
  <2>2. received \in Seq(Nat) /\ sending \in Seq(Nat)
    BY DEF BufferInv, HubInv, Consecutive
  <2>3. /\ Len(all) = m + Len(sending)
        /\ \A i \in 1 .. m : all[i] = received[i] /\ all[i] \in 1 .. Done
        /\ \A i \in m + 1 .. m + Len(sending) : all[i] = Done + (i - m)
    <3>1. /\ received \in Seq(1 .. Done)
          /\ \A i \in 1 .. Len(sending) : sending[i] = Done + i
      BY DEF BufferInv, HubInv, Consecutive
    <3> QED
      BY <1>2, <2>1, <2>2, <3>1
  <2> HIDE DEF all
  <2>4. ASSUME NEW i \in 1 .. Len(all), NEW j \in 1 .. Len(all), i < j
        PROVE  all[i] < all[j]
    <3>1. CASE j <= m
      <4>1. i \in 1 .. Len(received) /\ j \in 1 .. Len(received)
        BY <2>1, <2>4, <3>1
      <4> QED
        BY <2>1, <2>3, <2>4, <4>1 DEF HubInv
    <3>2. CASE m < j /\ i <= m
      BY <1>2, <2>1, <2>3, <2>4, <3>2
    <3>3. CASE m < i
      BY <1>2, <2>1, <2>3, <2>4, <3>3
    <3> QED
      BY <2>1, <2>3, <3>1, <3>2, <3>3
  <2> QED
    BY <2>4 DEF AtMostOnceInOrder, all
<1> QED
  BY <1>5, <1>6, <1>7, <1>8

-----------------------------------------------------------------------------
(* The steps.  Those of the thread and of the calls move lines within the  *)
(* runs and leave Taken alone; only TakeLine advances it.                  *)

LEMMA SameBuffer ==
  ASSUME BufferInv, Taken' = Taken, UNCHANGED <<config, buf, sending>>,
         loop' \in {"starting", "select", "metric", "flush", "parked"},
         client' \in {"free", "loop", "sink"},
         loop' = loop \/ loop # "flush"
  PROVE  BufferInv' /\ Done' = Done
<1>1. Done' = Done
  BY DEF Done
<1> QED
  BY <1>1 DEF BufferInv, BatchSize, BufferMax

LEMMA SameHub ==
  ASSUME HubInv, Done' = Done, UNCHANGED <<received, failed, dropped, totalDropped, reported>>
  PROVE  HubInv'
BY DEF HubInv, Lost

LEMMA SameQueue ==
  ASSUME QueueInv, UNCHANGED <<tailVars, stream>> PROVE QueueInv' /\ Taken' = Taken
BY DEF QueueInv, Taken, tailVars, Line

LEMMA TailingStep ==
  ASSUME QueueInv, WriteLine \/ WatcherGone \/ Tailing PROVE QueueInv' /\ Taken' = Taken
<1>1. CASE WriteLine
  BY <1>1, AgentLoopAssumption DEF WriteLine, QueueInv, Taken, Line, AgentLoopAssumption, None
<1>2. CASE WatcherGone
  BY <1>2 DEF WatcherGone, QueueInv, Taken, Line
<1>3. CASE BeginRead
  BY <1>3 DEF BeginRead, QueueInv, Taken, Line, None
<1>4. CASE ReadNewLines
  <2>1. /\ written \in Nat /\ offset \in 0 .. written /\ size \in offset + 1 .. written
        /\ pending = <<>> /\ read \in Seq(Line) /\ written <= MaxLines
        /\ Len(stream) \in Nat /\ Taken \in Nat
    BY <1>4, AgentLoopAssumption DEF ReadNewLines, QueueInv, Consecutive, AgentLoopAssumption
  <2>2. PICK k \in Nat : k = written - offset
    BY <2>1
  <2> DEFINE new == [i \in 1 .. k |-> offset + i]
             places == [i \in 1 .. k |-> Len(read) + i]
  <2>3. /\ read' = read \o new /\ pending' = places
        /\ offset' = size /\ size' = None
        /\ UNCHANGED <<written, watcher, events, tailing, stream>>
    BY <1>4, <2>2 DEF ReadNewLines
  <2>4. new \in Seq(Line) /\ Len(new) = k
    BY <2>1, <2>2, AgentLoopAssumption DEF Line, AgentLoopAssumption
  <2>5. read' \in Seq(Line) /\ Len(read') = Len(read) + k
    BY <2>1, <2>3, <2>4
  <2>6. Len(read) \in Nat /\ Len(read) = Taken + Len(stream)
    <3>1. Len(pending) = 0 /\ Len(read) \in Nat
      BY <2>1
    <3> QED
      BY <2>1, <3>1 DEF Taken
  <2>7. Len(pending') = k /\ Consecutive(pending', Taken + Len(stream))
    BY <2>1, <2>3, <2>6 DEF Consecutive
  <2>8. Taken' = Taken
    BY <2>1, <2>3, <2>5, <2>6, <2>7 DEF Taken
  <2>9. offset' \in 0 .. written' /\ size' = None
    BY <2>1, <2>3
  <2> QED
    BY <2>3, <2>5, <2>7, <2>8, <2>9 DEF QueueInv
<1>5. CASE SendLine
  <2>1. /\ pending # <<>> /\ Len(stream) < StreamCap
        /\ stream' = Append(stream, Head(pending)) /\ pending' = Tail(pending)
        /\ UNCHANGED <<written, watcher, events, offset, size, read, tailing>>
    BY <1>5 DEF SendLine
  <2>2. /\ Taken \in Nat /\ Len(stream) \in Nat /\ Len(pending) \in Nat /\ Len(read) \in Nat
        /\ Consecutive(stream, Taken) /\ Consecutive(pending, Taken + Len(stream))
    BY DEF QueueInv, Consecutive
  <2>3. PICK n \in Nat : n = Taken + Len(stream)
    BY <2>2
  <2>4. /\ Head(pending) = n + 1 /\ Consecutive(pending', n + 1)
        /\ Len(pending') = Len(pending) - 1
    BY <2>1, <2>2, <2>3, RunHead
  <2>5. Consecutive(stream', Taken) /\ Len(stream') = Len(stream) + 1
    BY <2>1, <2>2, <2>3, <2>4, RunGrows
  <2>6. Taken' = Taken
    BY <2>1, <2>2, <2>4, <2>5 DEF Taken
  <2>7. Taken' + Len(stream') = n + 1 /\ Len(stream') <= StreamCap
    BY <2>1, <2>2, <2>3, <2>5, <2>6, AgentLoopAssumption DEF AgentLoopAssumption
  <2>8. size # None => FALSE
    BY <2>1 DEF QueueInv
  <2> QED
    BY <2>1, <2>2, <2>4, <2>5, <2>6, <2>7, <2>8 DEF QueueInv
<1>6. CASE TailingEnds
  BY <1>6 DEF TailingEnds, QueueInv, Taken, Line
<1> QED
  BY <1>1, <1>2, <1>3, <1>4, <1>5, <1>6 DEF Tailing

\* A flush cuts a run in two; what is left of a batch at most is nothing.
LEMMA FlushCuts ==
  ASSUME NEW n \in Nat, NEW b, Consecutive(b, n), BatchSize \in Nat,
         BatchSize > 0 => Len(b) <= BatchSize, Flush(b)
  PROVE  /\ Consecutive(sending', n) /\ Consecutive(buf', n + Len(sending'))
         /\ Len(sending') + Len(buf') = Len(b) /\ Len(buf') <= Len(b)
         /\ BatchSize > 0 => Len(buf') = 0
         /\ loop' = "flush"
<1>1. Len(b) \in Nat
  BY DEF Consecutive
<1>2. PICK m \in 0 .. Len(b) : m = IF Len(b) < BatchSize THEN Len(b) ELSE BatchSize
  BY <1>1
<1>3. BatchSize > 0 => m = Len(b)
  BY <1>1, <1>2
<1>4. sending' = SubSeq(b, 1, m) /\ loop' = "flush"
  BY <1>2 DEF Flush
<1>5. Consecutive(sending', n) /\ Len(sending') = m
  BY <1>4, RunCut
<1>6. buf' = SubSeq(b, m + 1, Len(b))
  BY <1>5 DEF Flush
<1>7. Consecutive(buf', n + m) /\ Len(buf') = Len(b) - m
  BY <1>6, RunCut
<1> QED
  BY <1>1, <1>3, <1>4, <1>5, <1>7

LEMMA SizesAreNatural ==
  ASSUME BufferInv
  PROVE  /\ BatchSize \in Nat /\ BufferMax \in Nat \ {0}
         /\ Len(buf) \in Nat /\ Len(sending) \in Nat
<1>1. config.batchSize \in BatchSizes /\ config.bufferMax \in BufferSizes
  BY DEF BufferInv
<1>2. BatchSizes \subseteq Nat /\ BufferSizes \subseteq Nat \ {0}
  BY AgentLoopAssumption DEF AgentLoopAssumption
<1>3. Len(buf) \in Nat /\ Len(sending) \in Nat
  BY DEF BufferInv, Consecutive
<1> QED
  BY <1>1, <1>2, <1>3 DEF BatchSize, BufferMax

LEMMA FlushTickStep ==
  ASSUME LoopInv, FlushTick, config' = config PROVE LoopInv'
<1> USE DEF LoopInv
<1>1. /\ Flush(buf) /\ UNCHANGED <<tailVars, stream, dropped, totalDropped, client, hubVars>>
      /\ sending = <<>>
  BY DEF FlushTick, BufferInv
<1>2. QueueInv' /\ Taken' = Taken
  BY <1>1, SameQueue
<1>3. Len(sending) = 0 /\ Taken \in Nat
  BY <1>1 DEF QueueInv
<1>4. Consecutive(buf, Done) /\ Done = Taken - Len(buf) /\ Done \in Nat
  BY <1>3, SizesAreNatural DEF Done, BufferInv
<1>5. /\ Consecutive(sending', Done) /\ Consecutive(buf', Done + Len(sending'))
      /\ Len(sending') + Len(buf') = Len(buf) /\ Len(buf') <= Len(buf)
      /\ BatchSize > 0 => Len(buf') = 0
      /\ loop' = "flush"
  BY <1>1, <1>4, SizesAreNatural, FlushCuts DEF BufferInv
<1>6. Done' = Done
  <2>1. Len(sending') \in Nat
    BY <1>5 DEF Consecutive
  <2> QED
    BY <1>2, <1>3, <1>4, <1>5, <2>1, SizesAreNatural DEF Done
<1>7. BufferInv'
  BY <1>1, <1>5, <1>6, SizesAreNatural DEF BufferInv, BatchSize, BufferMax
<1>8. HubInv'
  BY <1>1, <1>6, SameHub DEF hubVars
<1> QED
  BY <1>2, <1>7, <1>8

\* What push leaves in the buffer: the newest lines with the one that came, an
\* older one dropped if need be.
LEMMA PushedRun ==
  ASSUME BufferInv, Taken \in Nat, sending = <<>>, NEW push, push = Pushed(Taken + 1)
  PROVE  /\ push.evicted \in {0, 1}
         /\ Consecutive(push.buf, Done + push.evicted)
         /\ Len(push.buf) = Len(buf) + 1 - push.evicted
         /\ Len(push.buf) <= BufferMax /\ (BatchSize > 0 => Len(push.buf) <= BatchSize)
<1> DEFINE e == IF Len(buf) < BufferMax THEN 0 ELSE Len(buf) - BufferMax + 1
<1>1. /\ Len(buf) \in Nat /\ BufferMax \in Nat \ {0} /\ BatchSize \in Nat
      /\ Len(buf) <= BufferMax /\ (BatchSize > 0 => Len(buf) < BatchSize)
  BY SizesAreNatural DEF BufferInv
<1>2. e \in {0, 1} /\ e \in 0 .. Len(buf) /\ (e = 0 => Len(buf) < BufferMax)
  BY <1>1
<1>3. push = [buf |-> Append(SubSeq(buf, e + 1, Len(buf)), Taken + 1), evicted |-> e]
  BY DEF Pushed
<1> HIDE DEF e
<1>4. PICK rest : rest = SubSeq(buf, e + 1, Len(buf))
  OBVIOUS
<1>5. Consecutive(buf, Done) /\ Done \in Nat /\ Done + Len(buf) = Taken
  <2>1. Len(sending) = 0
    OBVIOUS
  <2> QED
    BY <1>1, <2>1 DEF BufferInv, Done
<1>6. PICK all : all = Append(rest, Taken + 1)
  OBVIOUS
<1>7. Consecutive(rest, Done + e) /\ Len(rest) = Len(buf) - e
  BY <1>2, <1>4, <1>5, RunCut
<1>8. Done + e \in Nat /\ Taken + 1 = (Done + e) + Len(rest) + 1
  BY <1>1, <1>2, <1>5, <1>7
<1>9. Consecutive(all, Done + e) /\ Len(all) = Len(rest) + 1
  BY <1>6, <1>7, <1>8, RunGrows
<1>10. push.buf = all /\ push.evicted = e
  <2>1. push = [buf |-> all, evicted |-> e]
    BY <1>3, <1>4, <1>6, Zenon
  <2> QED
    BY <2>1
<1>11. /\ Len(all) = Len(buf) + 1 - e
       /\ Len(all) <= BufferMax /\ (BatchSize > 0 => Len(all) <= BatchSize)
  BY <1>1, <1>2, <1>7, <1>9
<1> QED
  BY <1>2, <1>9, <1>10, <1>11

LEMMA ReceivedPlaces ==
  ASSUME HubInv PROVE ToSet(received) \subseteq 1 .. Done /\ failed \subseteq 1 .. Done
<1>1. \A S : \A s \in Seq(S) : ToSet(s) \subseteq S
  BY DEF ToSet
<1> QED
  BY <1>1 DEF HubInv

\* The count of lost lines goes up by what is dropped.
LEMMA LostGrows ==
  ASSUME HubInv, Done \in Nat, NEW e \in {0, 1}, Done' = Done + e,
         UNCHANGED <<received, failed, reported>>,
         dropped' = dropped + e, totalDropped' = totalDropped + e
  PROVE  HubInv'
<1>1. received' \in Seq(1 .. Done') /\ failed' \subseteq 1 .. Done'
  <2>1. 1 .. Done \subseteq 1 .. Done'
    OBVIOUS
  <2> QED
    BY <2>1, WiderSeq DEF HubInv
<1>2. dropped' \in Nat /\ reported' \in Nat /\ reported' + dropped' = totalDropped'
  BY DEF HubInv
<1>3. Cardinality(Lost') = totalDropped'
  <2>1. CASE e = 0
    <3>1. Lost' = Lost
      BY <2>1 DEF Lost
    <3> QED
      BY <2>1, <3>1 DEF HubInv
  <2>2. CASE e = 1
    <3>1. ToSet(received) \subseteq 1 .. Done /\ failed \subseteq 1 .. Done
      BY ReceivedPlaces
    <3>2. Lost' = Lost \cup {Done + 1} /\ Done + 1 \notin Lost
      BY <2>2, <3>1 DEF Lost
    <3>3. IsFiniteSet(Lost)
      <4>1. PICK S : S = 1 .. Done /\ IsFiniteSet(S)
        BY FS_Interval
      <4>2. Lost \in SUBSET S
        BY <4>1 DEF Lost
      <4> QED
        BY <4>1, <4>2, FS_Subset
    <3>4. Cardinality(Lost') = Cardinality(Lost) + 1
      BY <3>2, <3>3, FS_AddElement
    <3> QED
      BY <2>2, <3>4 DEF HubInv
  <2> QED
    BY <2>1, <2>2
<1> QED
  BY <1>1, <1>2, <1>3 DEF HubInv

LEMMA TakeLineStep ==
  ASSUME LoopInv, TakeLine, config' = config PROVE LoopInv'
<1> USE DEF LoopInv
<1> DEFINE push == Pushed(Head(stream))
<1>1. /\ loop = "select" /\ stream # <<>> /\ stream' = Tail(stream)
      /\ dropped' = dropped + push.evicted
      /\ totalDropped' = totalDropped + push.evicted
      /\ IF Full(push.buf) THEN Flush(push.buf)
           ELSE buf' = push.buf /\ UNCHANGED <<loop, sending>>
      /\ UNCHANGED <<tailVars, client, hubVars>> /\ sending = <<>>
  BY DEF TakeLine, BufferInv
<1>2. /\ Len(read) \in Nat /\ Len(pending) \in Nat /\ Len(stream) \in Nat
      /\ Taken \in Nat /\ Len(stream) <= StreamCap
      /\ Taken = Len(read) - Len(pending) - Len(stream)
      /\ Consecutive(stream, Taken) /\ Consecutive(pending, Taken + Len(stream))
  BY DEF QueueInv, Consecutive, Taken
<1>3. /\ Head(stream) = Taken + 1 /\ Consecutive(stream', Taken + 1)
      /\ Len(stream') = Len(stream) - 1
  BY <1>1, <1>2, RunHead
<1> HIDE DEF push
<1>4. Taken' = Taken + 1
  BY <1>1, <1>2, <1>3 DEF Taken, tailVars
<1>5. QueueInv'
  <2>1. Taken' + Len(stream') = Taken + Len(stream) /\ Len(stream') <= StreamCap
    BY <1>2, <1>3, <1>4, AgentLoopAssumption DEF AgentLoopAssumption
  <2> QED
    BY <1>1, <1>2, <1>3, <1>4, <2>1 DEF QueueInv, tailVars, Line
<1>6. /\ push.evicted \in {0, 1}
      /\ Consecutive(push.buf, Done + push.evicted)
      /\ Len(push.buf) = Len(buf) + 1 - push.evicted
      /\ Len(push.buf) <= BufferMax /\ (BatchSize > 0 => Len(push.buf) <= BatchSize)
  BY <1>1, <1>2, <1>3, PushedRun DEF push
<1>6a. PICK e \in {0, 1} : e = push.evicted
  BY <1>6
<1>7. PICK b : e = push.evicted /\ b = push.buf
  BY <1>6a
<1>8. /\ Len(b) \in Nat /\ Consecutive(b, Done + e) /\ Len(b) = Len(buf) + 1 - e
      /\ Len(b) <= BufferMax /\ (BatchSize > 0 => Len(b) <= BatchSize)
  BY <1>6, <1>7 DEF Consecutive
<1>9. Done \in Nat /\ Done = Taken - Len(buf) /\ Done + e \in Nat
  <2>1. Len(sending) = 0
    BY <1>1
  <2> QED
    BY <1>2, <2>1, SizesAreNatural DEF Done, BufferInv
<1>10. /\ Consecutive(sending', Done + e) /\ Consecutive(buf', Done + e + Len(sending'))
       /\ Len(sending') + Len(buf') = Len(b) /\ Len(buf') <= BufferMax
       /\ BatchSize > 0 => Len(buf') < BatchSize
       /\ loop' # "flush" => sending' = <<>>
       /\ loop' \in {"select", "flush"}
  <2>1. CASE Full(b)
    <3>1. Flush(b)
      BY <1>1, <1>7, <2>1
    <3>2. /\ Consecutive(sending', Done + e) /\ Consecutive(buf', Done + e + Len(sending'))
          /\ Len(sending') + Len(buf') = Len(b) /\ Len(buf') <= Len(b)
          /\ BatchSize > 0 => Len(buf') = 0
          /\ loop' = "flush"
      BY <1>8, <1>9, <3>1, SizesAreNatural, FlushCuts
    <3> QED
      BY <1>8, <3>2, SizesAreNatural DEF Consecutive
  <2>2. CASE ~Full(b)
    <3>1. buf' = b /\ loop' = "select" /\ sending' = <<>> /\ (BatchSize > 0 => Len(b) < BatchSize)
      BY <1>1, <1>7, <1>8, <2>2, SizesAreNatural DEF Full
    <3>2. Consecutive(sending', Done + e) /\ Len(sending') = 0
      BY <3>1, EmptyRun
    <3> QED
      BY <1>8, <1>9, <3>1, <3>2
  <2> QED
    BY <2>1, <2>2
<1>11. Done' = Done + e
  <2>1. Len(sending') \in Nat /\ Len(buf') \in Nat
    BY <1>10 DEF Consecutive
  <2>2. Done' = Taken' - Len(buf') - Len(sending')
    BY DEF Done
  <2>3. Len(sending') + Len(buf') = Len(buf) + 1 - e /\ Len(buf) \in Nat
    BY <1>8, <1>10, SizesAreNatural
  <2>4. /\ Taken \in Int /\ Done \in Int /\ e \in Int /\ Taken' = Taken + 1
        /\ Done = Taken - Len(buf)
    BY <1>2, <1>4, <1>9
  <2> QED
    BY <2>1, <2>2, <2>3, <2>4
<1>12. BufferInv'
  BY <1>1, <1>9, <1>10, <1>11 DEF BufferInv, BatchSize, BufferMax
<1>13. HubInv'
  BY <1>1, <1>7, <1>9, <1>11, LostGrows DEF hubVars
<1> QED
  BY <1>5, <1>12, <1>13

\* Whether the hub got the lines or not, they are behind the loop now.
LEMMA FlushEndsStep ==
  ASSUME LoopInv, FlushOk \/ FlushErr, config' = config PROVE LoopInv'
<1> USE DEF LoopInv
<1>1. /\ loop = "flush" /\ client' = "free" /\ loop' = "select" /\ sending' = <<>>
      /\ reported' = reported + dropped /\ dropped' = 0
      /\ UNCHANGED <<tailVars, stream, buf, totalDropped>>
      /\ \/ received' = received \o sending /\ failed' = failed
         \/ received' \in {received, received \o sending} /\ failed' = failed \cup ToSet(sending)
  BY DEF FlushOk, FlushErr, FlushEnds
<1>2. QueueInv' /\ Taken' = Taken /\ Taken \in Nat
  BY <1>1, SameQueue DEF QueueInv
<1>3. PICK k \in Nat : k = Len(sending)
  BY SizesAreNatural
<1>4. Done' = Done + k /\ Done \in Nat
  <2>1. Len(sending') = 0
    BY <1>1
  <2> QED
    BY <1>1, <1>2, <1>3, <2>1, SizesAreNatural DEF Done, BufferInv
<1>5. BufferInv'
  <2>1. Consecutive(sending', Done') /\ Len(sending') = 0
    BY <1>1, EmptyRun
  <2>2. Consecutive(buf', Done' + Len(sending'))
    BY <1>1, <1>3, <1>4, <2>1 DEF BufferInv
  <2> QED
    BY <1>1, <1>4, <2>1, <2>2 DEF BufferInv, BatchSize, BufferMax
<1>6. ToSet(sending) = Done + 1 .. Done + k
  BY <1>3, <1>4, RunAsSet DEF BufferInv
<1>7. ToSet(received \o sending) = ToSet(received) \cup ToSet(sending)
  BY ToSetOfConcatenation DEF HubInv, BufferInv, Consecutive
<1>8. ToSet(received) \subseteq 1 .. Done /\ failed \subseteq 1 .. Done
  BY ReceivedPlaces
<1>9. ToSet(received') \cup failed' = ToSet(received) \cup failed \cup ToSet(sending)
  BY <1>1, <1>7
<1>10. Lost' = Lost /\ failed' \subseteq 1 .. Done'
  <2>1. 1 .. Done' = (1 .. Done) \cup ToSet(sending)
    BY <1>4, <1>6
  <2>2. (1 .. Done) \cap ToSet(sending) = {}
    BY <1>4, <1>6
  <2>3. Lost' = (1 .. Done') \ (ToSet(received') \cup failed')
    BY DEF Lost
  <2>4. Lost' = Lost
    BY <1>9, <2>1, <2>2, <2>3 DEF Lost
  <2> QED
    BY <1>1, <1>8, <2>1, <2>4
<1>11. /\ received' \in Seq(1 .. Done')
       /\ \A i, j \in 1 .. Len(received') : i < j => received'[i] < received'[j]
  <2>1. PICK m \in Nat : m = Len(received)
    BY LenProperties DEF HubInv
  <2>2. /\ received \in Seq(1 .. Done)
        /\ \A i, j \in 1 .. m : i < j => received[i] < received[j]
    BY <2>1 DEF HubInv
  <2>3. CASE received' = received
    <3>1. 1 .. Done \subseteq 1 .. Done'
      BY <1>4
    <3> QED
      BY <2>1, <2>2, <2>3, <3>1, WiderSeq
  <2>4. CASE received' = received \o sending
    <3>1. sending \in Seq(Nat) /\ \A i \in 1 .. k : sending[i] = Done + i
      BY <1>3 DEF BufferInv, Consecutive
    <3>2. /\ received' \in Seq(Nat) /\ Len(received') = m + k
          /\ \A i \in 1 .. m + k :
               received'[i] = IF i <= m THEN received[i] ELSE sending[i - m]
      <4>1. received \in Seq(Nat)
        BY <1>4, <2>2, WiderSeq
      <4> QED
        BY <1>3, <2>1, <2>4, <3>1, <4>1, ConcatProperties
    <3>3. \A i \in 1 .. m : received'[i] = received[i] /\ received'[i] \in 1 .. Done
      <4>1. ASSUME NEW i \in 1 .. m PROVE received'[i] = received[i] /\ received[i] \in 1 .. Done
        <5>1. i \in 1 .. m + k /\ i \in 1 .. Len(received)
          BY <1>3, <2>1
        <5>2. received[i] \in 1 .. Done
          BY <2>2, <5>1, ElementOfSeq
        <5> QED
          BY <3>2, <5>1, <5>2
      <4> QED
        BY <4>1
    <3>4. \A i \in m + 1 .. m + k : received'[i] = Done + (i - m)
      <4>1. ASSUME NEW i \in m + 1 .. m + k PROVE received'[i] = Done + (i - m)
        <5>1. i \in 1 .. m + k /\ ~(i <= m) /\ i - m \in 1 .. k
          BY <1>3, <2>1
        <5> QED
          BY <3>1, <3>2, <5>1
      <4> QED
        BY <4>1
    <3>5. received' \in Seq(1 .. Done')
      <4>1. \A i \in 1 .. m + k : received'[i] \in 1 .. Done'
        BY <1>3, <1>4, <3>3, <3>4
      <4> QED
        BY <3>2, <4>1, NarrowSeq
    <3>6. \A i, j \in 1 .. m + k : i < j => received'[i] < received'[j]
      <4>1. ASSUME NEW i \in 1 .. m + k, NEW j \in 1 .. m + k, i < j
            PROVE  received'[i] < received'[j]
        <5>1. CASE j <= m
          BY <2>2, <3>3, <4>1, <5>1
        <5>2. CASE m < j /\ i <= m
          BY <1>4, <3>3, <3>4, <4>1, <5>2
        <5>3. CASE m < i
          BY <1>4, <3>4, <4>1, <5>3
        <5> QED
          BY <5>1, <5>2, <5>3
      <4> QED
        BY <4>1
    <3> QED
      BY <3>2, <3>5, <3>6
  <2> QED
    BY <1>1, <2>3, <2>4
<1>12. HubInv'
  BY <1>1, <1>10, <1>11 DEF HubInv
<1> QED
  BY <1>2, <1>5, <1>12

LEMMA LoopNext == LoopInv /\ [Next]_<<config, vars>> => LoopInv'
<1> SUFFICES ASSUME LoopInv, [Next]_<<config, vars>> PROVE LoopInv'
  OBVIOUS
<1>1. ASSUME UNCHANGED <<config, bufVars, sending, loop, client, hubVars>>,
             QueueInv', Taken' = Taken
      PROVE  LoopInv'
  <2>1. BufferInv' /\ Done' = Done
    BY <1>1, SameBuffer DEF LoopInv, BufferInv, bufVars
  <2>2. HubInv'
    BY <1>1, <2>1, SameHub DEF LoopInv, bufVars, hubVars
  <2> QED
    BY <1>1, <2>1, <2>2 DEF LoopInv
<1>2. ASSUME config' = config, WriteLine \/ WatcherGone \/ Tailing PROVE LoopInv'
  <2>1. QueueInv' /\ Taken' = Taken
    BY <1>2, TailingStep DEF LoopInv
  <2>2. UNCHANGED <<bufVars, sending, loop, client, hubVars>>
    BY <1>2 DEF WriteLine, WatcherGone, Tailing, BeginRead, ReadNewLines, SendLine, TailingEnds
  <2> QED
    BY <1>1, <1>2, <2>1, <2>2
<1>3. ASSUME UNCHANGED <<config, tailVars, stream, bufVars, sending, hubVars>>,
             loop' \in {"starting", "select", "metric", "flush", "parked"},
             client' \in {"free", "loop", "sink"}, loop' = loop \/ loop # "flush"
      PROVE  LoopInv'
  <2>1. QueueInv' /\ Taken' = Taken
    BY <1>3, SameQueue DEF LoopInv
  <2>2. BufferInv' /\ Done' = Done
    BY <1>3, <2>1, SameBuffer DEF LoopInv, bufVars
  <2>3. HubInv'
    BY <1>3, <2>2, SameHub DEF LoopInv, bufVars, hubVars
  <2> QED
    BY <2>1, <2>2, <2>3 DEF LoopInv
<1>4. ASSUME config' = config, StartReturns \/ MetricsTick \/ StreamClosed PROVE LoopInv'
  BY <1>3, <1>4 DEF StartReturns, MetricsTick, StreamClosed, LoopInv, BufferInv
<1>5. ASSUME config' = config, LockClient \/ MetricCallEnds \/ SinkLocks \/ SinkCallEnds
      PROVE  LoopInv'
  BY <1>3, <1>5 DEF LockClient, MetricCallEnds, SinkLocks, SinkCallEnds, LoopInv, BufferInv
<1>6. CASE UNCHANGED <<config, vars>>
  BY <1>3, <1>6 DEF vars, LoopInv, BufferInv
<1> QED
  BY <1>2, <1>4, <1>5, <1>6, FlushTickStep, TakeLineStep, FlushEndsStep DEF Next, Calls

LEMMA LoopInvAlways == Spec => []LoopInv
BY LoopInit, LoopNext, PTL DEF Spec

\* The variables keep their types; between two arms of the select the buffer is
\* within log_buffer_max and, unless log_batch_size is 0, holds less than a batch,
\* the hub being there or not (TypeOK).
THEOREM LoopTypes == Spec => []TypeOK
BY LoopInvAlways, LoopInvImplies, PTL

\* However reads, overflows and flushes interleave, the buffer is the newest run
\* of the lines taken (BufferIsNewest).
THEOREM BufferHoldsNewest == Spec => []BufferIsNewest
BY LoopInvAlways, LoopInvImplies, PTL

\* Every line that is nowhere else was dropped at an overflow and is counted once
\* (OverflowIsCounted).
THEOREM DropsAreCounted == Spec => []OverflowIsCounted
BY LoopInvAlways, LoopInvImplies, PTL

\* No place of what was read is sent twice, and the places arrive in order, failing
\* calls included: flush does not retry.  A line of the file that was read twice
\* has two places (AtMostOnceInOrder).
THEOREM LinesArriveAtMostOnce == Spec => []AtMostOnceInOrder
BY LoopInvAlways, LoopInvImplies, PTL
=============================================================================

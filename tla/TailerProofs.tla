------------------------------ MODULE TailerProofs ------------------------------
(***************************************************************************)
(* Theorems about Tailer, for every set of logs, number of lines, changes  *)
(* and errors and every capacity of the queue.                             *)
(***************************************************************************)
EXTENDS ListProofs, Tailer

-----------------------------------------------------------------------------
(* Lines and the pieces a file falls into.                                 *)

Cell == 0 .. CR

LEMMA Constants == {MaxLines, QueueCap, NoPos, CR} \subseteq Nat /\ QueueCap # 0 /\ NoPos > 4 * MaxLines
                   /\ (MaxLines # 0 => NoPos > 4 * MaxLines + 1) /\ CR = MaxLines + 1 /\ CR # NL
BY TailerAssumption DEF TailerAssumption, NoPos, CR, NL

Width(n) == Len(Text(n))

LEMMA TextWidth == ASSUME NEW n \in Nat PROVE Width(n) \in 1 .. 2 /\ Text(n)[1] = n
<1>1. PICK w \in 0 .. 1 : w = n % 2
  OBVIOUS
<1>2. Text(n) = [i \in 1 .. 1 + w |-> n]
  BY <1>1 DEF Text
<1> QED
  BY <1>2 DEF Width

LEMMA TextOfLine ==
  ASSUME NEW n \in Nat
  PROVE  Text(n) \in Seq(Nat) /\ \A i \in 1 .. Width(n) : Text(n)[i] = n
<1>1. PICK w \in 0 .. 1 : w = n % 2
  OBVIOUS
<1>2. Text(n) = [i \in 1 .. 1 + w |-> n]
  BY <1>1 DEF Text
<1> QED
  BY <1>2 DEF Width

LEMMA SameText ==
  ASSUME NEW m \in Nat, NEW n \in Nat, Text(m) = Text(n)
  PROVE  m = n
<1>1. Text(m)[1] = m /\ Text(n)[1] = n
  BY TextWidth
<1> QED
  BY <1>1

LEMMA SmallestOf ==
  ASSUME NEW N, N \subseteq Nat, IsFiniteSet(N), N # {}
  PROVE  \E e \in N : \A i \in N : e <= i
<1>1. PICK list : AscendsThrough(list, N)
  BY OrderedNumbers
<1>2. PICK m \in Nat : m = Len(list) /\ list \in [1 .. m -> N]
  BY <1>1 DEF AscendsThrough
<1>3. 1 \in 1 .. m
  <2>1. PICK x \in N : TRUE
    OBVIOUS
  <2>2. PICK j \in 1 .. m : list[j] = x
    BY <1>1, <1>2, <2>1 DEF AscendsThrough
  <2> QED
    BY <2>2
<1>4. ASSUME NEW i \in N PROVE list[1] <= i
  <2>1. PICK j \in 1 .. m : list[j] = i
    BY <1>1, <1>2 DEF AscendsThrough
  <2>2. list[1] \in Nat /\ i \in Nat
    BY <1>2, <1>3
  <2> QED
    BY <1>1, <1>2, <1>3, <2>1, <2>2 DEF AscendsThrough
<1> QED
  BY <1>2, <1>3, <1>4

\* Where a text ends.
EndsAt(cells, s, e) ==
  /\ e \in s .. Len(cells) + 1
  /\ e = Len(cells) + 1 \/ cells[e] = NL
  /\ \A i \in s .. e - 1 : cells[i] # NL

LEMMA EndExists ==
  ASSUME NEW T, NEW cells \in Seq(T), NEW s \in 1 .. Len(cells)
  PROVE  EndsAt(cells, s, End(cells, s))
<1> DEFINE N == {e \in s .. Len(cells) : cells[e] = NL}
<1>1. PICK e : EndsAt(cells, s, e)
  <2>1. CASE N = {}
    <3>1. EndsAt(cells, s, Len(cells) + 1)
      BY <2>1 DEF EndsAt
    <3> QED
      BY <3>1
  <2>2. CASE N # {}
    <3>1. N \subseteq Nat /\ IsFiniteSet(N)
      <4>1. N \in SUBSET (s .. Len(cells)) /\ IsFiniteSet(s .. Len(cells))
        BY FS_Interval
      <4> QED
        BY <4>1, FS_Subset
    <3>2. PICK e \in N : \A i \in N : e <= i
      <4> HIDE DEF N
      <4> QED
        BY <2>2, <3>1, SmallestOf
    <3>3. EndsAt(cells, s, e)
      BY <3>2 DEF EndsAt
    <3> QED
      BY <3>3
  <2> QED
    BY <2>1, <2>2
<1>2. End(cells, s) = CHOOSE f \in s .. Len(cells) + 1 : EndsAt(cells, s, f)
  BY DEF End, EndsAt
<1>3. e \in s .. Len(cells) + 1
  BY <1>1 DEF EndsAt
<1> QED
  BY <1>1, <1>2, <1>3

\* Where the text of a line that ends at e is over.
PieceEnd(cells, e) == IF e - 1 \in Returns(cells) THEN e - 1 ELSE e

IsPiece(piece, cells, s) ==
  \E e : /\ EndsAt(cells, s, e)
         /\ s + Len(piece) = PieceEnd(cells, e)
         /\ \A k \in 1 .. Len(piece) : piece[k] = cells[s + k - 1]

\* The pieces of the cells are what stands between line ends, from first[1],
\* first[2], ... on.
AreCut(pieces, first, cells) ==
  /\ first \in [1 .. Len(pieces) -> Starts(cells)]
  /\ \A i, j \in 1 .. Len(pieces) : i < j => first[i] < first[j]
  /\ \A s \in Starts(cells) : \E i \in 1 .. Len(pieces) : first[i] = s
  /\ \A i \in 1 .. Len(pieces) : IsPiece(pieces[i], cells, first[i])

\* Behind every carriage return comes a newline.
ReturnsEnd(cells) ==
  \A k \in 1 .. Len(cells) : cells[k] = CR => k + 1 \in 1 .. Len(cells) /\ cells[k + 1] = NL

NoReturns(cells) == \A k \in 1 .. Len(cells) : cells[k] # CR

LEMMA StartsAreFinite ==
  ASSUME NEW T, NEW cells \in Seq(T)
  PROVE  Starts(cells) \subseteq 1 .. Len(cells) /\ IsFiniteSet(Starts(cells))
<1>1. IsFiniteSet(1 .. Len(cells))
  BY FS_Interval
<1>2. Starts(cells) \in SUBSET (1 .. Len(cells))
  BY DEF Starts
<1> QED
  BY <1>1, <1>2, FS_Subset

LEMMA PiecesAreCut ==
  ASSUME NEW cells \in Seq(Cell), ReturnsEnd(cells)
  PROVE  /\ Pieces(cells) \in Seq(Seq(1 .. MaxLines))
         /\ \E first : AreCut(Pieces(cells), first, cells)
<1> DEFINE n == Cardinality(Starts(cells))
<1>1. n \in Nat /\ Starts(cells) \subseteq Nat
  BY StartsAreFinite, FS_CardinalityType
<1>2. PICK first : first = Ascending(Starts(cells)) /\ AscendsThrough(first, Starts(cells))
  BY <1>1, StartsAreFinite, OrderedNumbers
<1>3. /\ first \in [1 .. n -> Starts(cells)]
      /\ \A i, j \in 1 .. n : i < j => first[i] < first[j]
      /\ \A s \in Starts(cells) : \E i \in 1 .. n : first[i] = s
  BY <1>1, <1>2 DEF AscendsThrough
<1>4. Pieces(cells) = [i \in 1 .. n |-> SubSeq(cells, first[i], TextEnd(cells, first[i]))]
  BY <1>2, Zenon DEF Pieces
<1> HIDE DEF n
<1>5. ASSUME NEW i \in 1 .. n
      PROVE  Pieces(cells)[i] \in Seq(1 .. MaxLines) /\ IsPiece(Pieces(cells)[i], cells, first[i])
  <2>1. PICK s : s = first[i] /\ s \in Starts(cells) /\ s \in 1 .. Len(cells)
    BY <1>3, StartsAreFinite
  <2>2. PICK e : e = End(cells, s) /\ EndsAt(cells, s, e)
    BY <2>1, EndExists
  <2>3. e \in s .. Len(cells) + 1 /\ s \in Nat \ {0} /\ Len(cells) \in Nat
    BY <2>1, <2>2 DEF EndsAt
  <2>4. PICK x : x = PieceEnd(cells, e) /\ TextEnd(cells, s) = x - 1 /\ x \in s .. e
    <3>1. CASE e - 1 \in Returns(cells)
      <4>1. e - 1 \in 1 .. Len(cells) /\ cells[e - 1] # NL
        <5>1. e - 1 \in 1 .. Len(cells) - 1 /\ cells[e - 1] = CR
          BY <3>1, Zenon DEF Returns
        <5>2. CR # NL
          BY Constants
        <5> QED
          BY <2>3, <5>1, <5>2
      <4>2. e - 1 # s - 1
        BY <2>1, <2>3, <4>1 DEF Starts
      <4>3. e - 1 \in s .. e /\ e - 2 = (e - 1) - 1
        BY <2>3, <4>2
      <4> QED
        BY <2>2, <3>1, <4>3 DEF PieceEnd, TextEnd
    <3>2. CASE e - 1 \notin Returns(cells)
      BY <2>2, <2>3, <3>2 DEF PieceEnd, TextEnd
    <3> QED
      BY <3>1, <3>2
  <2>5. ASSUME NEW k \in s .. x - 1 PROVE cells[k] \in 1 .. MaxLines
    <3>1. k \in s .. e - 1 /\ k \in 1 .. Len(cells) /\ k + 1 \in s .. e
      BY <2>3, <2>4
    <3>2. cells[k] \in Cell /\ cells[k] # NL
      BY <2>2, <3>1, ElementOfSeq DEF EndsAt
    <3>3. cells[k] # CR
      <4> SUFFICES ASSUME cells[k] = CR PROVE FALSE
        OBVIOUS
      <4>1. k + 1 \in 1 .. Len(cells) /\ cells[k + 1] = NL
        BY <3>1 DEF ReturnsEnd
      <4>2. k + 1 \notin s .. e - 1
        BY <2>2, <4>1, Zenon DEF EndsAt
      <4>3. k + 1 = e
        BY <2>3, <3>1, <4>2
      <4>4. k \in 1 .. Len(cells) - 1
        BY <2>3, <3>1, <4>1
      <4>5. k \in Returns(cells) /\ k = e - 1
        BY <3>1, <4>1, <4>3, <4>4 DEF Returns
      <4> QED
        BY <2>3, <2>4, <4>5 DEF PieceEnd
    <3>4. PICK v : v = cells[k]
      OBVIOUS
    <3>5. v \in 0 .. CR /\ v # 0 /\ v # CR /\ CR = MaxLines + 1 /\ MaxLines \in Nat
      BY <3>2, <3>3, <3>4, Constants DEF Cell, NL
    <3>6. v \in 1 .. MaxLines
      BY <3>5
    <3> QED
      BY <3>4, <3>6
  <2>6. PICK piece : piece = SubSeq(cells, s, x - 1) /\ Pieces(cells)[i] = piece
    BY <1>4, <2>1, <2>4
  <2>7. /\ piece \in Seq(1 .. MaxLines) /\ Len(piece) = x - s
        /\ \A k \in 1 .. x - s : piece[k] = cells[s + k - 1]
    <3>1. s \in Int /\ x - 1 \in Int /\ \A k \in s .. x - 1 : cells[k] \in 1 .. MaxLines
      BY <2>3, <2>4, <2>5
    <3>2. /\ piece \in Seq(1 .. MaxLines)
          /\ Len(piece) = IF s <= x - 1 THEN x - 1 - s + 1 ELSE 0
          /\ \A k \in 1 .. x - 1 - s + 1 : piece[k] = cells[s + k - 1]
      BY <2>6, <3>1, SubSeqProperties
    <3>3. x - 1 - s + 1 = x - s /\ (~(s <= x - 1) => x - s = 0)
      BY <2>3, <2>4
    <3> QED
      BY <3>2, <3>3
  <2>8. s + Len(piece) = x
    BY <2>3, <2>4, <2>7
  <2>9. IsPiece(piece, cells, s)
    BY <2>2, <2>4, <2>7, <2>8 DEF IsPiece
  <2> QED
    BY <2>1, <2>6, <2>7, <2>9
<1>6. Pieces(cells) \in Seq(Seq(1 .. MaxLines)) /\ Len(Pieces(cells)) = n
  BY <1>1, <1>4, <1>5
<1>7. AreCut(Pieces(cells), first, cells)
  BY <1>3, <1>5, <1>6 DEF AreCut
<1> QED
  BY <1>6, <1>7

\* What is left of a file behind an offset.
LEMMA FromOffset ==
  ASSUME NEW S, NEW cells \in Seq(S), NEW k \in Nat
  PROVE  /\ From(cells, k) \in Seq(S)
         /\ k <= Len(cells) => Len(From(cells, k)) = Len(cells) - k
         /\ k > Len(cells) => Len(From(cells, k)) = 0
         /\ \A i \in 1 .. Len(From(cells, k)) : From(cells, k)[i] = cells[k + i]
<1>1. PICK c : c = Len(cells)
  OBVIOUS
<1>2. c \in Nat /\ c \in Int /\ k + 1 \in Int
  BY <1>1, LenProperties
<1>3. ASSUME NEW i \in k + 1 .. c PROVE cells[i] \in S
  <2>1. i \in 1 .. Len(cells)
    BY <1>1, <1>2
  <2> QED
    BY <2>1, ElementOfSeq
<1>4. PICK f : f = SubSeq(cells, k + 1, c) /\ f = From(cells, k)
  BY <1>1 DEF From
<1>5. PICK m : m = Len(f)
  OBVIOUS
<1>6. /\ f \in Seq(S)
      /\ m = IF k + 1 <= c THEN c - (k + 1) + 1 ELSE 0
      /\ \A i \in 1 .. c - (k + 1) + 1 : f[i] = cells[k + 1 + i - 1]
  <2>1. PICK a : a = k + 1 /\ a \in Int
    BY <1>2
  <2>2. \A i \in a .. c : cells[i] \in S
    BY <1>3, <2>1
  <2>3. f = SubSeq(cells, a, c)
    BY <1>4, <2>1
  <2>4. /\ f \in Seq(S)
        /\ Len(f) = IF a <= c THEN c - a + 1 ELSE 0
        /\ \A i \in 1 .. c - a + 1 : f[i] = cells[a + i - 1]
    BY <1>2, <2>1, <2>2, <2>3, SubSeqProperties
  <2> QED
    BY <1>5, <2>1, <2>4, Zenon
<1>7. m = (IF k <= c THEN c - k ELSE 0) /\ c - (k + 1) + 1 = c - k
  BY <1>2, <1>6
<1>8. ASSUME NEW i \in 1 .. m PROVE f[i] = cells[k + i]
  <2>1. i \in 1 .. c - k /\ k + 1 + i - 1 = k + i
    BY <1>2, <1>7
  <2> QED
    BY <1>6, <1>7, <2>1, Zenon
<1>9. (k <= c => m = c - k) /\ (k > c => m = 0)
  BY <1>2, <1>7
<1> QED
  BY <1>1, <1>4, <1>5, <1>6, <1>8, <1>9, Zenon

LEMMA AdvanceBehind ==
  ASSUME NEW cells \in Seq(Cell)
  PROVE  /\ Advance(cells) \in 0 .. Len(cells) + 1
         /\ cells = <<>> => Advance(cells) = 0
         /\ cells # <<>> /\ cells[Len(cells)] = NL => Advance(cells) <= Len(cells)
         /\ NoReturns(cells) => /\ Advance(cells) \in {Len(cells), Len(cells) + 1}
                                /\ cells # <<>> /\ cells[Len(cells)] = NL => Advance(cells) = Len(cells)
<1>1. PICK c \in Nat : c = Len(cells)
  BY LenProperties
<1>2. PICK R : R = Returns(cells)
  OBVIOUS
<1>3. IsFiniteSet(1 .. c) /\ Cardinality(1 .. c) = c
  BY FS_Interval
<1>4. R \in SUBSET (1 .. c)
  <2>1. 1 .. c - 1 \subseteq 1 .. c
    OBVIOUS
  <2> QED
    BY <1>1, <1>2, <2>1 DEF Returns
<1>5. Cardinality(R) \in 0 .. c
  <2>1. Cardinality(R) <= c /\ Cardinality(R) \in Nat
    BY <1>3, <1>4, FS_Subset, FS_CardinalityType
  <2> QED
    BY <2>1
<1>6. NoReturns(cells) => Cardinality(R) = 0
  <2>1. NoReturns(cells) => R = {}
    BY <1>1, <1>2, <1>4 DEF NoReturns, Returns
  <2> QED
    BY <2>1, FS_EmptySet
<1>7. cells = <<>> => c = 0
  BY <1>1
<1>8. PICK d : d = Cardinality(R)
  OBVIOUS
<1>9. Advance(cells) = (IF cells # <<>> /\ cells[c] # NL THEN c + 1 ELSE c) - d
  BY <1>1, <1>2, <1>8 DEF Advance, Last
<1> QED
  BY <1>1, <1>5, <1>6, <1>7, <1>8, <1>9

-----------------------------------------------------------------------------
(* Types.                                                                  *)

Event == [kind : {"modify", "create", "rename", "remove"}, path : Path] \cup [kind : {"error"}]

\* A file holds at most four cells of each line begun, the line end included,
\* and of a line that is not ended three may come yet.
Half(cells) == Len(cells) # 0 /\ cells[Len(cells)] # NL

CellsFit(cells, lines) ==
  /\ cells \in Seq(Cell)
  /\ Len(cells) <= 4 * lines /\ (Half(cells) => Len(cells) + 3 <= 4 * lines)
  /\ \A k \in 1 .. Len(cells) : cells[k] <= lines \/ cells[k] = CR
  /\ ReturnsEnd(cells)

FileTypes ==
  /\ file = [p \in Path |-> file[p]]
  /\ written \in 0 .. MaxLines
  /\ \A p \in Path : file[p] # Absent => CellsFit(file[p], written)

\* A position is behind the last cell by one at most.
IsPosition(k, lines) == k \in 0 .. 4 * lines + 1 /\ (lines = 0 => k = 0)

TaskTypes ==
  /\ watched \subseteq Path /\ tailed \subseteq Path /\ todo \subseteq Path
  /\ events \in Seq(Event) /\ Len(events) <= QueueCap
  /\ phase \in {"start", "loop", "adopt", "dead"}
  /\ todo # {} => phase = "start"
  /\ adopting \subseteq Path /\ adopting \subseteq tailed /\ \A p, q \in adopting : p = q
  /\ phase = "adopt" <=> adopting # {}

OutTypes ==
  /\ pos = [p \in Path |-> pos[p]]
  /\ \A p \in Path : pos[p] # NoPos => IsPosition(pos[p], written)
  /\ out \in Seq(Seq(1 .. MaxLines))

TypeInv == FileTypes /\ TaskTypes /\ OutTypes

LEMMA LineNumber ==
  MaxLines \in Nat /\ \A n \in 1 .. MaxLines : n \in Nat /\ n # NL /\ n # CR /\ Width(n) \in 1 .. 2
<1>1. MaxLines \in Nat /\ \A n \in 1 .. MaxLines : n \in Nat /\ n # NL /\ n # CR
  BY Constants DEF NL
<1> QED
  BY <1>1, TextWidth

LEMMA StartsAre ==
  ASSUME NEW cells, NEW s
  PROVE  s \in Starts(cells) <=> s \in 1 .. Len(cells) /\ (s = 1 \/ cells[s - 1] = NL)
BY DEF Starts

LEMMA CellsAreNotAbsent == Absent \notin Seq(Cell)
<1>1. Cell \subseteq Nat
  BY Constants DEF Cell
<1>2. \A s \in Seq(Cell) : s \in Seq(Nat)
  BY <1>1, SeqMonotonic, Zenon
<1> QED
  BY <1>2, TailerAssumption DEF TailerAssumption

LEMMA TailerInit == Init => TypeInv
<1> SUFFICES ASSUME Init PROVE TypeInv
  OBVIOUS
<1>1. <<>> \in Seq(Cell) /\ <<>> \in Seq(Event) /\ <<>> \in Seq(Seq(1 .. MaxLines))
      /\ Len(<<>>) = 0
  BY EmptySeq
<1>2. PICK existing \in SUBSET Path :
        /\ file = [p \in Path |-> IF p \in existing THEN <<>> ELSE Absent]
        /\ watched = (Path \ Explicit) \cup existing
  BY DEF Init
<1>3. FileTypes
  <2>1. written = 0 /\ MaxLines \in Nat
    BY Constants DEF Init
  <2>2. CellsFit(<<>>, written)
    BY <1>1, <2>1 DEF CellsFit, Half, ReturnsEnd
  <2>3. \A p \in Path : file[p] # Absent => file[p] = <<>>
    BY <1>2
  <2>4. \A p \in Path : file[p] # Absent => CellsFit(file[p], written)
    BY <2>2, <2>3
  <2>5. file = [p \in Path |-> file[p]]
    BY <1>2
  <2> QED
    BY <2>1, <2>4, <2>5 DEF FileTypes
<1>4. TaskTypes
  <2>1. Len(<<>>) <= QueueCap /\ Explicit \subseteq Path
    BY <1>1, Constants, TailerAssumption DEF TailerAssumption
  <2> QED
    BY <1>1, <1>2, <2>1 DEF Init, TaskTypes
<1>5. OutTypes
  BY <1>1 DEF Init, OutTypes
<1> QED
  BY <1>3, <1>4, <1>5 DEF TypeInv

\* An event that is queued is one of the kinds there are.
LEMMA NotifyTypes ==
  ASSUME TaskTypes, NEW kind \in {"modify", "create", "rename", "remove"}, NEW p \in Path,
         NEW marks, Notify(kind, p, marks)
  PROVE  events' \in Seq(Event) /\ Len(events') <= QueueCap
<1>1. [kind |-> kind, path |-> p] \in Event
  BY DEF Event
<1>2. CASE events' = events
  BY <1>2 DEF TaskTypes
<1>3. CASE Len(events) < QueueCap /\ events' = Append(events, [kind |-> kind, path |-> p])
  BY <1>1, <1>3, Constants DEF TaskTypes
<1> QED
  BY <1>2, <1>3 DEF Notify

\* The cells of a log grow by w bytes of the line n and a line end of e cells.
Grown(cells, new, n, w, e) ==
  /\ new \in Seq(Cell) /\ Len(new) = Len(cells) + w + e
  /\ \A k \in 1 .. Len(cells) : new[k] = cells[k]
  /\ \A k \in Len(cells) + 1 .. Len(cells) + w : new[k] = n
  /\ e # 0 => new[Len(new)] = NL
  /\ e = 2 => new[Len(cells) + w + 1] = CR

LEMMA GrownBy ==
  ASSUME NEW cells \in Seq(Cell), NEW n, NEW w \in Nat, NEW e \in 0 .. 2,
         NEW t \in Seq(Cell), Len(t) = w + e,
         \A k \in 1 .. w : t[k] = n, e # 0 => t[w + e] = NL, e = 2 => t[w + 1] = CR
  PROVE  Grown(cells, cells \o t, n, w, e)
<1>1. PICK c : c = Len(cells)
  OBVIOUS
<1>2. c \in Nat /\ Len(t) \in Nat
  BY <1>1, LenProperties
<1>3. PICK new : new = cells \o t
  OBVIOUS
<1>4. new \in Seq(Cell) /\ Len(new) = c + Len(t)
  BY <1>1, <1>3, ConcatProperties, Zenon
<1>5. \A i \in 1 .. c + Len(t) : new[i] = IF i <= c THEN cells[i] ELSE t[i - c]
  BY <1>1, <1>3, ConcatProperties, Zenon
<1>6. ASSUME NEW k \in 1 .. c PROVE new[k] = cells[k]
  <2>1. k \in 1 .. c + Len(t) /\ k <= c
    BY <1>2
  <2> QED
    BY <1>5, <2>1
<1>7. ASSUME NEW k \in c + 1 .. c + w PROVE new[k] = n
  <2>1. k \in 1 .. c + Len(t) /\ ~(k <= c) /\ k - c \in 1 .. w
    BY <1>2
  <2>2. new[k] = t[k - c]
    BY <1>5, <2>1
  <2> QED
    BY <2>1, <2>2
<1>8. ASSUME e # 0 PROVE new[c + Len(t)] = NL
  <2>1. c + Len(t) \in 1 .. c + Len(t) /\ ~(c + Len(t) <= c) /\ (c + Len(t)) - c = w + e
    BY <1>2, <1>8
  <2> QED
    BY <1>5, <1>8, <2>1
<1>10. ASSUME e = 2 PROVE new[c + w + 1] = CR
  <2>1. c + w + 1 \in 1 .. c + Len(t) /\ ~(c + w + 1 <= c) /\ (c + w + 1) - c = w + 1
    BY <1>2, <1>10
  <2> QED
    BY <1>5, <1>10, <2>1
<1>9. Len(new) = c + w + e
  BY <1>2, <1>4
<1> QED
  BY <1>1, <1>3, <1>4, <1>6, <1>7, <1>8, <1>9, <1>10 DEF Grown

LEMMA AppendedText ==
  ASSUME NEW cells \in Seq(Cell), NEW n \in 1 .. MaxLines, NEW w \in Nat,
         NEW text \in Seq(Cell), Len(text) = w, \A k \in 1 .. w : text[k] = n
  PROVE  /\ Grown(cells, cells \o Append(text, NL), n, w, 1)
         /\ Grown(cells, cells \o Append(Append(text, CR), NL), n, w, 2)
         /\ Grown(cells, cells \o text, n, w, 0)
<1>1. NL \in Cell /\ CR \in Cell
  BY Constants DEF NL, Cell
<1>2. Grown(cells, cells \o Append(text, NL), n, w, 1)
  <2>1. PICK t : t = Append(text, NL)
    OBVIOUS
  <2>2. /\ t \in Seq(Cell) /\ Len(t) = Len(text) + 1 /\ t[Len(text) + 1] = NL
        /\ \A k \in 1 .. Len(text) : t[k] = text[k]
    BY <1>1, <2>1, AppendProperties
  <2>3. /\ \A k \in 1 .. w : t[k] = n
        /\ Len(t) = w + 1 /\ (1 # 0 => t[w + 1] = NL) /\ (1 = 2 => t[w + 1] = CR) /\ 1 \in 0 .. 2
    BY <2>2
  <2> QED
    BY <2>1, <2>2, <2>3, GrownBy, Zenon
<1>3. Grown(cells, cells \o Append(Append(text, CR), NL), n, w, 2)
  <2>1. PICK u : u = Append(text, CR)
    OBVIOUS
  <2>2. PICK t : t = Append(u, NL)
    OBVIOUS
  <2>3. /\ u \in Seq(Cell) /\ Len(u) = Len(text) + 1 /\ u[Len(text) + 1] = CR
        /\ \A k \in 1 .. Len(text) : u[k] = text[k]
    BY <1>1, <2>1, AppendProperties
  <2>4. /\ t \in Seq(Cell) /\ Len(t) = Len(u) + 1 /\ t[Len(u) + 1] = NL
        /\ \A k \in 1 .. Len(u) : t[k] = u[k]
    BY <1>1, <2>2, <2>3, AppendProperties
  <2>5. Len(u) = w + 1 /\ Len(t) = w + 2 /\ t[w + 2] = NL
    BY <2>3, <2>4
  <2>6. \A k \in 1 .. w + 1 : t[k] = u[k]
    BY <2>4, <2>5
  <2>7. w + 1 \in 1 .. w + 1 /\ \A k \in 1 .. w : k \in 1 .. w + 1
    OBVIOUS
  <2>8. t[w + 1] = CR /\ \A k \in 1 .. w : t[k] = n
    BY <2>3, <2>6, <2>7
  <2>9. (2 # 0 => t[w + 2] = NL) /\ (2 = 2 => t[w + 1] = CR) /\ 2 \in 0 .. 2
    BY <2>5, <2>8
  <2> QED
    BY <2>1, <2>2, <2>4, <2>5, <2>8, <2>9, GrownBy, Zenon
<1>4. Grown(cells, cells \o text, n, w, 0)
  <2>1. Len(text) = w + 0 /\ 0 \in 0 .. 2 /\ (0 # 0 => text[w + 0] = NL) /\ (0 = 2 => text[w + 1] = CR)
    OBVIOUS
  <2>2. \A k \in 1 .. w : text[k] = n
    OBVIOUS
  <2> QED
    BY <2>1, <2>2, GrownBy, Zenon
<1> QED
  BY <1>2, <1>3, <1>4

LEMMA IncompleteIsHalf ==
  ASSUME NEW p \in Path, file[p] \in Seq(Cell)
  PROVE  /\ file[p] # Absent
         /\ Incomplete(p) <=> Half(file[p])
         /\ Half(file[p]) => Last(file[p]) = file[p][Len(file[p])]
<1>1. file[p] # Absent
  BY CellsAreNotAbsent
<1>2. file[p] # <<>> <=> Len(file[p]) # 0
  BY EmptySeq
<1> QED
  BY <1>1, <1>2 DEF Incomplete, Half, Last

\* What is noted of a line end of e cells.
EndMarks(e) == IF e = 2 THEN {"crlf"} ELSE {}

LEMMA LineBegun ==
  ASSUME FileTypes, NEW p \in Path, BeginLine(p)
  PROVE  /\ file[p] # Absent /\ ~Half(file[p])
         /\ written' = written + 1 /\ written' \in 1 .. MaxLines
         /\ file' = [file EXCEPT ![p] = file'[p]]
         /\ UNCHANGED <<changes, faults, watched, taskVars>>
         /\ \/ \E e \in 1 .. 2 : /\ Grown(file[p], file'[p], written', Width(written'), e)
                                /\ Notify("modify", p, EndMarks(e))
            \/ /\ Grown(file[p], file'[p], written', 1, 0)
               /\ Notify("modify", p, {"half"})
<1> USE Constants
<1>1. PICK n : n = written + 1
  OBVIOUS
<1>2. /\ n \in 1 .. MaxLines /\ written' = n /\ file[p] # Absent
      /\ UNCHANGED <<changes, faults, watched, taskVars>>
  BY <1>1 DEF BeginLine, FileTypes
<1>3. file[p] \in Seq(Cell)
  BY <1>2 DEF FileTypes, CellsFit
<1>4. ~Half(file[p])
  BY <1>3, IncompleteIsHalf DEF BeginLine
<1>5. PICK t : t = Text(n)
  OBVIOUS
<1>6. t \in Seq(Cell) /\ Len(t) = Width(n) /\ \A k \in 1 .. Width(n) : t[k] = n
  <2>1. n \in Nat
    BY <1>2
  <2>2. t \in Seq(Nat) /\ Len(t) = Width(n) /\ \A k \in 1 .. Width(n) : t[k] = n
    BY <1>5, <2>1, TextOfLine DEF Width
  <2>3. n \in Cell
    BY <1>2 DEF Cell
  <2>4. t \in [1 .. Width(n) -> Cell]
    <3>1. t \in [1 .. Width(n) -> Nat] /\ \A k \in 1 .. Width(n) : t[k] \in Cell
      BY <2>2, <2>3, LenProperties, Zenon
    <3> QED
      BY <3>1, Zenon
  <2>5. Width(n) \in Nat
    BY <2>1, TextWidth
  <2> QED
    <3>1. t \in Seq(Cell)
      BY <2>4, <2>5, SeqDef, Zenon
    <3> QED
      BY <2>2, <3>1
<1>7. Width(n) \in Nat /\ <<n>> \in Seq(Cell) /\ Len(<<n>>) = 1
  <2>1. n \in Cell /\ n \in Nat
    BY <1>2 DEF Cell
  <2>2. <<n>> \in Seq(Cell) /\ Len(<<n>>) = 1
    BY <2>1
  <2> QED
    BY <2>1, <2>2, TextWidth
<1>8. /\ Grown(file[p], file[p] \o Append(t, NL), n, Width(n), 1)
      /\ Grown(file[p], file[p] \o Append(Append(t, CR), NL), n, Width(n), 2)
  BY <1>2, <1>3, <1>6, <1>7, AppendedText
<1>9. Grown(file[p], Append(file[p], n), n, 1, 0)
  <2>1. Append(file[p], n) = file[p] \o <<n>>
    <3>1. n \in Cell
      BY <1>2 DEF Cell
    <3> QED
      BY <1>3, <3>1, AppendIsConcat
  <2>2. <<n>> \in Seq(Cell) /\ \A k \in 1 .. 1 : <<n>>[k] = n
    BY <1>7
  <2> QED
    BY <1>2, <1>3, <1>7, <2>1, <2>2, AppendedText
<1>10. /\ file = [q \in Path |-> file[q]]
       /\ \/ /\ file' = [file EXCEPT ![p] = file[p] \o Append(t, NL)]
             /\ Notify("modify", p, {})
          \/ /\ file' = [file EXCEPT ![p] = file[p] \o Append(Append(t, CR), NL)]
             /\ Notify("modify", p, {"crlf"})
          \/ /\ file' = [file EXCEPT ![p] = Append(file[p], n)]
             /\ Notify("modify", p, {"half"})
  BY <1>1, <1>2, <1>5 DEF BeginLine, Complete, FileTypes
<1>11. CASE file' = [file EXCEPT ![p] = file[p] \o Append(t, NL)] /\ Notify("modify", p, {})
  <2>1. file'[p] = file[p] \o Append(t, NL)
    BY <1>10, <1>11
  <2>2. Grown(file[p], file'[p], written', Width(written'), 1)
    BY <1>2, <1>8, <2>1
  <2>3. EndMarks(1) = {} /\ 1 \in 1 .. 2
    BY DEF EndMarks
  <2>4. Notify("modify", p, EndMarks(1))
    BY <1>11, <2>3
  <2>5. file' = [file EXCEPT ![p] = file'[p]]
    BY <1>11, <2>1
  <2> QED
    BY <1>1, <1>2, <1>4, <2>2, <2>3, <2>4, <2>5, Zenon
<1>12. CASE file' = [file EXCEPT ![p] = file[p] \o Append(Append(t, CR), NL)] /\ Notify("modify", p, {"crlf"})
  <2>1. file'[p] = file[p] \o Append(Append(t, CR), NL)
    BY <1>10, <1>12
  <2>2. Grown(file[p], file'[p], written', Width(written'), 2)
    BY <1>2, <1>8, <2>1
  <2>3. EndMarks(2) = {"crlf"} /\ 2 \in 1 .. 2
    BY DEF EndMarks
  <2>4. Notify("modify", p, EndMarks(2))
    BY <1>12, <2>3
  <2>5. file' = [file EXCEPT ![p] = file'[p]]
    BY <1>12, <2>1
  <2> QED
    BY <1>1, <1>2, <1>4, <2>2, <2>3, <2>4, <2>5, Zenon
<1>13. CASE file' = [file EXCEPT ![p] = Append(file[p], n)] /\ Notify("modify", p, {"half"})
  BY <1>1, <1>2, <1>4, <1>9, <1>10, <1>13
<1> QED
  BY <1>10, <1>11, <1>12, <1>13

LEMMA LineEnded ==
  ASSUME FileTypes, NEW p \in Path, EndLine(p)
  PROVE  /\ file[p] # Absent /\ Half(file[p])
         /\ UNCHANGED <<written, changes, faults, watched, taskVars>>
         /\ file' = [file EXCEPT ![p] = file'[p]]
         /\ \E n \in 1 .. written, e \in 1 .. 2 :
              /\ n = file[p][Len(file[p])] /\ n = Last(file[p])
              /\ Grown(file[p], file'[p], n, Width(n) - 1, e)
              /\ Notify("modify", p, EndMarks(e))
<1> USE Constants
<1>1. file[p] # Absent /\ file[p] \in Seq(Cell)
  BY DEF EndLine, FileTypes, CellsFit
<1>2. Half(file[p]) /\ Last(file[p]) = file[p][Len(file[p])]
  BY <1>1, IncompleteIsHalf DEF EndLine
<1>3. PICK n : n = file[p][Len(file[p])]
  OBVIOUS
<1>4. n \in 1 .. written /\ written \in 0 .. MaxLines
  <2>1. PICK c : c = Len(file[p])
    OBVIOUS
  <2>2. c \in 1 .. c /\ written \in 0 .. MaxLines
    BY <1>1, <1>2, <2>1, LenProperties DEF Half, FileTypes
  <2>3. file[p][c] \in Cell /\ (file[p][c] <= written \/ file[p][c] = CR) /\ file[p][c] # 0
    BY <1>1, <1>2, <2>1, <2>2, ElementOfSeq DEF FileTypes, CellsFit, Half, NL
  <2>4. file[p][c] # CR
    <3>1. c + 1 \notin 1 .. c /\ ReturnsEnd(file[p])
      BY <1>1, <2>2 DEF FileTypes, CellsFit
    <3> QED
      BY <2>1, <2>2, <3>1 DEF ReturnsEnd
  <2> QED
    BY <1>3, <2>1, <2>2, <2>3, <2>4 DEF Cell
<1>5. PICK t : t = Tail(Text(n))
  OBVIOUS
<1>6. t \in Seq(Cell) /\ Len(t) = Width(n) - 1 /\ \A k \in 1 .. Width(n) - 1 : t[k] = n
  <2>1. PICK w \in 0 .. 1 : w = n % 2
    BY <1>4
  <2>2. Text(n) = [i \in 1 .. 1 + w |-> n] /\ n \in Cell
    <3>1. n \in 0 .. CR
      BY <1>4 DEF CR
    <3> QED
      BY <2>1, <3>1 DEF Text, Cell
  <2>3. Text(n) \in Seq(Cell) /\ Len(Text(n)) = 1 + w /\ Text(n) # <<>>
    <3>1. 1 + w \in Nat /\ Text(n) \in [1 .. 1 + w -> Cell]
      BY <2>1, <2>2
    <3>2. Text(n) \in Seq(Cell)
      BY <3>1, SeqDef, Zenon
    <3>3. Len(Text(n)) = 1 + w
      BY <3>1, <3>2, LenProperties
    <3> QED
      BY <2>1, <3>2, <3>3, EmptySeq
  <2>4. \A k \in 1 .. 1 + w : Text(n)[k] = n
    BY <2>2
  <2>5. /\ t \in Seq(Cell) /\ Len(t) = w
        /\ \A k \in 1 .. Len(t) : t[k] = Text(n)[k + 1]
    BY <1>5, <2>3, HeadTailProperties
  <2>6. \A k \in 1 .. w : t[k] = n
    BY <2>4, <2>5
  <2> QED
    BY <2>3, <2>5, <2>6 DEF Width
<1>7. n \in 1 .. MaxLines /\ Width(n) - 1 \in Nat
  BY <1>4, TextWidth
<1>8. /\ Grown(file[p], file[p] \o Append(t, NL), n, Width(n) - 1, 1)
      /\ Grown(file[p], file[p] \o Append(Append(t, CR), NL), n, Width(n) - 1, 2)
  BY <1>1, <1>6, <1>7, AppendedText
<1>9. /\ file = [q \in Path |-> file[q]]
      /\ \/ /\ file' = [file EXCEPT ![p] = file[p] \o Append(t, NL)]
            /\ Notify("modify", p, {})
         \/ /\ file' = [file EXCEPT ![p] = file[p] \o Append(Append(t, CR), NL)]
            /\ Notify("modify", p, {"crlf"})
      /\ UNCHANGED <<written, changes, faults, watched, taskVars>>
  BY <1>2, <1>3, <1>5 DEF EndLine, Complete, FileTypes
<1>10. CASE file' = [file EXCEPT ![p] = file[p] \o Append(t, NL)] /\ Notify("modify", p, {})
  <2>1. file'[p] = file[p] \o Append(t, NL)
    BY <1>9, <1>10
  <2>2. Grown(file[p], file'[p], n, Width(n) - 1, 1)
    BY <1>8, <2>1
  <2>3. EndMarks(1) = {} /\ 1 \in 1 .. 2
    BY DEF EndMarks
  <2>4. Notify("modify", p, EndMarks(1))
    BY <1>10, <2>3
  <2>5. file' = [file EXCEPT ![p] = file'[p]]
    BY <1>10, <2>1
  <2> QED
    BY <1>1, <1>2, <1>3, <1>4, <1>9, <2>2, <2>3, <2>4, <2>5, Zenon
<1>11. CASE file' = [file EXCEPT ![p] = file[p] \o Append(Append(t, CR), NL)] /\ Notify("modify", p, {"crlf"})
  <2>1. file'[p] = file[p] \o Append(Append(t, CR), NL)
    BY <1>9, <1>11
  <2>2. Grown(file[p], file'[p], n, Width(n) - 1, 2)
    BY <1>8, <2>1
  <2>3. EndMarks(2) = {"crlf"} /\ 2 \in 1 .. 2
    BY DEF EndMarks
  <2>4. Notify("modify", p, EndMarks(2))
    BY <1>11, <2>3
  <2>5. file' = [file EXCEPT ![p] = file'[p]]
    BY <1>11, <2>1
  <2> QED
    BY <1>1, <1>2, <1>3, <1>4, <1>9, <2>2, <2>3, <2>4, <2>5, Zenon
<1> QED
  BY <1>9, <1>10, <1>11

\* More lines only leave more room.
LEMMA RoomGrows ==
  ASSUME NEW m \in Nat, NEW n \in Nat, m <= n
  PROVE  /\ \A cells : CellsFit(cells, m) => CellsFit(cells, n)
         /\ \A k : IsPosition(k, m) => IsPosition(k, n)
<1>1. ASSUME NEW cells, CellsFit(cells, m) PROVE CellsFit(cells, n)
  <2>1. Len(cells) \in Nat
    BY <1>1, LenProperties DEF CellsFit
  <2>2. \A k \in 1 .. Len(cells) : cells[k] \in Nat
    <3>1. cells \in Seq(Cell) /\ Cell \subseteq Nat
      BY <1>1, Constants DEF CellsFit, Cell
    <3> QED
      BY <3>1, ElementOfSeq
  <2>3. \A k \in 1 .. Len(cells) : cells[k] <= m \/ cells[k] = CR
    BY <1>1 DEF CellsFit
  <2>4. \A k \in 1 .. Len(cells) : cells[k] <= n \/ cells[k] = CR
    BY <2>2, <2>3
  <2>5. cells \in Seq(Cell) /\ ReturnsEnd(cells) /\ Len(cells) <= 4 * m
        /\ (Half(cells) => Len(cells) + 3 <= 4 * m)
    BY <1>1 DEF CellsFit
  <2>6. Len(cells) <= 4 * n /\ (Half(cells) => Len(cells) + 3 <= 4 * n)
    BY <2>1, <2>5
  <2> QED
    BY <2>4, <2>5, <2>6 DEF CellsFit
<1>2. ASSUME NEW k, IsPosition(k, m) PROVE IsPosition(k, n)
  BY <1>2 DEF IsPosition
<1> QED
  BY <1>1, <1>2

LEMMA GrownFits ==
  ASSUME NEW m \in Nat, m <= MaxLines, NEW cells, CellsFit(cells, m), NEW new, NEW n \in 1 .. MaxLines,
         NEW e \in 1 .. 2
  PROVE  /\ Grown(cells, new, n, Width(n), e) /\ n = m + 1 => CellsFit(new, n)
         /\ Grown(cells, new, n, 1, 0) /\ n = m + 1 => CellsFit(new, n)
         /\ Grown(cells, new, n, Width(n) - 1, e) /\ n <= m /\ Half(cells) => CellsFit(new, m)
<1>1. PICK c : c = Len(cells)
  OBVIOUS
<1>2. c \in Nat /\ n \in Nat /\ Width(n) \in 1 .. 2
  BY <1>1, LenProperties, TextWidth DEF CellsFit
<1>0. ReturnsEnd(cells) /\ n # CR /\ NL # CR
  BY LineNumber, Constants DEF CellsFit, NL, CR
<1>3. ASSUME NEW w \in 0 .. 2, NEW d \in 0 .. 2, NEW l \in Nat, Grown(cells, new, n, w, d),
             n <= l, m <= l, c + w + d <= 4 * l, d = 0 => c + w + 3 <= 4 * l
      PROVE  CellsFit(new, l)
  <2>1. PICK b : b = c + w + d
    OBVIOUS
  <2>2. b \in Nat /\ new \in Seq(Cell) /\ Len(new) = b
    BY <1>1, <1>2, <1>3, <2>1 DEF Grown
  <2>3. /\ \A k \in 1 .. c : new[k] = cells[k]
        /\ \A k \in c + 1 .. c + w : new[k] = n
        /\ d # 0 => new[b] = NL
        /\ d = 2 => new[c + w + 1] = CR
    BY <1>1, <1>3, <2>2 DEF Grown
  <2>4. ASSUME NEW k \in 1 .. b
        PROVE  k <= c \/ k \in c + 1 .. c + w \/ (d # 0 /\ k = b) \/ (d = 2 /\ k = c + w + 1)
    BY <1>2, <1>3, <2>1
  <2>5. \A k \in 1 .. b : new[k] <= l \/ new[k] = CR
    <3> SUFFICES ASSUME NEW k \in 1 .. b PROVE new[k] <= l \/ new[k] = CR
      OBVIOUS
    <3>1. CASE k <= c
      <4>1. k \in 1 .. c
        BY <1>2, <3>1
      <4>2. new[k] = cells[k] /\ (cells[k] <= m \/ cells[k] = CR)
        BY <1>1, <2>3, <4>1 DEF CellsFit
      <4>3. cells[k] \in Cell /\ Cell \subseteq Nat
        <5>1. cells \in Seq(Cell) /\ Cell \subseteq Nat
          BY Constants DEF CellsFit, Cell
        <5> QED
          BY <1>1, <4>1, <5>1, ElementOfSeq
      <4>4. PICK v \in Nat : v = cells[k]
        BY <4>3
      <4>5. v <= m => v <= l
        BY <1>3
      <4> QED
        BY <4>2, <4>4, <4>5
    <3>2. CASE k \in c + 1 .. c + w
      BY <1>3, <2>3, <3>2
    <3>3. CASE d # 0 /\ k = b
      BY <1>3, <2>3, <3>3 DEF NL
    <3>4. CASE d = 2 /\ k = c + w + 1
      BY <2>3, <3>4
    <3> QED
      BY <2>4, <3>1, <3>2, <3>3, <3>4
  <2>6. Half(new) => d = 0
    BY <2>2, <2>3 DEF Half
  <2>7. ReturnsEnd(new)
    <3> SUFFICES ASSUME NEW k \in 1 .. b, new[k] = CR PROVE k + 1 \in 1 .. b /\ new[k + 1] = NL
      BY <2>2 DEF ReturnsEnd
    <3>1. CASE k <= c
      <4>1. k \in 1 .. c
        BY <1>2, <3>1
      <4>2. k + 1 \in 1 .. c /\ cells[k + 1] = NL
        BY <1>0, <1>1, <2>3, <4>1 DEF ReturnsEnd
      <4> QED
        BY <1>2, <1>3, <2>1, <2>3, <4>2
    <3>2. CASE k \in c + 1 .. c + w
      BY <1>0, <2>3, <3>2
    <3>3. CASE d # 0 /\ k = b
      BY <1>0, <2>3, <3>3
    <3>4. CASE d = 2 /\ k = c + w + 1
      <4>1. k + 1 = b /\ k + 1 \in 1 .. b
        BY <1>2, <1>3, <2>1, <3>4
      <4> QED
        BY <2>3, <3>4, <4>1
    <3> QED
      BY <2>4, <3>1, <3>2, <3>3, <3>4
  <2>8. b <= 4 * l /\ (Half(new) => b + 3 <= 4 * l)
    BY <1>2, <1>3, <2>1, <2>6
  <2> QED
    BY <2>2, <2>5, <2>7, <2>8 DEF CellsFit
<1>4. c <= 4 * m /\ (Half(cells) => c + 3 <= 4 * m)
  BY <1>1 DEF CellsFit
<1>5. ASSUME NEW w \in 1 .. 2, Grown(cells, new, n, w, e), n = m + 1 PROVE CellsFit(new, n)
  <2>1. c + w + e <= 4 * n /\ m <= n /\ n <= n /\ n \in Nat /\ w \in 0 .. 2
        /\ e \in 0 .. 2 /\ e # 0
    BY <1>2, <1>4, <1>5
  <2> QED
    BY <1>3, <1>5, <2>1
<1>6. ASSUME Grown(cells, new, n, 1, 0), n = m + 1 PROVE CellsFit(new, n)
  <2>1. /\ c + 1 + 0 <= 4 * n /\ c + 1 + 3 <= 4 * n /\ m <= n /\ n <= n /\ n \in Nat
        /\ 1 \in 0 .. 2 /\ 0 \in 0 .. 2
    BY <1>2, <1>4, <1>6
  <2> QED
    BY <1>3, <1>6, <2>1
<1>7. ASSUME NEW w \in 0 .. 1, Grown(cells, new, n, w, e), n <= m, Half(cells) PROVE CellsFit(new, m)
  <2>1. c + w + e <= 4 * m /\ m <= m /\ w \in 0 .. 2 /\ e \in 0 .. 2 /\ e # 0
    BY <1>2, <1>4, <1>7
  <2> QED
    BY <1>3, <1>7, <2>1
<1>8. Width(n) - 1 \in 0 .. 1
  BY <1>2
<1> QED
  BY <1>2, <1>5, <1>6, <1>7, <1>8

\* Reading from an offset: the pieces behind it are sent and the position comes
\* to the end of the file, one behind it after a line that has no end yet, or
\* falls short of it by the carriage returns.
ReadOn(p, offset, first) ==
  LET rest == From(file[p], offset) IN
  /\ rest \in Seq(Cell) /\ AreCut(Pieces(rest), first, rest)
  /\ Pieces(rest) \in Seq(Seq(1 .. MaxLines))
  /\ out' = out \o Pieces(rest)
  /\ pos' = [pos EXCEPT ![p] = pos'[p]]
  /\ pos'[p] \in Nat /\ IsPosition(pos'[p], written)
  /\ offset <= Len(file[p]) /\ ~Half(file[p]) => pos'[p] <= Len(file[p])
  /\ NoReturns(file[p]) =>
       /\ pos'[p] >= Len(file[p])
       /\ offset <= Len(file[p]) /\ ~Half(file[p]) => pos'[p] = Len(file[p])
  /\ unread' = unread \ {p} /\ errors' = errors

LEMMA ReadDone ==
  ASSUME FileTypes, OutTypes, NEW p \in Path, file[p] # Absent,
         NEW offset \in Nat, IsPosition(offset, written), ReadFrom(p, offset)
  PROVE  \E first : ReadOn(p, offset, first)
<1>1. PICK cells : cells = file[p]
  OBVIOUS
<1>2. PICK rest : rest = From(cells, offset)
  OBVIOUS
<1>3. PICK c : c = Len(cells)
  OBVIOUS
<1>4. /\ cells \in Seq(Cell) /\ c \in Nat /\ CellsFit(cells, written) /\ written \in Nat
      /\ ReturnsEnd(cells)
  <2>1. written \in 0 .. MaxLines /\ MaxLines \in Nat
    BY Constants DEF FileTypes
  <2>2. CellsFit(cells, written)
    BY <1>1 DEF FileTypes
  <2> QED
    BY <1>3, <2>1, <2>2, LenProperties DEF CellsFit
<1>5. PICK r : r = Len(rest)
  OBVIOUS
<1>6. /\ rest \in Seq(Cell)
      /\ offset <= c => r = c - offset
      /\ offset > c => r = 0
      /\ \A i \in 1 .. r : rest[i] = cells[offset + i]
  <2>1. /\ From(cells, offset) \in Seq(Cell)
        /\ offset <= Len(cells) => Len(From(cells, offset)) = Len(cells) - offset
        /\ offset > Len(cells) => Len(From(cells, offset)) = 0
        /\ \A i \in 1 .. Len(From(cells, offset)) : From(cells, offset)[i] = cells[offset + i]
    BY <1>4, FromOffset, Zenon
  <2> QED
    BY <1>2, <1>3, <1>5, <2>1, Zenon
<1>14. r \in Nat
  BY <1>5, <1>6, LenProperties
<1>15. ASSUME NEW i \in 1 .. r PROVE offset + i \in 1 .. c
  BY <1>4, <1>6, <1>14, <1>15
<1>16. ReturnsEnd(rest) /\ (NoReturns(cells) => NoReturns(rest))
  <2>1. ASSUME NEW i \in 1 .. r, rest[i] = CR PROVE i + 1 \in 1 .. r /\ rest[i + 1] = NL
    <3>1. offset + i \in 1 .. c /\ cells[offset + i] = CR
      BY <1>6, <1>15, <2>1
    <3>2. offset + i + 1 \in 1 .. c /\ cells[offset + i + 1] = NL
      BY <1>3, <1>4, <3>1 DEF ReturnsEnd
    <3>3. i + 1 \in 1 .. r /\ offset + i + 1 = offset + (i + 1)
      BY <1>4, <1>6, <1>14, <3>2
    <3> QED
      BY <1>6, <3>2, <3>3
  <2>2. NoReturns(cells) => \A i \in 1 .. r : rest[i] # CR
    BY <1>3, <1>6, <1>15 DEF NoReturns
  <2> QED
    BY <1>5, <2>1, <2>2 DEF ReturnsEnd, NoReturns
<1>7. Pieces(rest) \in Seq(Seq(1 .. MaxLines)) /\ \E first : AreCut(Pieces(rest), first, rest)
  BY <1>6, <1>16, PiecesAreCut, Zenon
<1>8. PICK a : a = Advance(rest)
  OBVIOUS
<1>9. /\ out' = out \o Pieces(rest) /\ pos' = [pos EXCEPT ![p] = offset + a]
      /\ unread' = unread \ {p} /\ errors' = errors
  BY <1>1, <1>2, <1>8 DEF ReadFrom
<1>10. pos'[p] = offset + a /\ pos' = [pos EXCEPT ![p] = pos'[p]]
  BY <1>9 DEF OutTypes
<1>11. /\ a \in 0 .. r + 1 /\ (r = 0 => a = 0)
       /\ r # 0 /\ rest[r] = NL => a <= r
       /\ NoReturns(cells) => /\ a \in {r, r + 1}
                              /\ r # 0 /\ rest[r] = NL => a = r
  <2>1. rest = <<>> <=> r = 0
    BY <1>5, <1>6, EmptySeq
  <2>2. /\ Advance(rest) \in 0 .. Len(rest) + 1
        /\ rest = <<>> => Advance(rest) = 0
        /\ rest # <<>> /\ rest[Len(rest)] = NL => Advance(rest) <= Len(rest)
        /\ NoReturns(rest) => /\ Advance(rest) \in {Len(rest), Len(rest) + 1}
                              /\ rest # <<>> /\ rest[Len(rest)] = NL => Advance(rest) = Len(rest)
    BY <1>6, AdvanceBehind, Zenon
  <2> QED
    BY <1>5, <1>8, <1>16, <2>1, <2>2
<1>12. CASE offset <= c
  <2>1. r = c - offset /\ r \in Nat
    BY <1>4, <1>6, <1>12
  <2>2. /\ offset + a \in Nat /\ offset + a \in 0 .. c + 1 /\ (c = 0 => offset + a = 0)
        /\ NoReturns(cells) => offset + a >= c
    BY <1>4, <1>11, <1>12, <2>1
  <2>3. IsPosition(offset + a, written)
    <3>1. c <= 4 * written
      BY <1>3, <1>4 DEF CellsFit
    <3> QED
      BY <1>4, <2>2, <3>1 DEF IsPosition
  <2>4. ASSUME ~Half(cells)
        PROVE  offset + a <= c /\ (NoReturns(cells) => offset + a = c)
    <3>1. CASE r = 0
      BY <1>11, <2>1, <3>1, <1>4
    <3>2. CASE r # 0
      <4>1. r \in 1 .. r /\ offset + r = c /\ c # 0
        BY <1>4, <2>1, <3>2
      <4>2. rest[r] = cells[c]
        BY <1>6, <4>1
      <4>3. cells[c] = NL
        BY <1>3, <2>4, <4>1 DEF Half
      <4>4. a <= r /\ (NoReturns(cells) => a = r) /\ a \in Nat
        BY <1>11, <3>2, <4>2, <4>3
      <4> QED
        BY <2>1, <4>1, <4>4
    <3> QED
      BY <3>1, <3>2
  <2> QED
    BY <1>1, <1>2, <1>3, <1>6, <1>7, <1>9, <1>10, <2>2, <2>3, <2>4, Zenon DEF ReadOn
<1>13. CASE offset > c
  <2>1. a = 0 /\ offset + a = offset /\ offset >= c /\ ~(offset <= c)
    BY <1>4, <1>6, <1>11, <1>13
  <2> QED
    BY <1>1, <1>2, <1>3, <1>6, <1>7, <1>9, <1>10, <2>1, Zenon DEF ReadOn
<1> QED
  BY <1>4, <1>12, <1>13

LEMMA ReadTypes ==
  ASSUME OutTypes, NEW p \in Path, NEW offset, NEW first, ReadOn(p, offset, first),
         UNCHANGED written
  PROVE  OutTypes'
<1>1. pos' = [pos EXCEPT ![p] = pos'[p]] /\ IsPosition(pos'[p], written)
  BY DEF ReadOn
<1>2. pos' = [q \in Path |-> pos'[q]] /\ \A q \in Path : pos'[q] # NoPos => IsPosition(pos'[q], written')
  BY <1>1 DEF OutTypes
<1>3. out' \in Seq(Seq(1 .. MaxLines))
  BY ConcatProperties DEF ReadOn, OutTypes
<1> QED
  BY <1>2, <1>3 DEF OutTypes

\* A step of the file system: the cells of one log change, the task does nothing.
LEMMA FilesStep ==
  ASSUME TypeInv, NEW p \in Path, UNCHANGED taskVars,
         written' \in written .. MaxLines,
         file' = [file EXCEPT ![p] = file'[p]],
         file'[p] # Absent => CellsFit(file'[p], written'),
         watched' \subseteq watched, events' \in Seq(Event), Len(events') <= QueueCap
  PROVE  TypeInv'
<1> USE Constants
<1>1. written \in Nat /\ written' \in Nat /\ written <= written' /\ written' \in 0 .. MaxLines
  BY DEF TypeInv, FileTypes
<1>2. FileTypes'
  <2>1. \A q \in Path : file'[q] # Absent => CellsFit(file'[q], written')
    <3> SUFFICES ASSUME NEW q \in Path, file'[q] # Absent, q # p PROVE CellsFit(file'[q], written')
      OBVIOUS
    <3>1. file'[q] = file[q]
      BY DEF TypeInv, FileTypes
    <3>2. CellsFit(file[q], written)
      BY <3>1 DEF TypeInv, FileTypes
    <3> QED
      BY <1>1, <3>1, <3>2, RoomGrows
  <2>2. file' = [q \in Path |-> file'[q]]
    BY DEF TypeInv, FileTypes
  <2> QED
    BY <1>1, <2>1, <2>2 DEF FileTypes
<1>3. TaskTypes'
  BY DEF TypeInv, TaskTypes, taskVars
<1>4. OutTypes'
  <2>1. \A q \in Path : pos[q] # NoPos => IsPosition(pos[q], written')
    BY <1>1, RoomGrows DEF TypeInv, OutTypes
  <2> QED
    BY <2>1 DEF TypeInv, OutTypes, taskVars
<1> QED
  BY <1>2, <1>3, <1>4 DEF TypeInv

LEMMA EmptyFits == \A n \in Nat : CellsFit(<<>>, n)
<1>1. <<>> \in Seq(Cell) /\ Len(<<>>) = 0
  BY EmptySeq
<1> QED
  BY <1>1 DEF CellsFit, Half, ReturnsEnd

LEMMA LineTypes ==
  ASSUME TypeInv, NEW p \in Path, BeginLine(p) \/ EndLine(p)
  PROVE  TypeInv'
<1>1. FileTypes /\ written \in 0 .. MaxLines
  BY DEF TypeInv, FileTypes
<1>2. CASE BeginLine(p)
  <2>1. /\ file[p] # Absent /\ written' = written + 1 /\ written' \in 1 .. MaxLines
        /\ file' = [file EXCEPT ![p] = file'[p]]
        /\ UNCHANGED watched /\ UNCHANGED taskVars
        /\ \/ \E e \in 1 .. 2 : Grown(file[p], file'[p], written', Width(written'), e)
           \/ Grown(file[p], file'[p], written', 1, 0)
        /\ \E marks : Notify("modify", p, marks)
    BY <1>1, <1>2, LineBegun
  <2>2. CellsFit(file[p], written) /\ written \in Nat /\ written <= MaxLines
    BY <1>1, <2>1, Constants DEF FileTypes
  <2>3. CellsFit(file'[p], written')
    <3>1. 1 \in 1 .. 2
      OBVIOUS
    <3> QED
      BY <2>1, <2>2, <3>1, GrownFits, Zenon
  <2>4. events' \in Seq(Event) /\ Len(events') <= QueueCap
    BY <2>1, NotifyTypes DEF TypeInv
  <2>5. written' \in written .. MaxLines /\ watched' \subseteq watched
    BY <2>1, <2>2
  <2> QED
    BY <2>1, <2>3, <2>4, <2>5, FilesStep
<1>3. CASE EndLine(p)
  <2>1. /\ file[p] # Absent /\ Half(file[p])
        /\ UNCHANGED written /\ UNCHANGED watched /\ UNCHANGED taskVars
        /\ file' = [file EXCEPT ![p] = file'[p]]
        /\ \E marks : Notify("modify", p, marks)
    BY <1>1, <1>3, LineEnded
  <2>2. PICK n \in 1 .. written, e \in 1 .. 2 : Grown(file[p], file'[p], n, Width(n) - 1, e)
    BY <1>1, <1>3, LineEnded
  <2>3. CellsFit(file[p], written) /\ written \in Nat /\ written <= MaxLines /\ n \in 1 .. MaxLines /\ n <= written
    BY <1>1, <2>1, <2>2, Constants DEF FileTypes
  <2>4. CellsFit(file'[p], written)
    BY <2>1, <2>2, <2>3, GrownFits, Zenon
  <2>5. events' \in Seq(Event) /\ Len(events') <= QueueCap
    BY <2>1, NotifyTypes DEF TypeInv
  <2>6. written' \in written .. MaxLines /\ watched' \subseteq watched /\ written' = written
    BY <2>1, <2>3
  <2> QED
    BY <2>1, <2>4, <2>5, <2>6, FilesStep
<1> QED
  BY <1>2, <1>3

LEMMA ChangeTypes ==
  ASSUME TypeInv, NEW p \in Path,
         CreateFile(p) \/ RenameFile(p) \/ RemoveFile(p) \/ Truncate(p)
  PROVE  TypeInv'
<1>1. written' \in written .. MaxLines /\ UNCHANGED taskVars /\ written' \in Nat
  <2>1. UNCHANGED written /\ UNCHANGED taskVars
    BY DEF CreateFile, RenameFile, RemoveFile, Truncate, Change
  <2>2. written \in 0 .. MaxLines /\ MaxLines \in Nat
    BY Constants DEF TypeInv, FileTypes
  <2> QED
    BY <2>1, <2>2
<1>2. watched' \subseteq watched
  BY DEF CreateFile, RenameFile, RemoveFile, Truncate
<1>3. PICK new \in {Absent, <<>>} : file' = [file EXCEPT ![p] = new]
  BY DEF CreateFile, RenameFile, RemoveFile, Truncate
<1>4. file'[p] = new /\ file' = [file EXCEPT ![p] = file'[p]]
  BY <1>3 DEF TypeInv, FileTypes
<1>5. file'[p] # Absent => CellsFit(file'[p], written')
  BY <1>1, <1>3, <1>4, EmptyFits
<1>6. events' \in Seq(Event) /\ Len(events') <= QueueCap
  <2>1. \E kind \in {"modify", "create", "rename", "remove"} : \E marks : Notify(kind, p, marks)
    BY DEF CreateFile, RenameFile, RemoveFile, Truncate
  <2> QED
    BY <2>1, NotifyTypes DEF TypeInv
<1> QED
  BY <1>1, <1>2, <1>4, <1>5, <1>6, FilesStep

\* What the queue is when its first event has been taken.
LEMMA TakenEvents ==
  ASSUME TaskTypes, events # <<>>, events' = Tail(events)
  PROVE  /\ events' \in Seq(Event) /\ Len(events') = Len(events) - 1 /\ Len(events) \in Nat \ {0}
         /\ Len(events') <= QueueCap
         /\ \A i \in 1 .. Len(events') : events'[i] = events[i + 1]
         /\ Head(events) = events[1]
<1>1. events \in Seq(Event) /\ Len(events) <= QueueCap /\ Len(events) \in Nat \ {0}
  BY EmptySeq DEF TaskTypes
<1>2. /\ events' \in Seq(Event) /\ Len(events') = Len(events) - 1
      /\ \A i \in 1 .. Len(events') : events'[i] = events[i + 1]
  BY <1>1, HeadTailProperties
<1>3. Head(events) = events[1]
  BY <1>1
<1> QED
  BY <1>1, <1>2, <1>3, Constants

LEMMA TaskStepTypes ==
  ASSUME TypeInv, UNCHANGED <<file, written, watched>>,
         events' \in Seq(Event) /\ Len(events') <= QueueCap,
         OutTypes',
         tailed' \subseteq Path, todo' \subseteq todo, adopting' \subseteq Path,
         adopting' \subseteq tailed', \A p, q \in adopting' : p = q,
         phase' \in {"start", "loop", "adopt", "dead"},
         todo' # {} => phase' = "start", phase' = "adopt" <=> adopting' # {}
  PROVE  TypeInv'
<1>1. FileTypes'
  BY DEF TypeInv, FileTypes
<1>2. TaskTypes'
  BY DEF TypeInv, TaskTypes
<1> QED
  BY <1>1, <1>2 DEF TypeInv

\* Where a read is asked for, its position is one.
LEMMA Reads ==
  ASSUME TypeInv, NEW p \in Path, file[p] # Absent,
         \/ ReadFrom(p, 0)
         \/ pos[p] # NoPos /\ ReadFrom(p, pos[p])
  PROVE  \E offset, first :
           /\ offset \in Nat
           /\ offset = 0 \/ (pos[p] # NoPos /\ offset = pos[p])
           /\ ReadOn(p, offset, first)
<1>1. FileTypes /\ OutTypes /\ written \in Nat
  BY Constants DEF TypeInv, FileTypes
<1>2. CASE ReadFrom(p, 0)
  <2>1. PICK offset : offset = 0
    OBVIOUS
  <2>2. offset \in Nat /\ IsPosition(offset, written) /\ ReadFrom(p, offset)
    BY <1>1, <1>2, <2>1 DEF IsPosition
  <2>3. \E first : ReadOn(p, offset, first)
    BY <1>1, <2>2, ReadDone
  <2> QED
    BY <2>1, <2>2, <2>3
<1>3. CASE pos[p] # NoPos /\ ReadFrom(p, pos[p])
  <2>1. pos[p] \in Nat /\ IsPosition(pos[p], written)
    BY <1>1, <1>3 DEF IsPosition, OutTypes
  <2>2. \E first : ReadOn(p, pos[p], first)
    BY <1>1, <1>3, <2>1, ReadDone
  <2> QED
    BY <1>3, <2>1, <2>2
<1> QED
  BY <1>2, <1>3

LEMMA AnyReadTypes ==
  ASSUME TypeInv, NEW p \in Path, file[p] # Absent, UNCHANGED written,
         Read(p, 0) \/ (pos[p] # NoPos /\ Read(p, pos[p]))
  PROVE  OutTypes'
<1>1. CASE ReadFails(p)
  BY <1>1 DEF ReadFails, TypeInv, OutTypes
<1>2. CASE ReadFrom(p, 0) \/ (pos[p] # NoPos /\ ReadFrom(p, pos[p]))
  <2>1. PICK offset, first : ReadOn(p, offset, first)
    BY <1>2, Reads
  <2> QED
    BY <2>1, ReadTypes DEF TypeInv
<1> QED
  BY <1>1, <1>2 DEF Read

LEMMA ReadExistingTypes ==
  ASSUME TypeInv, NEW p \in Path, ReadExisting(p)
  PROVE  TypeInv'
<1>1. /\ phase = "start" /\ p \in todo /\ todo' = todo \ {p} /\ adopting' = adopting
      /\ UNCHANGED <<file, written, watched, events>>
      /\ phase' = IF todo' = {} THEN "loop" ELSE "start"
  BY DEF ReadExisting, environment
<1>2. tailed' \in {tailed, tailed \cup {p}} /\ OutTypes'
  <2>1. CASE file[p] = Absent
    BY <1>1, <2>1 DEF ReadExisting, TypeInv, OutTypes
  <2>2. CASE file[p] # Absent
    <3>1. tailed' = tailed \cup {p} /\ Read(p, 0)
      BY <2>2 DEF ReadExisting
    <3> QED
      BY <1>1, <2>2, <3>1, AnyReadTypes
  <2> QED
    BY <2>1, <2>2
<1>3. adopting = {}
  BY <1>1 DEF TypeInv, TaskTypes
<1> QED
  BY <1>1, <1>2, <1>3, TaskStepTypes DEF TypeInv, TaskTypes

LEMMA HandlesTypes ==
  ASSUME TypeInv, NEW kind, NEW p \in Path, Handles(kind, p)
  PROVE  /\ phase = "loop" /\ todo' = todo /\ todo = {} /\ adopting = {}
         /\ UNCHANGED <<file, written, happened, watched>>
         /\ events' \in Seq(Event) /\ Len(events') = Len(events) - 1 /\ Len(events) \in Nat \ {0}
         /\ Len(events') <= QueueCap
         /\ \A i \in 1 .. Len(events') : events'[i] = events[i + 1]
         /\ events[1].kind = kind /\ (kind # "error" => events[1].path = p)
<1>1. /\ phase = "loop" /\ todo' = todo /\ events # <<>> /\ events' = Tail(events)
      /\ UNCHANGED <<file, written, happened, watched>>
      /\ Head(events).kind = kind /\ (kind # "error" => Head(events).path = p)
  BY DEF Handles, environment
<1>2. todo = {} /\ adopting = {} /\ TaskTypes
  BY <1>1 DEF TypeInv, TaskTypes
<1> QED
  BY <1>1, <1>2, TakenEvents

LEMMA HandlerTypes ==
  ASSUME TypeInv, NEW p \in Path,
         HandleModify(p) \/ HandleCreate(p) \/ HandleRemove(p) \/ HandleRename(p)
           \/ (HandleError /\ Handles("error", p))
  PROVE  TypeInv'
<1>1. \E kind : Handles(kind, p)
  BY DEF HandleModify, HandleCreate, HandleRemove, HandleRename
<1>2. /\ phase = "loop" /\ todo' = todo /\ todo = {} /\ adopting = {}
      /\ UNCHANGED file /\ UNCHANGED written /\ UNCHANGED watched
      /\ events' \in Seq(Event) /\ Len(events') <= QueueCap
  BY <1>1, HandlesTypes
<1>3. CASE HandleModify(p)
  <2>1. UNCHANGED phase /\ UNCHANGED adopting /\ UNCHANGED tailed
    BY <1>3 DEF HandleModify
  <2>2. OutTypes'
    <3>1. CASE file[p] # Absent /\ p \in tailed /\ pos[p] # NoPos
      <4>1. Read(p, pos[p])
        BY <1>3, <3>1 DEF HandleModify
      <4> QED
        BY <1>2, <3>1, <4>1, AnyReadTypes
    <3>2. CASE UNCHANGED <<pos, out>>
      BY <1>2, <3>2 DEF TypeInv, OutTypes
    <3> QED
      BY <1>3, <3>1, <3>2 DEF HandleModify
  <2> QED
    BY <1>2, <2>1, <2>2, TaskStepTypes DEF TypeInv, TaskTypes
<1>4. CASE HandleCreate(p)
  <2>1. CASE UNCHANGED <<tailed, pos, phase, adopting, out>>
    <3>1. OutTypes'
      BY <1>2, <2>1 DEF TypeInv, OutTypes
    <3> QED
      BY <1>2, <2>1, <3>1, TaskStepTypes DEF TypeInv, TaskTypes
  <2>2. CASE /\ tailed' = tailed \cup {p} /\ pos' = [pos EXCEPT ![p] = 0] /\ phase' = "adopt"
             /\ adopting' = {p} /\ out' = out
    <3>1. IsPosition(0, written)
      BY Constants DEF IsPosition, TypeInv, FileTypes
    <3>2. OutTypes'
      BY <1>2, <2>2, <3>1 DEF TypeInv, OutTypes
    <3> QED
      BY <1>2, <2>2, <3>2, TaskStepTypes DEF TypeInv, TaskTypes
  <2> QED
    BY <1>4, <2>1, <2>2 DEF HandleCreate
<1>5. CASE HandleRemove(p)
  <2>1. UNCHANGED phase /\ UNCHANGED adopting /\ UNCHANGED out
        /\ tailed' \subseteq tailed /\ pos' \in {pos, [pos EXCEPT ![p] = NoPos]}
    BY <1>5 DEF HandleRemove
  <2>2. OutTypes'
    BY <1>2, <2>1 DEF TypeInv, OutTypes
  <2> QED
    BY <1>2, <2>1, <2>2, TaskStepTypes DEF TypeInv, TaskTypes
<1>6. CASE HandleRename(p)
  <2>1. UNCHANGED <<phase, adopting, tailed, pos, out>>
    BY <1>6 DEF HandleRename
  <2>2. OutTypes'
    BY <1>2, <2>1 DEF TypeInv, OutTypes
  <2> QED
    BY <1>2, <2>1, <2>2, TaskStepTypes DEF TypeInv, TaskTypes
<1>7. CASE HandleError
  <2>1. UNCHANGED <<adopting, tailed, pos, out>> /\ phase' = "dead"
    BY <1>7 DEF HandleError
  <2>2. OutTypes'
    BY <1>2, <2>1 DEF TypeInv, OutTypes
  <2> QED
    BY <1>2, <2>1, <2>2, TaskStepTypes DEF TypeInv, TaskTypes
<1> QED
  BY <1>3, <1>4, <1>5, <1>6, <1>7

LEMMA OtherTypes ==
  ASSUME TypeInv, WatchError \/ StopTailer \/ ListingFails \/ (\E p \in Path : ReadAdopted(p))
  PROVE  TypeInv'
<1>1. CASE WatchError
  <2>1. UNCHANGED <<file, written, watched>> /\ UNCHANGED taskVars
        /\ Len(events) < QueueCap /\ events' = Append(events, [kind |-> "error"])
    BY <1>1 DEF WatchError, environment
  <2>2. [kind |-> "error"] \in Event
    BY DEF Event
  <2>3. events' \in Seq(Event) /\ Len(events') <= QueueCap
    BY <2>1, <2>2, Constants DEF TypeInv, TaskTypes
  <2>4. OutTypes'
    BY <2>1 DEF TypeInv, OutTypes, taskVars
  <2> QED
    BY <2>1, <2>3, <2>4, TaskStepTypes DEF TypeInv, TaskTypes, taskVars
<1>2. CASE StopTailer
  <2>1. /\ UNCHANGED <<file, written, watched, events, todo, adopting, tailed, pos, out>>
        /\ phase = "loop" /\ phase' = "dead"
    BY <1>2 DEF StopTailer, environment
  <2>2. OutTypes'
    BY <2>1 DEF TypeInv, OutTypes
  <2> QED
    BY <2>1, <2>2, TaskStepTypes DEF TypeInv, TaskTypes
<1>3. ASSUME NEW p \in Path, ReadAdopted(p) PROVE TypeInv'
  <2>1. /\ phase = "adopt" /\ p \in adopting /\ phase' = "loop" /\ adopting' = {}
        /\ UNCHANGED <<file, written, watched, events, todo, tailed>>
    BY <1>3 DEF ReadAdopted, environment
  <2>2. OutTypes'
    <3>1. CASE file[p] # Absent
      <4>1. Read(p, 0)
        BY <1>3, <3>1 DEF ReadAdopted
      <4> QED
        BY <2>1, <3>1, <4>1, AnyReadTypes
    <3>2. CASE file[p] = Absent
      <4>1. UNCHANGED <<pos, out>>
        BY <1>3, <3>2 DEF ReadAdopted
      <4> QED
        BY <2>1, <4>1 DEF TypeInv, OutTypes
    <3> QED
      BY <3>1, <3>2
  <2>3. todo = {}
    BY <2>1 DEF TypeInv, TaskTypes
  <2> QED
    BY <2>1, <2>2, <2>3, TaskStepTypes DEF TypeInv, TaskTypes
<1>4. CASE ListingFails
  <2>1. /\ UNCHANGED <<file, written, watched, events, adopting, tailed, pos, out>>
        /\ phase = "start" /\ phase' = "loop" /\ todo' = {}
    BY <1>4 DEF ListingFails, environment
  <2>2. OutTypes'
    BY <2>1 DEF TypeInv, OutTypes
  <2> QED
    BY <2>1, <2>2, TaskStepTypes DEF TypeInv, TaskTypes
<1> QED
  BY <1>1, <1>2, <1>3, <1>4

LEMMA TailerNext == TypeInv /\ [Next]_vars => TypeInv'
<1> SUFFICES ASSUME TypeInv, [Next]_vars PROVE TypeInv'
  OBVIOUS
<1>1. CASE Next
  <2>1. ASSUME HandleError PROVE TypeInv'
    <3>1. PICK p \in Path : Handles("error", p)
      BY <2>1 DEF HandleError
    <3> QED
      BY <2>1, <3>1, HandlerTypes
  <2> QED
    BY <1>1, <2>1, LineTypes, ChangeTypes, ReadExistingTypes, HandlerTypes, OtherTypes
       DEF Next, Task, Environment
<1>2. CASE UNCHANGED vars
  BY <1>2 DEF vars, environment, TypeInv, FileTypes, TaskTypes, OutTypes
<1> QED
  BY <1>1, <1>2

LEMMA TailerTyped == Spec => []TypeInv
BY TailerInit, TailerNext, PTL DEF Spec

UnreadTypes == unread \subseteq Path

LEMMA UnreadInit == Init => UnreadTypes
BY DEF Init, UnreadTypes

LEMMA UnreadNext == UnreadTypes /\ [Next]_vars => UnreadTypes'
<1> SUFFICES ASSUME unread \subseteq Path, [Next]_vars PROVE unread' \subseteq Path
  BY DEF UnreadTypes
<1>1. ASSUME NEW p \in Path, NEW offset, Read(p, offset) PROVE unread' \subseteq Path
  BY <1>1 DEF Read, ReadFrom, ReadFails
<1>2. CASE Task
  BY <1>1, <1>2 DEF Task, ReadExisting, HandleModify, HandleCreate, ReadAdopted, HandleRemove,
     HandleRename, HandleError, ListingFails, faults
<1>3. CASE Environment
  BY <1>3 DEF Environment, BeginLine, EndLine, CreateFile, RenameFile, RemoveFile, Truncate, Change,
     WatchError, StopTailer, faults
<1>4. CASE UNCHANGED vars
  BY <1>4 DEF vars, faults
<1> QED
  BY <1>2, <1>3, <1>4 DEF Next

LEMMA TypesOfTailer == TypeInv /\ UnreadTypes => TypeOK
<1> SUFFICES ASSUME TypeInv, unread \subseteq Path PROVE TypeOK
  BY DEF UnreadTypes
<1>1. \A p \in Path : file[p] = Absent \/ file[p] \in Seq(0 .. CR)
  BY DEF TypeInv, FileTypes, CellsFit, Cell
<1>2. \A p \in Path : pos[p] \in 0 .. NoPos
  <2> SUFFICES ASSUME NEW p \in Path, pos[p] # NoPos PROVE pos[p] \in 0 .. NoPos
    BY Constants
  <2>1. IsPosition(pos[p], written) /\ written \in 0 .. MaxLines
    BY DEF TypeInv, OutTypes, FileTypes
  <2> QED
    BY <2>1, Constants DEF IsPosition
<1>3. \A i \in 1 .. Len(out) : out[i] \in Seq(1 .. MaxLines)
  BY ElementOfSeq DEF TypeInv, OutTypes
<1> QED
  BY <1>1, <1>2, <1>3 DEF TypeOK, TypeInv, TaskTypes

\* Files hold cells, an offset is never so large that it could be taken for a
\* missing one, the queue stays within its capacity, the task is in the middle of
\* a create event exactly while it adopts a path, and every piece sent consists
\* of bytes of lines (src/log_scanner/tailer/mod.rs:201-241, state.rs:107-180).
THEOREM TailerTypes == Spec => []TypeOK
<1>1. Spec => []UnreadTypes
  BY UnreadInit, UnreadNext, PTL DEF Spec
<1> QED
  BY <1>1, TailerTyped, TypesOfTailer, PTL

-----------------------------------------------------------------------------
(* Files of whole lines.                                                   *)

\* Each start has the text of a line and a line end behind it, no other byte is
\* outside a line, and none comes behind the last newline.
LineAt(cells, s) ==
  /\ cells[s] \in 1 .. MaxLines
  /\ \A k \in s .. s + Width(cells[s]) - 1 : cells[k] = cells[s]
  /\ \E e \in 1 .. 2 : /\ s + Width(cells[s]) + e - 1 <= Len(cells)
                       /\ cells[s + Width(cells[s]) + e - 1] = NL
                       /\ e = 2 => cells[s + Width(cells[s])] = CR

WholeLines(cells) ==
  /\ \A s \in Starts(cells) : LineAt(cells, s)
  /\ \A k \in 1 .. Len(cells) : cells[k] \notin {NL, CR} =>
       \E s \in Starts(cells) : cells[s] = cells[k] /\ s <= k
  /\ ~Half(cells)

Boundary(cells, k) == k \in 0 .. Len(cells) /\ (k # 0 => cells[k] = NL)

LEMMA EmptyIsWhole == WholeLines(<<>>) /\ Boundary(<<>>, 0) /\ Starts(<<>>) = {}
<1>1. Len(<<>>) = 0
  OBVIOUS
<1>2. Starts(<<>>) = {}
  BY <1>1 DEF Starts
<1> QED
  BY <1>1, <1>2 DEF WholeLines, Boundary, Half

LEMMA WholeGrown ==
  ASSUME NEW cells \in Seq(Cell), WholeLines(cells), NEW new, NEW n \in 1 .. MaxLines,
         NEW e \in 1 .. 2, Grown(cells, new, n, Width(n), e)
  PROVE  /\ WholeLines(new)
         /\ Starts(new) = Starts(cells) \cup {Len(cells) + 1} /\ new[Len(cells) + 1] = n
         /\ \A s \in Starts(cells) : new[s] = cells[s]
         /\ \A k : Boundary(cells, k) => Boundary(new, k)
<1>1. PICK c : c = Len(cells)
  OBVIOUS
<1>2. PICK w : w = Width(n)
  OBVIOUS
<1>3. c \in Nat /\ w \in 1 .. 2 /\ MaxLines \in Nat /\ n \in Nat /\ n # NL /\ CR # NL
  <2>1. c \in Nat
    BY <1>1, LenProperties
  <2>2. MaxLines \in Nat /\ n \in Nat /\ n # NL /\ w \in 1 .. 2
    BY <1>2, LineNumber
  <2> QED
    BY <2>1, <2>2 DEF CR, NL
<1>14. PICK b : b = c + w + e
  OBVIOUS
<1>15. b \in Nat /\ \A k : k \in 1 .. b <=> k \in 1 .. c \/ k \in c + 1 .. c + w \/ k \in c + w + 1 .. b
  BY <1>3, <1>14
<1>4. /\ Len(new) = b
      /\ \A k \in 1 .. c : new[k] = cells[k]
      /\ \A k \in c + 1 .. c + w : new[k] = n
      /\ new[b] = NL
      /\ e = 2 => new[c + w + 1] = CR
  BY <1>1, <1>2, <1>14 DEF Grown
<1>16. \A k \in c + w + 1 .. b : new[k] \in {NL, CR} /\ (k # b => new[k] # NL)
  <2> SUFFICES ASSUME NEW k \in c + w + 1 .. b PROVE new[k] \in {NL, CR} /\ (k # b => new[k] # NL)
    OBVIOUS
  <2>1. k = b \/ (e = 2 /\ k = c + w + 1)
    BY <1>3, <1>14
  <2> QED
    BY <1>3, <1>4, <2>1
<1>5. new[c + 1] = n
  BY <1>3, <1>4
<1>6. c # 0 => cells[c] = NL
  BY <1>1 DEF WholeLines, Half
<1>7. ASSUME NEW s \in 1 .. b
      PROVE  s \in Starts(new) <=> s \in Starts(cells) \/ s = c + 1
  <2>1. CASE s <= c
    <3>1. s # 1 => s - 1 \in 1 .. c
      BY <1>3, <2>1
    <3> QED
      BY <1>1, <1>3, <1>4, <2>1, <3>1 DEF Starts
  <2>2. CASE s = c + 1
    <3>1. s # 1 => s - 1 = c /\ c \in 1 .. c
      BY <1>3, <2>2
    <3> QED
      BY <1>4, <1>6, <2>2, <3>1 DEF Starts
  <2>3. CASE s > c + 1
    <3>1. s - 1 \in c + 1 .. b /\ s # 1 /\ ~(s <= c) /\ s - 1 # b /\ s # c + 1
      BY <1>3, <1>14, <2>3
    <3>2. new[s - 1] # NL
      <4>1. s - 1 \in c + 1 .. c + w \/ s - 1 \in c + w + 1 .. b
        BY <1>3, <1>14, <3>1
      <4> QED
        BY <1>3, <1>4, <1>16, <3>1, <4>1
    <3>3. s \notin Starts(cells)
      BY <1>1, <1>3, <3>1 DEF Starts
    <3> QED
      BY <3>1, <3>2, <3>3, StartsAre
  <2> QED
    BY <1>3, <1>14, <2>1, <2>2, <2>3
<1>8. Starts(new) = Starts(cells) \cup {c + 1}
  <2>1. Starts(new) \subseteq 1 .. b
    BY <1>4 DEF Starts
  <2>2. Starts(cells) \cup {c + 1} \subseteq 1 .. b
    <3>1. Starts(cells) \subseteq 1 .. c
      BY <1>1 DEF Starts
    <3> QED
      BY <1>3, <1>14, <3>1
  <2> QED
    BY <1>7, <2>1, <2>2
<1>9. \A s \in Starts(cells) : s \in 1 .. c /\ new[s] = cells[s]
  BY <1>1, <1>4 DEF Starts
<1>10. ASSUME NEW s \in Starts(new) PROVE LineAt(new, s)
  <2>1. CASE s = c + 1
    <3>1. s + w + e - 1 = b /\ s + w = c + w + 1 /\ s + w - 1 = c + w /\ b <= b
      BY <1>3, <1>14, <2>1
    <3>2. /\ new[s] = n /\ new[s + w + e - 1] = NL /\ \A k \in s .. s + w - 1 : new[k] = n
          /\ e = 2 => new[s + w] = CR
      BY <1>4, <1>5, <2>1, <3>1
    <3> QED
      BY <1>2, <1>4, <3>1, <3>2 DEF LineAt
  <2>2. CASE s \in Starts(cells)
    <3>1. PICK m \in 1 .. MaxLines : m = cells[s]
      BY <2>2 DEF WholeLines, LineAt
    <3>2. PICK v \in 1 .. 2 : v = Width(m)
      BY <3>1, LineNumber
    <3>3. PICK d \in 1 .. 2 :
            /\ s + v + d - 1 <= c /\ cells[s + v + d - 1] = NL
            /\ d = 2 => cells[s + v] = CR
      BY <1>1, <2>2, <3>1, <3>2 DEF WholeLines, LineAt
    <3>7. \A k \in s .. s + v - 1 : cells[k] = m
      BY <2>2, <3>1, <3>2 DEF WholeLines, LineAt
    <3>4. /\ s + v + d - 1 \in 1 .. c /\ s + v \in 1 .. c /\ \A k \in s .. s + v - 1 : k \in 1 .. c
          /\ s + v + d - 1 <= b
      BY <1>3, <1>9, <1>14, <2>2, <3>3
    <3>5. /\ new[s] = m /\ new[s + v + d - 1] = NL /\ \A k \in s .. s + v - 1 : new[k] = m
          /\ d = 2 => new[s + v] = CR
      BY <1>4, <1>9, <2>2, <3>1, <3>3, <3>4, <3>7
    <3> QED
      BY <1>4, <3>1, <3>2, <3>4, <3>5 DEF LineAt
  <2> QED
    BY <1>8, <2>1, <2>2
<1>11. ASSUME NEW k \in 1 .. b, new[k] \notin {NL, CR}
       PROVE  \E s \in Starts(new) : new[s] = new[k] /\ s <= k
  <2>1. CASE k \in 1 .. c
    <3>1. cells[k] = new[k] /\ cells[k] \notin {NL, CR}
      BY <1>4, <1>11, <2>1
    <3>2. PICK s \in Starts(cells) : cells[s] = cells[k] /\ s <= k
      BY <1>1, <2>1, <3>1 DEF WholeLines
    <3>3. s \in Starts(new) /\ new[s] = cells[s]
      BY <1>8, <1>9, <3>2
    <3> QED
      BY <3>1, <3>2, <3>3
  <2>2. CASE k \in c + 1 .. c + w
    <3>1. c + 1 <= k /\ new[k] = n
      BY <1>3, <1>4, <2>2
    <3> QED
      BY <1>5, <1>8, <3>1
  <2> QED
    BY <1>11, <1>15, <1>16, <2>1, <2>2
<1>12. WholeLines(new)
  BY <1>4, <1>10, <1>11 DEF WholeLines, Half
<1>13. ASSUME NEW k, Boundary(cells, k) PROVE Boundary(new, k)
  <2>1. k \in 0 .. c /\ (k # 0 => cells[k] = NL)
    BY <1>1, <1>13 DEF Boundary
  <2>2. k \in 0 .. b /\ (k # 0 => k \in 1 .. c)
    BY <1>3, <1>14, <2>1
  <2> QED
    BY <1>4, <2>1, <2>2 DEF Boundary
<1> QED
  BY <1>1, <1>5, <1>8, <1>9, <1>12, <1>13

\* The pieces are the lines of the cells that begin behind k, each once and in
\* order; at says where.
AreLines(pieces, at, cells, k) ==
  /\ at \in [1 .. Len(pieces) -> Starts(cells)]
  /\ \A i, j \in 1 .. Len(pieces) : i < j => at[i] < at[j]
  /\ \A i \in 1 .. Len(pieces) : at[i] > k /\ pieces[i] = Text(cells[at[i]])
  /\ \A s \in Starts(cells) : s > k => \E i \in 1 .. Len(pieces) : at[i] = s

\* Behind a newline the lines begin where they began before.
LEMMA StartsBehind ==
  ASSUME NEW cells \in Seq(Cell), NEW k, Boundary(cells, k), NEW rest \in Seq(Cell),
         Len(rest) = Len(cells) - k, \A i \in 1 .. Len(rest) : rest[i] = cells[k + i]
  PROVE  \A s \in 1 .. Len(rest) : s \in Starts(rest) <=> k + s \in Starts(cells)
<1>1. PICK c : c = Len(cells)
  OBVIOUS
<1>2. PICK r : r = Len(rest)
  OBVIOUS
<1>3. c \in Nat /\ k \in 0 .. c /\ r = c - k /\ r \in Nat /\ (k # 0 => cells[k] = NL)
  BY <1>1, <1>2, LenProperties DEF Boundary
<1>4. ASSUME NEW s \in 1 .. r PROVE s \in Starts(rest) <=> k + s \in Starts(cells)
  <2>1. k + s \in 1 .. c
    BY <1>3
  <2>2. CASE s = 1
    <3>1. k + s - 1 = k /\ (k + s = 1 <=> k = 0)
      BY <1>3, <2>2
    <3>2. k + s \in Starts(cells)
      BY <1>1, <1>3, <2>1, <3>1 DEF Starts
    <3> QED
      BY <1>2, <2>2, <3>2 DEF Starts
  <2>3. CASE s # 1
    <3>1. PICK t : t = k + s
      OBVIOUS
    <3>2. PICK j : j = s - 1
      OBVIOUS
    <3>3. j \in 1 .. r /\ k + j = t - 1 /\ t # 1 /\ t \in 1 .. c
      BY <1>3, <2>1, <2>3, <3>1, <3>2
    <3>4. rest[j] = cells[t - 1]
      <4>1. rest[j] = cells[k + j]
        BY <1>2, <3>3
      <4> QED
        BY <3>3, <4>1, Zenon
    <3>5. s \in Starts(rest) <=> rest[j] = NL
      BY <1>2, <2>3, <3>2, StartsAre, Zenon
    <3>6. t \in Starts(cells) <=> cells[t - 1] = NL
      BY <1>1, <3>3, StartsAre, Zenon
    <3> QED
      BY <3>1, <3>4, <3>5, <3>6, Zenon
  <2> QED
    BY <2>2, <2>3
<1> QED
  BY <1>2, <1>4

\* Behind any place each line that begins there still begins.
LEMMA StartsRemain ==
  ASSUME NEW cells \in Seq(Cell), NEW k \in Nat, NEW rest \in Seq(Cell),
         Len(rest) = Len(cells) - k, \A i \in 1 .. Len(rest) : rest[i] = cells[k + i],
         NEW s \in Starts(cells), s > k
  PROVE  s - k \in Nat \ {0} /\ s - k \in Starts(rest)
<1>1. PICK r : r = Len(rest) /\ r \in Nat
  BY LenProperties
<1>2. PICK c : c = Len(cells) /\ c \in Nat
  BY LenProperties
<1>3. PICK t : t = s - k
  OBVIOUS
<1>4. s \in 1 .. c /\ r = c - k /\ t \in 1 .. r /\ t \in Nat \ {0}
  <2>1. s \in 1 .. c
    BY <1>2 DEF Starts
  <2> QED
    BY <1>1, <1>2, <1>3, <2>1
<1>5. CASE t = 1
  BY <1>1, <1>3, <1>4, <1>5 DEF Starts
<1>6. CASE t # 1
  <2>1. PICK j : j = t - 1
    OBVIOUS
  <2>2. j \in 1 .. r /\ k + j = s - 1 /\ s # 1
    BY <1>3, <1>4, <1>6, <2>1
  <2>3. cells[s - 1] = NL
    BY <2>2 DEF Starts
  <2>4. rest[j] = NL
    BY <1>1, <2>2, <2>3
  <2> QED
    BY <1>1, <1>3, <1>4, <2>1, <2>4 DEF Starts
<1> QED
  BY <1>5, <1>6

\* A piece that begins where a line begins is its text.
LEMMA PieceIsText ==
  ASSUME NEW cells \in Seq(Cell), NEW k \in Nat, NEW s \in Nat \ {0}, LineAt(cells, k + s),
         NEW rest \in Seq(Cell), Len(rest) = Len(cells) - k,
         \A i \in 1 .. Len(rest) : rest[i] = cells[k + i],
         NEW piece \in Seq(1 .. MaxLines), IsPiece(piece, rest, s)
  PROVE  piece = Text(cells[k + s])
<1>1. PICK n \in 1 .. MaxLines : n = cells[k + s]
  BY DEF LineAt
<1>2. PICK w : w = Width(n)
  OBVIOUS
<1>3. PICK r : r = Len(rest)
  OBVIOUS
<1>4. PICK l : l = Len(piece)
  OBVIOUS
<1>5. w \in 1 .. 2 /\ n \in Nat /\ n # NL /\ n # CR /\ CR # NL /\ MaxLines \in Nat /\ l \in Nat /\ r \in Nat
  <2>1. l \in Nat /\ r \in Nat
    BY <1>3, <1>4, LenProperties
  <2>2. n \in Nat /\ n # NL /\ n # CR /\ MaxLines \in Nat /\ w \in 1 .. 2
    BY <1>1, <1>2, LineNumber, Zenon
  <2> QED
    BY <2>1, <2>2 DEF CR, NL
<1>6. PICK e \in 1 .. 2 :
        /\ k + s + w + e - 1 <= Len(cells) /\ cells[k + s + w + e - 1] = NL
        /\ e = 2 => cells[k + s + w] = CR
  BY <1>1, <1>2 DEF LineAt
<1>7. PICK f : f = s + w + e - 1
  OBVIOUS
<1>8. /\ f \in 1 .. r /\ s + w - 1 \in 1 .. r /\ rest[f] = NL /\ s < f
      /\ \A i \in s .. s + w - 1 : rest[i] = n
      /\ e = 2 => f - 1 = s + w /\ f - 1 \in 1 .. r - 1 /\ rest[f - 1] = CR
      /\ e = 1 => f - 1 = s + w - 1
  <2>1. \A i \in k + s .. k + s + w - 1 : cells[i] = n
    BY <1>1, <1>2 DEF LineAt
  <2>2. Len(cells) = r + k /\ f <= r
    <3>1. Len(cells) \in Nat
      BY LenProperties
    <3> QED
      BY <1>3, <1>5, <1>6, <1>7, <3>1
  <2>3. ASSUME NEW i \in s .. s + w - 1 PROVE rest[i] = n
    <3>1. i \in 1 .. r /\ k + i \in k + s .. k + s + w - 1
      BY <1>5, <1>7, <2>2
    <3> QED
      BY <1>3, <2>1, <3>1
  <2>4. f \in 1 .. r /\ s + w - 1 \in 1 .. r /\ k + f = k + s + w + e - 1 /\ s < f
    BY <1>5, <1>7, <2>2
  <2>5. rest[f] = NL
    BY <1>3, <1>6, <2>4
  <2>6. CASE e = 2
    <3>1. f - 1 = s + w /\ f - 1 \in 1 .. r - 1 /\ s + w \in 1 .. r /\ k + (s + w) = k + s + w
      BY <1>5, <1>7, <2>4, <2>6
    <3>2. PICK j : j = s + w
      OBVIOUS
    <3>3. j \in 1 .. r /\ cells[k + j] = CR /\ f - 1 = j
      BY <1>6, <2>6, <3>1, <3>2
    <3>4. rest[j] = CR
      BY <1>3, <3>3
    <3> QED
      BY <2>3, <2>4, <2>5, <2>6, <3>1, <3>2, <3>3, <3>4
  <2>7. CASE e = 1
    <3>1. f - 1 = s + w - 1
      BY <1>5, <1>7, <2>7
    <3> QED
      BY <2>3, <2>4, <2>5, <2>7, <3>1
  <2> QED
    BY <2>6, <2>7
<1>9. \A i \in s .. f - 1 : rest[i] # NL
  <2> SUFFICES ASSUME NEW i \in s .. f - 1 PROVE rest[i] # NL
    OBVIOUS
  <2>1. i \in s .. s + w - 1 \/ (e = 2 /\ i = f - 1)
    BY <1>5, <1>7
  <2> QED
    BY <1>5, <1>8, <2>1
<1>10. PICK x : /\ EndsAt(rest, s, x) /\ s + l = PieceEnd(rest, x)
                /\ \A i \in 1 .. l : piece[i] = rest[s + i - 1]
  BY <1>4 DEF IsPiece
<1>11. x = f
  <2>1. /\ x \in s .. r + 1 /\ (x = r + 1 \/ rest[x] = NL)
        /\ \A i \in s .. x - 1 : rest[i] # NL
    BY <1>3, <1>10 DEF EndsAt
  <2>2. ~(x > f)
    <3>1. x > f => f \in s .. x - 1
      BY <1>5, <1>8, <2>1
    <3> QED
      BY <1>8, <2>1, <3>1
  <2>3. ~(x < f)
    <3>1. x < f => x \in s .. f - 1 /\ x # r + 1
      BY <1>5, <1>8, <2>1
    <3> QED
      BY <1>9, <2>1, <3>1
  <2> QED
    BY <1>5, <1>8, <2>1, <2>2, <2>3
<1>12. l = w
  <2>1. CASE e = 2
    <3>1. f - 1 \in Returns(rest)
      <4>1. f - 1 + 1 = f
        BY <1>5, <1>8
      <4> QED
        BY <1>3, <1>8, <2>1, <4>1 DEF Returns
    <3>2. s + l = f - 1
      BY <1>10, <1>11, <3>1 DEF PieceEnd
    <3> QED
      BY <1>5, <1>8, <2>1, <3>2
  <2>2. CASE e = 1
    <3>1. f - 1 \notin Returns(rest)
      <4>1. f - 1 \in s .. s + w - 1
        BY <1>5, <1>8, <2>2
      <4> QED
        BY <1>5, <1>8, <4>1 DEF Returns
    <3>2. s + l = f
      BY <1>10, <1>11, <3>1 DEF PieceEnd
    <3> QED
      BY <1>5, <1>7, <2>2, <3>2
  <2> QED
    BY <2>1, <2>2
<1>13. ASSUME NEW i \in 1 .. w PROVE piece[i] = n
  <2>1. s + i - 1 \in s .. s + w - 1
    BY <1>5
  <2> QED
    BY <1>8, <1>10, <1>12, <2>1
<1>14. Text(n) \in Seq(Nat) /\ Len(Text(n)) = w /\ \A i \in 1 .. w : Text(n)[i] = n
  BY <1>2, <1>5, TextOfLine DEF Width
<1>15. piece \in Seq(Nat)
  <2>1. 1 .. MaxLines \subseteq Nat
    BY <1>5
  <2> QED
    BY <2>1, SeqMonotonic
<1>16. piece = Text(n)
  BY <1>4, <1>12, <1>13, <1>14, <1>15, SeqEqual
<1> QED
  BY <1>1, <1>16

LEMMA PiecesAreLines ==
  ASSUME NEW cells \in Seq(Cell), WholeLines(cells), NEW k, Boundary(cells, k), NEW rest \in Seq(Cell),
         Len(rest) = Len(cells) - k, \A i \in 1 .. Len(rest) : rest[i] = cells[k + i],
         NEW pieces \in Seq(Seq(1 .. MaxLines)), NEW first, AreCut(pieces, first, rest)
  PROVE  \E at : AreLines(pieces, at, cells, k)
<1>1. PICK m : m = Len(pieces)
  OBVIOUS
<1>2. /\ first \in [1 .. m -> Starts(rest)]
      /\ \A i, j \in 1 .. m : i < j => first[i] < first[j]
      /\ \A s \in Starts(rest) : \E i \in 1 .. m : first[i] = s
  BY <1>1 DEF AreCut
<1>3. PICK c : c = Len(cells)
  OBVIOUS
<1>4. k \in Nat /\ Len(rest) \in Nat /\ c \in Nat /\ Len(rest) = c - k /\ m \in Nat
  BY <1>1, <1>3, LenProperties DEF Boundary
<1>5. PICK at : at = [i \in 1 .. m |-> k + first[i]]
  OBVIOUS
<1>6. ASSUME NEW i \in 1 .. m
      PROVE  /\ at[i] = k + first[i] /\ first[i] \in Nat \ {0}
             /\ at[i] \in Starts(cells) /\ at[i] > k /\ pieces[i] = Text(cells[at[i]])
  <2>1. PICK s : s = first[i]
    OBVIOUS
  <2>2. s \in Starts(rest) /\ s \in 1 .. Len(rest) /\ s \in Nat \ {0}
    BY <1>2, <1>4, <2>1 DEF Starts
  <2>3. k + s \in Starts(cells)
    BY <2>2, StartsBehind
  <2>4. LineAt(cells, k + s)
    BY <2>3 DEF WholeLines
  <2>5. PICK piece \in Seq(1 .. MaxLines) : piece = pieces[i]
    BY <1>1, ElementOfSeq
  <2>6. IsPiece(piece, rest, s)
    BY <1>1, <2>1, <2>5 DEF AreCut
  <2>7. piece = Text(cells[k + s])
    BY <1>4, <2>2, <2>4, <2>6, PieceIsText
  <2>8. at[i] = k + s /\ k + s > k
    BY <1>4, <1>5, <2>1, <2>2
  <2> QED
    BY <2>1, <2>2, <2>3, <2>5, <2>7, <2>8
<1>7. at \in [1 .. m -> Starts(cells)]
  BY <1>5, <1>6
<1>8. ASSUME NEW i \in 1 .. m, NEW j \in 1 .. m, i < j PROVE at[i] < at[j]
  <2>1. first[i] < first[j]
    BY <1>2, <1>8
  <2>2. at[i] = k + first[i] /\ at[j] = k + first[j] /\ first[i] \in Nat /\ first[j] \in Nat
    BY <1>6
  <2> QED
    BY <1>4, <2>1, <2>2
<1>9. ASSUME NEW s \in Starts(cells), s > k PROVE \E i \in 1 .. m : at[i] = s
  <2>1. s \in 1 .. c
    BY <1>3 DEF Starts
  <2>2. PICK r : r = s - k
    OBVIOUS
  <2>3. r \in 1 .. Len(rest) /\ k + r = s
    BY <1>4, <1>9, <2>1, <2>2
  <2>4. r \in Starts(rest)
    BY <1>9, <2>3, StartsBehind
  <2>5. PICK i \in 1 .. m : first[i] = r
    BY <1>2, <2>4
  <2> QED
    BY <1>6, <2>3, <2>5
<1>10. AreLines(pieces, at, cells, k)
  <2>1. \A i \in 1 .. m : at[i] > k /\ pieces[i] = Text(cells[at[i]])
    BY <1>6
  <2> QED
    BY <1>1, <1>7, <1>8, <1>9, <2>1, Zenon DEF AreLines
<1> QED
  BY <1>10

\* Wherever a read begins, each line that begins behind is among the pieces.
LEMMA LinesAmongPieces ==
  ASSUME NEW cells \in Seq(Cell), WholeLines(cells), NEW k \in Nat, NEW rest \in Seq(Cell),
         Len(rest) = Len(cells) - k, \A i \in 1 .. Len(rest) : rest[i] = cells[k + i],
         NEW pieces \in Seq(Seq(1 .. MaxLines)), NEW first, AreCut(pieces, first, rest),
         NEW s \in Starts(cells), s > k
  PROVE  \E i \in 1 .. Len(pieces) : pieces[i] = Text(cells[s])
<1>1. PICK t : t = s - k
  OBVIOUS
<1>2. t \in Nat \ {0} /\ t \in Starts(rest)
  BY <1>1, StartsRemain
<1>3. s = k + t
  <2>1. s \in Nat
    BY DEF Starts
  <2> QED
    BY <1>1, <1>2, <2>1
<1>4. PICK i \in 1 .. Len(pieces) : first[i] = t
  BY <1>2 DEF AreCut
<1>5. PICK piece \in Seq(1 .. MaxLines) : piece = pieces[i]
  BY ElementOfSeq
<1>6. IsPiece(piece, rest, t) /\ LineAt(cells, k + t)
  BY <1>3, <1>4, <1>5 DEF AreCut, WholeLines
<1>7. piece = Text(cells[k + t])
  BY <1>2, <1>6, PieceIsText
<1> QED
  BY <1>3, <1>5, <1>7

\* The pieces sent in this step, and what the output is then.
Sent(pieces) ==
  /\ pieces \in Seq(Seq(1 .. MaxLines))
  /\ Len(out) \in Nat /\ Len(pieces) \in Nat /\ Len(out') = Len(out) + Len(pieces)
  /\ \A i \in 1 .. Len(out) : out'[i] = out[i]
  /\ \A i \in 1 .. Len(pieces) : out'[Len(out) + i] = pieces[i]

\* What a read appends to the output.
LEMMA PiecesSent ==
  ASSUME OutTypes, NEW p \in Path, file[p] \in Seq(Cell), NEW offset \in Nat, offset <= Len(file[p]),
         NEW first, ReadOn(p, offset, first)
  PROVE  \E rest \in Seq(Cell), pieces \in Seq(Seq(1 .. MaxLines)) :
           /\ Len(rest) = Len(file[p]) - offset
           /\ \A i \in 1 .. Len(rest) : rest[i] = file[p][offset + i]
           /\ AreCut(pieces, first, rest) /\ Sent(pieces)
<1>1. PICK cells \in Seq(Cell) : cells = file[p]
  OBVIOUS
<1>4. PICK rest : rest = From(cells, offset)
  OBVIOUS
<1>5. /\ rest \in Seq(Cell) /\ AreCut(Pieces(rest), first, rest)
      /\ Pieces(rest) \in Seq(Seq(1 .. MaxLines))
      /\ out' = out \o Pieces(rest)
  BY <1>1, <1>4 DEF ReadOn
<1>6. Len(rest) = Len(cells) - offset /\ \A i \in 1 .. Len(rest) : rest[i] = cells[offset + i]
  <2>1. /\ Len(From(cells, offset)) = Len(cells) - offset
        /\ \A i \in 1 .. Len(From(cells, offset)) : From(cells, offset)[i] = cells[offset + i]
    BY <1>1, FromOffset, Zenon
  <2> QED
    BY <1>4, <2>1, Zenon
<1>7. PICK pieces \in Seq(Seq(1 .. MaxLines)) : pieces = Pieces(rest)
  BY <1>5
<1>9. Sent(pieces)
  <2>1. PICK T : T = Seq(1 .. MaxLines) /\ out \in Seq(T) /\ pieces \in Seq(T)
    BY DEF OutTypes
  <2>2. /\ Len(out) \in Nat /\ Len(pieces) \in Nat /\ Len(out') = Len(out) + Len(pieces)
        /\ \A i \in 1 .. Len(out) : out'[i] = out[i]
        /\ \A i \in 1 .. Len(pieces) : out'[Len(out) + i] = pieces[i]
    BY <1>5, <1>7, <2>1
  <2> QED
    BY <2>2 DEF Sent
<1> QED
  BY <1>1, <1>5, <1>6, <1>7, <1>9

\* A read within a file of whole lines sends each line that begins behind.
LEMMA LinesSentBehind ==
  ASSUME TypeInv, NEW p \in Path, file[p] # Absent, WholeLines(file[p]),
         NEW offset \in Nat, offset <= Len(file[p]), NEW first, ReadOn(p, offset, first)
  PROVE  /\ pos'[p] \in 0 .. Len(file[p])
         /\ pos' = [pos EXCEPT ![p] = pos'[p]]
         /\ \E pieces : /\ Sent(pieces)
                        /\ \A s \in Starts(file[p]) : s > offset =>
                             \E i \in 1 .. Len(pieces) : pieces[i] = Text(file[p][s])
<1>1. file[p] \in Seq(Cell) /\ OutTypes
  BY DEF TypeInv, FileTypes, CellsFit
<1>2. PICK rest \in Seq(Cell), pieces \in Seq(Seq(1 .. MaxLines)) :
        /\ Len(rest) = Len(file[p]) - offset
        /\ \A i \in 1 .. Len(rest) : rest[i] = file[p][offset + i]
        /\ AreCut(pieces, first, rest) /\ Sent(pieces)
  BY <1>1, PiecesSent
<1>3. \A s \in Starts(file[p]) : s > offset => \E i \in 1 .. Len(pieces) : pieces[i] = Text(file[p][s])
  BY <1>1, <1>2, LinesAmongPieces
<1>4. pos'[p] \in Nat /\ pos'[p] <= Len(file[p]) /\ pos' = [pos EXCEPT ![p] = pos'[p]]
  BY DEF ReadOn, WholeLines
<1>5. Len(file[p]) \in Nat
  BY <1>1, LenProperties
<1> QED
  BY <1>2, <1>3, <1>4, <1>5

\* With bare newlines only, a read at the beginning of a line sends the lines
\* behind it and comes to the end of the file.
LEMMA LinesSent ==
  ASSUME TypeInv, NEW p \in Path, file[p] # Absent, WholeLines(file[p]), NoReturns(file[p]),
         NEW offset, Boundary(file[p], offset), NEW first, ReadOn(p, offset, first)
  PROVE  /\ pos'[p] = Len(file[p]) /\ Boundary(file[p], pos'[p])
         /\ pos' = [pos EXCEPT ![p] = pos'[p]]
         /\ \E pieces, at : AreLines(pieces, at, file[p], offset) /\ Sent(pieces)
<1>1. file[p] \in Seq(Cell) /\ OutTypes /\ Len(file[p]) \in Nat
  BY LenProperties DEF TypeInv, FileTypes, CellsFit
<1>2. offset \in Nat /\ offset <= Len(file[p])
  BY <1>1 DEF Boundary
<1>3. PICK rest \in Seq(Cell), pieces \in Seq(Seq(1 .. MaxLines)) :
        /\ Len(rest) = Len(file[p]) - offset
        /\ \A i \in 1 .. Len(rest) : rest[i] = file[p][offset + i]
        /\ AreCut(pieces, first, rest) /\ Sent(pieces)
  BY <1>1, <1>2, PiecesSent
<1>4. \E at : AreLines(pieces, at, file[p], offset)
  BY <1>1, <1>3, PiecesAreLines
<1>5. pos'[p] = Len(file[p]) /\ pos' = [pos EXCEPT ![p] = pos'[p]]
  BY <1>2 DEF ReadOn, WholeLines
<1>6. Boundary(file[p], Len(file[p]))
  BY <1>1 DEF Boundary, WholeLines, Half
<1> QED
  BY <1>3, <1>4, <1>5, <1>6

-----------------------------------------------------------------------------
(* A line is in one file.                                                  *)

LinesApart ==
  \A p, q \in Path : p # q => LinesIn(p) \cap LinesIn(q) = {}

\* What is new in a log that grew is the line it grew by, and line ends.
LEMMA GrownLines ==
  ASSUME NEW cells \in Seq(Cell), NEW new, NEW n, NEW w \in Nat, NEW e \in 0 .. 2,
         Grown(cells, new, n, w, e), NEW k \in 1 .. Len(new)
  PROVE  (k \in 1 .. Len(cells) /\ new[k] = cells[k]) \/ new[k] \in {n, NL, CR}
<1>1. PICK c : c = Len(cells) /\ c \in Nat
  BY LenProperties
<1>2. Len(new) = c + w + e
  BY <1>1 DEF Grown
<1>3. CASE k <= c
  <2>1. k \in 1 .. c
    BY <1>1, <1>2, <1>3
  <2> QED
    BY <1>1, <2>1 DEF Grown
<1>4. CASE k > c /\ k <= c + w
  <2>1. k \in c + 1 .. c + w
    BY <1>1, <1>2, <1>4
  <2> QED
    BY <1>1, <2>1 DEF Grown
<1>5. CASE k > c + w
  <2>1. e # 0 /\ (k = Len(new) \/ (e = 2 /\ k = c + w + 1))
    BY <1>1, <1>2, <1>5
  <2> QED
    BY <1>1, <2>1 DEF Grown
<1> QED
  BY <1>1, <1>2, <1>3, <1>4, <1>5

\* How the files can change in a step.
FilesGrow(p, n) ==
  /\ file[p] # Absent /\ file' = [file EXCEPT ![p] = file'[p]]
  /\ n \in 1 .. MaxLines
  /\ \E w \in Nat, e \in 0 .. 2 : Grown(file[p], file'[p], n, w, e)
  /\ n = written + 1 \/ \E k \in 1 .. Len(file[p]) : file[p][k] = n

FilesShrink(p) ==
  file' = [file EXCEPT ![p] = file'[p]] /\ file'[p] \in {Absent, <<>>}

LEMMA FilesChange ==
  ASSUME TypeInv, Next
  PROVE  \/ UNCHANGED file
         \/ \E p \in Path : FilesShrink(p)
         \/ \E p \in Path, n \in 1 .. MaxLines : FilesGrow(p, n)
<1> USE Constants
<1>1. FileTypes
  BY DEF TypeInv
<1>2. ASSUME NEW p \in Path, BeginLine(p) PROVE FilesGrow(p, written')
  <2>1. /\ file[p] # Absent /\ written' = written + 1 /\ written' \in 1 .. MaxLines
        /\ file' = [file EXCEPT ![p] = file'[p]]
        /\ \/ \E e \in 1 .. 2 : Grown(file[p], file'[p], written', Width(written'), e)
           \/ Grown(file[p], file'[p], written', 1, 0)
    BY <1>1, <1>2, LineBegun
  <2>2. Width(written') \in Nat /\ 1 \in Nat /\ 0 \in 0 .. 2 /\ \A e \in 1 .. 2 : e \in 0 .. 2
    BY <2>1, LineNumber
  <2> QED
    BY <2>1, <2>2, Zenon DEF FilesGrow
<1>3. ASSUME NEW p \in Path, EndLine(p) PROVE \E n \in 1 .. MaxLines : FilesGrow(p, n)
  <2>1. file[p] # Absent /\ Half(file[p]) /\ file' = [file EXCEPT ![p] = file'[p]]
    BY <1>1, <1>3, LineEnded
  <2>2. PICK n \in 1 .. written, e \in 1 .. 2 :
          n = file[p][Len(file[p])] /\ Grown(file[p], file'[p], n, Width(n) - 1, e)
    BY <1>1, <1>3, LineEnded
  <2>3. n \in 1 .. MaxLines
    <3>1. written \in 0 .. MaxLines /\ MaxLines \in Nat
      BY <1>1 DEF FileTypes
    <3> QED
      BY <2>2, <3>1
  <2>4. Width(n) - 1 \in Nat /\ e \in 0 .. 2
    BY <2>3, LineNumber
  <2>5. Len(file[p]) \in 1 .. Len(file[p])
    BY <1>1, <2>1, LenProperties DEF FileTypes, CellsFit, Half
  <2> QED
    BY <2>1, <2>2, <2>3, <2>4, <2>5, Zenon DEF FilesGrow
<1>4. ASSUME NEW p \in Path, CreateFile(p) \/ RenameFile(p) \/ RemoveFile(p) \/ Truncate(p)
      PROVE  FilesShrink(p)
  <2>1. PICK new \in {Absent, <<>>} : file' = [file EXCEPT ![p] = new]
    BY <1>4 DEF CreateFile, RenameFile, RemoveFile, Truncate
  <2>2. file'[p] = new
    BY <1>1, <2>1 DEF FileTypes
  <2> QED
    BY <2>1, <2>2 DEF FilesShrink
<1>5. ASSUME Task \/ WatchError \/ StopTailer PROVE UNCHANGED file
  BY <1>5 DEF Task, WatchError, StopTailer, ListingFails, ReadExisting, HandleModify, HandleCreate,
              ReadAdopted, HandleRemove, HandleRename, HandleError, Handles
<1>6. ASSUME NEW p \in Path, BeginLine(p) PROVE written' \in 1 .. MaxLines
  BY <1>1, <1>6, LineBegun
<1> QED
  BY <1>2, <1>3, <1>4, <1>5, <1>6 DEF Next, Environment

LEMMA ApartInit == Init => LinesApart
<1> SUFFICES ASSUME Init, NEW p \in Path PROVE LinesIn(p) = {}
  BY DEF LinesApart
<1>1. file[p] = Absent \/ file[p] = <<>>
  BY DEF Init
<1> QED
  BY <1>1 DEF LinesIn

LEMMA ApartNext == TypeInv /\ LinesApart /\ [Next]_vars => LinesApart'
<1> SUFFICES ASSUME TypeInv, LinesApart, [Next]_vars PROVE LinesApart'
  OBVIOUS
<1>1. CASE UNCHANGED file
  BY <1>1 DEF LinesApart, LinesIn
<1>2. ASSUME NEW p \in Path, FilesShrink(p) PROVE LinesApart'
  <2>1. LinesIn(p)' = {}
    <3>1. \A i \in 1 .. Len(<<>>) : FALSE
      OBVIOUS
    <3> QED
      BY <1>2, <3>1 DEF FilesShrink, LinesIn
  <2>2. \A q \in Path : q # p => LinesIn(q)' = LinesIn(q)
    BY <1>2 DEF FilesShrink, LinesIn, TypeInv, FileTypes
  <2> QED
    BY <2>1, <2>2 DEF LinesApart
<1>3. ASSUME NEW p \in Path, NEW n \in 1 .. MaxLines, FilesGrow(p, n) PROVE LinesApart'
  <2>1. file[p] \in Seq(Cell) /\ file[p] # Absent
    BY <1>3 DEF FilesGrow, TypeInv, FileTypes, CellsFit
  <2>2. PICK w \in Nat, e \in 0 .. 2 : Grown(file[p], file'[p], n, w, e)
    BY <1>3 DEF FilesGrow
  <2>3. LinesIn(p)' \subseteq LinesIn(p) \cup {n}
    <3> SUFFICES ASSUME NEW m \in LinesIn(p)', m # n PROVE m \in LinesIn(p)
      OBVIOUS
    <3>1. m \in 1 .. MaxLines /\ m # NL /\ m # CR
      BY LineNumber DEF LinesIn
    <3>2. PICK k \in 1 .. Len(file'[p]) : file'[p][k] = m
      BY DEF LinesIn
    <3>3. k \in 1 .. Len(file[p]) /\ file[p][k] = m
      BY <2>1, <2>2, <3>1, <3>2, GrownLines
    <3> QED
      BY <2>1, <3>1, <3>3 DEF LinesIn
  <2>4. \A q \in Path : q # p => LinesIn(q)' = LinesIn(q)
    BY <1>3 DEF FilesGrow, LinesIn, TypeInv, FileTypes
  <2>5. \A q \in Path : q # p => n \notin LinesIn(q)
    <3>1. CASE n = written + 1
      <4> SUFFICES ASSUME NEW q \in Path, n \in LinesIn(q) PROVE FALSE
        OBVIOUS
      <4>1. file[q] # Absent
        BY DEF LinesIn
      <4>2. PICK k \in 1 .. Len(file[q]) : file[q][k] = n
        BY <4>1 DEF LinesIn
      <4>3. n <= written /\ written \in Nat
        <5>1. CellsFit(file[q], written) /\ written \in 0 .. MaxLines
          BY <4>1 DEF TypeInv, FileTypes
        <5>2. n # CR /\ MaxLines \in Nat
          BY LineNumber
        <5> QED
          BY <4>2, <5>1, <5>2 DEF CellsFit
      <4> QED
        BY <3>1, <4>3
    <3>2. CASE \E k \in 1 .. Len(file[p]) : file[p][k] = n
      <4>1. n \in LinesIn(p)
        BY <2>1, <3>2 DEF LinesIn
      <4> QED
        BY <4>1 DEF LinesApart
    <3> QED
      BY <1>3, <3>1, <3>2 DEF FilesGrow
  <2> QED
    BY <2>3, <2>4, <2>5 DEF LinesApart
<1>4. [Next]_vars => UNCHANGED file \/ Next
  BY DEF vars
<1> QED
  BY <1>1, <1>2, <1>3, <1>4, FilesChange

-----------------------------------------------------------------------------
(* What has been handled is read to where the position says.               *)

Waits(kind, p, i) == events[i].kind = kind /\ events[i].path = p
Waiting(kind, p) == \E i \in 1 .. Len(events) : Waits(kind, p, i)

\* The log is read up to its position, and to its end unless an event for it
\* waits or its last read failed.
ReadTo(p) ==
  /\ p \in tailed /\ pos[p] # NoPos /\ pos[p] \in 0 .. Len(file[p])
  /\ \A s \in Starts(file[p]) :
       s <= pos[p] \/ (p \notin unread /\ ~Waiting("modify", p)) => Emitted(file[p][s]) # {}

\* The log is still to be read as a whole, not followed, or read to its position.
InStep(p) ==
  \/ p \in todo \cup adopting \/ Waiting("create", p)
  \/ p \notin tailed \/ (p \in unread /\ pos[p] = NoPos)
  \/ ReadTo(p)

StepInv ==
  ~OutOfStep =>
    /\ \A p \in Path : file[p] # Absent => WholeLines(file[p])
    /\ \A p \in watched : file[p] # Absent => InStep(p)

\* What the task has not come to has no position yet, and a path is adopted from
\* its beginning.
Places ==
  /\ \A p \in todo : pos[p] = NoPos /\ (p \in tailed => p \in Explicit)
  /\ \A p \in adopting : pos[p] = 0

LEMMA PlacesInit == Init => Places
BY DEF Init, Places

LEMMA PlacesNext == TypeInv /\ Places /\ [Next]_vars => Places'
<1> SUFFICES ASSUME TypeInv, Places, [Next]_vars PROVE Places'
  OBVIOUS
<1>1. CASE UNCHANGED taskVars
  BY <1>1 DEF taskVars, Places
<1>2. ASSUME NEW p \in Path, ReadExisting(p) PROVE Places'
  <2>1. todo' = todo \ {p} /\ tailed' \subseteq tailed \cup {p} /\ adopting' = adopting /\ adopting = {}
    BY <1>2 DEF ReadExisting, TypeInv, TaskTypes
  <2>2. \A q \in Path : q # p => pos'[q] = pos[q]
    BY <1>2 DEF ReadExisting, Read, ReadFrom, ReadFails, TypeInv, OutTypes
  <2>3. todo \subseteq Path
    BY DEF TypeInv, TaskTypes
  <2> QED
    BY <2>1, <2>2, <2>3 DEF Places
<1>3. ASSUME NEW p \in Path, NEW kind, Handles(kind, p) PROVE todo' = {} /\ adopting = {}
  BY <1>3, HandlesTypes
<1>4. ASSUME NEW p \in Path, HandleCreate(p) PROVE Places'
  <2>1. todo' = {} /\ adopting = {}
    BY <1>3, <1>4 DEF HandleCreate
  <2>2. CASE file[p] # Absent
    <3>1. pos' = [pos EXCEPT ![p] = 0] /\ adopting' = {p}
      BY <1>4, <2>2 DEF HandleCreate
    <3>2. pos'[p] = 0
      BY <3>1 DEF TypeInv, OutTypes
    <3> QED
      BY <2>1, <3>1, <3>2 DEF Places
  <2>3. CASE file[p] = Absent
    <3>1. adopting' = adopting
      BY <1>4, <2>3 DEF HandleCreate
    <3> QED
      BY <2>1, <3>1 DEF Places
  <2> QED
    BY <2>2, <2>3
<1>5. ASSUME NEW p \in Path, ReadAdopted(p) PROVE Places'
  BY <1>5 DEF ReadAdopted, Places, TypeInv, TaskTypes
<1>6. ASSUME NEW p \in Path, HandleModify(p) \/ HandleRemove(p) \/ HandleRename(p)
                             \/ (HandleError /\ Handles("error", p))
      PROVE  Places'
  <2>1. todo' = {} /\ adopting = {} /\ adopting' = adopting
    BY <1>3, <1>6 DEF HandleModify, HandleRemove, HandleRename, HandleError
  <2> QED
    BY <2>1 DEF Places
<1>7. CASE StopTailer \/ ListingFails
  BY <1>7 DEF StopTailer, ListingFails, Places
<1>8. CASE Environment
  BY <1>1, <1>7, <1>8 DEF Environment, BeginLine, EndLine, CreateFile, RenameFile, RemoveFile, Truncate,
     Change, WatchError
<1>9. CASE Task
  <2>1. ASSUME HandleError PROVE Places'
    BY <1>6, <2>1 DEF HandleError
  <2> QED
    BY <1>2, <1>4, <1>5, <1>6, <1>7, <1>9, <2>1 DEF Task
<1>10. CASE UNCHANGED vars
  BY <1>1, <1>10 DEF vars, taskVars
<1> QED
  BY <1>8, <1>9, <1>10 DEF Next

\* The queue has one event more, or lost its first.
Queued(e) ==
  /\ Len(events) \in Nat /\ Len(events') = Len(events) + 1
  /\ \A i \in 1 .. Len(events) : events'[i] = events[i]
  /\ events'[Len(events) + 1] = e

Taken ==
  /\ Len(events) \in Nat \ {0} /\ Len(events') = Len(events) - 1
  /\ \A i \in 1 .. Len(events') : events'[i] = events[i + 1]

LEMMA QueuedOne ==
  ASSUME TypeInv, NEW e, events' = Append(events, e)
  PROVE  Queued(e)
<1>1. events \in Seq(Event)
  BY DEF TypeInv, TaskTypes
<1> QED
  BY <1>1 DEF Queued

LEMMA QueuedWaits ==
  ASSUME NEW e, Queued(e), NEW p
  PROVE  /\ \A kind : Waiting(kind, p) => Waiting(kind, p)'
         /\ e.path = p => Waiting(e.kind, p)'
<1>1. PICK n \in Nat : n = Len(events)
  BY DEF Queued
<1>2. /\ Len(events') = n + 1 /\ events'[n + 1] = e
      /\ \A i \in 1 .. n : events'[i] = events[i]
  BY <1>1 DEF Queued
<1>3. ASSUME NEW kind, Waiting(kind, p) PROVE Waiting(kind, p)'
  <2>1. PICK i \in 1 .. n : Waits(kind, p, i)
    BY <1>1, <1>3 DEF Waiting
  <2>2. i \in 1 .. Len(events') /\ Waits(kind, p, i)'
    BY <1>2, <2>1 DEF Waits
  <2> QED
    BY <2>2 DEF Waiting
<1>4. n + 1 \in 1 .. Len(events') /\ (e.path = p => Waits(e.kind, p, n + 1)')
  BY <1>2 DEF Waits
<1> QED
  BY <1>3, <1>4 DEF Waiting

LEMMA TakenWaits ==
  ASSUME Taken, NEW p, NEW kind, Waiting(kind, p), ~Waits(kind, p, 1)
  PROVE  Waiting(kind, p)'
<1>1. PICK n \in Nat : n + 1 = Len(events)
  <2>1. Len(events) - 1 \in Nat /\ (Len(events) - 1) + 1 = Len(events)
    BY DEF Taken
  <2> QED
    BY <2>1
<1>2. Len(events') = n /\ \A i \in 1 .. n : events'[i] = events[i + 1]
  BY <1>1 DEF Taken
<1>3. PICK j \in 1 .. n + 1 : Waits(kind, p, j) /\ j # 1
  BY <1>1 DEF Waiting
<1>4. PICK i : i = j - 1
  OBVIOUS
<1>5. i \in 1 .. n /\ i + 1 = j
  BY <1>3, <1>4
<1>6. events'[i] = events[j]
  BY <1>2, <1>5
<1>7. Waits(kind, p, i)'
  BY <1>3, <1>6 DEF Waits
<1> QED
  BY <1>2, <1>5, <1>7 DEF Waiting

\* What was sent stays sent.
OutGrows ==
  /\ Len(out) \in Nat /\ Len(out') \in Nat /\ Len(out) <= Len(out')
  /\ \A i \in 1 .. Len(out) : out'[i] = out[i]

LEMMA SentStays ==
  ASSUME OutGrows, NEW n, Emitted(n) # {}
  PROVE  Emitted(n)' # {}
<1>1. PICK i \in 1 .. Len(out) : out[i] = Text(n)
  BY DEF Emitted
<1>2. i \in 1 .. Len(out') /\ out'[i] = Text(n)
  BY <1>1 DEF OutGrows
<1> QED
  BY <1>2 DEF Emitted

LEMMA OutKept ==
  ASSUME TypeInv
  PROVE  /\ UNCHANGED out => OutGrows
         /\ \A p, offset, first : ReadOn(p, offset, first) => OutGrows
<1>1. PICK T : T = Seq(1 .. MaxLines) /\ out \in Seq(T)
  BY DEF TypeInv, OutTypes
<1>2. ASSUME NEW p, NEW offset, NEW first, ReadOn(p, offset, first) PROVE OutGrows
  <2>1. PICK t \in Seq(T) : out' = out \o t
    BY <1>1, <1>2 DEF ReadOn
  <2> QED
    BY <1>1, <2>1 DEF OutGrows
<1> QED
  BY <1>1, <1>2, LenProperties DEF OutGrows

\* A log whose cells and position are what they were.
LEMMA StaysRead ==
  ASSUME NEW p, ReadTo(p), file'[p] = file[p], pos'[p] = pos[p], p \in tailed', OutGrows,
         \/ p \in unread' \/ Waiting("modify", p)'
         \/ p \notin unread /\ ~Waiting("modify", p)
  PROVE  ReadTo(p)'
<1>1. ASSUME NEW s \in Starts(file'[p]), s <= pos'[p] \/ (p \notin unread' /\ ~Waiting("modify", p)'),
             NEW n, n = file'[p][s]
      PROVE  Emitted(n)' # {}
  <2>1. Emitted(n) # {}
    BY <1>1 DEF ReadTo
  <2> QED
    BY <2>1, SentStays
<1>2. \A s \in Starts(file'[p]) : s <= pos'[p] \/ (p \notin unread' /\ ~Waiting("modify", p)')
        => {i \in 1 .. Len(out') : out'[i] = Text(file'[p][s])} # {}
  BY <1>1 DEF Emitted
<1> QED
  BY <1>2, Zenon DEF ReadTo, Emitted

LEMMA ReadReachesEnd ==
  ASSUME TypeInv, NEW p \in Path, file[p] # Absent, UNCHANGED file, WholeLines(file[p]),
         NEW offset \in Nat, offset <= Len(file[p]), NEW first, ReadOn(p, offset, first),
         \A s \in Starts(file[p]) : s <= offset => Emitted(file[p][s]) # {},
         p \in tailed'
  PROVE  ReadTo(p)'
<1>1. PICK cells : cells = file[p] /\ file'[p] = cells
  OBVIOUS
<1>2. Starts(cells) \subseteq Nat
  BY DEF Starts
<1>3. pos'[p] \in 0 .. Len(cells)
  BY <1>1, LinesSentBehind
<1>4. PICK pieces : /\ Sent(pieces)
                    /\ \A s \in Starts(cells) : s > offset =>
                         \E i \in 1 .. Len(pieces) : pieces[i] = Text(cells[s])
  BY <1>1, LinesSentBehind
<1>5. OutGrows
  BY OutKept
<1>6. ASSUME NEW s \in Starts(cells), NEW n, n = cells[s] PROVE Emitted(n)' # {}
  <2>1. CASE s <= offset
    <3>1. Emitted(n) # {}
      BY <1>1, <1>6, <2>1
    <3> QED
      BY <1>5, <3>1, SentStays
  <2>2. CASE s > offset
    <3>1. PICK i \in 1 .. Len(pieces) : pieces[i] = Text(n)
      BY <1>4, <1>6, <2>2
    <3>3. PICK j : j = Len(out) + i
      OBVIOUS
    <3>4. j \in 1 .. Len(out') /\ out'[j] = Text(n)
      BY <1>4, <3>1, <3>3 DEF Sent
    <3> QED
      BY <3>4 DEF Emitted
  <2> QED
    BY <1>2, <2>1, <2>2
<1>7. \A s \in Starts(file'[p]) : {i \in 1 .. Len(out') : out'[i] = Text(file'[p][s])} # {}
  BY <1>1, <1>6 DEF Emitted
<1>8. pos'[p] # NoPos
  <2>1. Len(cells) <= 4 * written /\ written \in 0 .. MaxLines /\ Len(cells) \in Nat
    BY <1>1, LenProperties DEF TypeInv, FileTypes, CellsFit
  <2>2. MaxLines \in Nat /\ NoPos > 4 * MaxLines /\ NoPos \in Nat
    BY Constants
  <2> QED
    BY <1>3, <2>1, <2>2
<1> QED
  BY <1>1, <1>3, <1>7, <1>8, Zenon DEF ReadTo, Emitted

\* A log whose cells, position and place in the task are what they were.
LEMMA StaysInStep ==
  ASSUME NEW p, InStep(p), file'[p] = file[p], pos'[p] = pos[p], OutGrows,
         p \in tailed <=> p \in tailed', p \in unread => p \in unread',
         p \in todo \cup adopting => p \in (todo \cup adopting)',
         Waiting("create", p) => Waiting("create", p)',
         Waiting("modify", p) => Waiting("modify", p)'
  PROVE  InStep(p)'
<1>1. CASE \/ p \in todo \cup adopting \/ Waiting("create", p)
           \/ p \notin tailed \/ (p \in unread /\ pos[p] = NoPos)
  BY <1>1 DEF InStep
<1>2. CASE ReadTo(p)
  <2>1. p \in tailed'
    BY <1>2 DEF ReadTo
  <2> QED
    BY <1>2, <2>1, StaysRead DEF InStep
<1> QED
  BY <1>1, <1>2 DEF InStep

\* An event about any log, or nothing, was queued.
LEMMA OthersInStep ==
  ASSUME TypeInv, NEW q, InStep(q), file'[q] = file[q], UNCHANGED taskVars, UNCHANGED unread,
         \/ UNCHANGED events
         \/ \E e : Queued(e)
  PROVE  InStep(q)'
<1>1. \A kind : Waiting(kind, q) => Waiting(kind, q)'
  <2>1. CASE UNCHANGED events
    BY <2>1 DEF Waiting, Waits
  <2>2. CASE \E e : Queued(e)
    BY <2>2, QueuedWaits
  <2> QED
    BY <2>1, <2>2
<1>2. OutGrows
  BY OutKept DEF taskVars
<1> QED
  BY <1>1, <1>2, StaysInStep DEF taskVars

LEMMA NotifyQueues ==
  ASSUME TypeInv, NEW kind \in {"modify", "create", "rename", "remove"}, NEW p \in Path,
         NEW marks, Notify(kind, p, marks), ~OutOfStep'
  PROVE  /\ ~OutOfStep /\ marks \cap {"drop", "truncate", "half"} = {}
         /\ p \notin watched => UNCHANGED events
         /\ p \in watched => \E e : Queued(e) /\ e.kind = kind /\ e.path = p
<1>1. happened \subseteq happened' /\ marks \subseteq happened'
  BY DEF Notify
<1>2. "drop" \notin happened'
  BY DEF OutOfStep
<1>3. p \in watched => Len(events) < QueueCap
  BY <1>2 DEF Notify
<1>4. PICK e : e = [kind |-> kind, path |-> p]
  OBVIOUS
<1>5. p \in watched => Queued(e)
  BY <1>3, <1>4, QueuedOne DEF Notify
<1>6. e.kind = kind /\ e.path = p
  BY <1>4
<1> QED
  BY <1>1, <1>3, <1>5, <1>6 DEF Notify, OutOfStep

LEMMA StepInit == Init => StepInv
<1> SUFFICES ASSUME Init PROVE StepInv
  OBVIOUS
<1>1. \A p \in Path : file[p] # Absent => file[p] = <<>>
  BY DEF Init
<1>2. events = <<>> /\ todo = Path /\ watched \subseteq Path
  BY TailerAssumption DEF Init, TailerAssumption
<1> QED
  BY <1>1, <1>2, EmptyIsWhole DEF StepInv, InStep

LEMMA StepBeginLine ==
  ASSUME TypeInv, StepInv, NEW p \in Path, BeginLine(p), ~OutOfStep'
  PROVE  /\ \A q \in Path : file'[q] # Absent => WholeLines(file'[q])
         /\ \A q \in watched' : file'[q] # Absent => InStep(q)'
<1>1. FileTypes
  BY DEF TypeInv
<1>2. /\ file[p] # Absent /\ written' \in 1 .. MaxLines
      /\ file' = [file EXCEPT ![p] = file'[p]]
      /\ UNCHANGED watched /\ UNCHANGED taskVars /\ UNCHANGED faults
      /\ \/ \E e \in 1 .. 2 : /\ Grown(file[p], file'[p], written', Width(written'), e)
                              /\ Notify("modify", p, EndMarks(e))
         \/ Notify("modify", p, {"half"})
  BY <1>1, LineBegun
<1>3. ~Notify("modify", p, {"half"})
  BY DEF Notify, OutOfStep
<1>12. PICK e \in 1 .. 2 : /\ Grown(file[p], file'[p], written', Width(written'), e)
                           /\ Notify("modify", p, EndMarks(e))
  BY <1>2, <1>3
<1>4. /\ ~OutOfStep
      /\ p \notin watched => UNCHANGED events
      /\ p \in watched => \E f : Queued(f) /\ f.kind = "modify" /\ f.path = p
  BY <1>12, NotifyQueues
<1>5. WholeLines(file[p]) /\ file[p] \in Seq(Cell)
  BY <1>2, <1>4 DEF StepInv, TypeInv, FileTypes, CellsFit
<1>6. /\ WholeLines(file'[p])
      /\ Starts(file'[p]) = Starts(file[p]) \cup {Len(file[p]) + 1}
      /\ \A s \in Starts(file[p]) : file'[p][s] = file[p][s]
  BY <1>2, <1>5, <1>12, WholeGrown
<1>7. \A q \in Path : q # p => file'[q] = file[q]
  BY <1>2 DEF TypeInv, FileTypes
<1>8. ASSUME NEW q \in watched, q # p, file[q] # Absent PROVE InStep(q)'
  <2>1. InStep(q) /\ q \in Path
    BY <1>4, <1>8 DEF StepInv, TypeInv, TaskTypes
  <2>2. UNCHANGED events \/ \E f : Queued(f)
    BY <1>4
  <2>3. UNCHANGED unread
    BY <1>2 DEF faults
  <2> QED
    BY <1>2, <1>7, <1>8, <2>1, <2>2, <2>3, OthersInStep
<1>9. ASSUME p \in watched PROVE InStep(p)'
  <2>1. PICK f : Queued(f) /\ f.kind = "modify" /\ f.path = p
    BY <1>4, <1>9
  <2>2. InStep(p)
    BY <1>2, <1>4, <1>9 DEF StepInv
  <2>3. Waiting("modify", p)' /\ (Waiting("create", p) => Waiting("create", p)')
    BY <2>1, QueuedWaits
  <2>4. CASE ReadTo(p)
    <3>2. pos[p] <= Len(file[p]) /\ pos[p] \in Nat /\ Len(file[p]) \in Nat
      BY <1>5, <2>4, LenProperties DEF ReadTo
    <3>1. p \in tailed' /\ pos' = pos /\ out' = out /\ pos[p] # NoPos /\ pos[p] \in 0 .. Len(file'[p])
      <4>1. Len(file[p]) <= Len(file'[p]) /\ Len(file'[p]) \in Nat
        <5>1. Len(file'[p]) = Len(file[p]) + Width(written') + e /\ Width(written') \in 1 .. 2
          BY <1>2, <1>12, LineNumber DEF Grown
        <5> QED
          BY <3>2, <5>1
      <4> QED
        BY <1>2, <2>4, <3>2, <4>1 DEF taskVars, ReadTo
    <3>3. \A s \in Starts(file'[p]) : s <= pos[p] => Emitted(file'[p][s]) # {}
      <4> SUFFICES ASSUME NEW s \in Starts(file'[p]), s <= pos[p]
                   PROVE  {i \in 1 .. Len(out) : out[i] = Text(file'[p][s])} # {}
        BY DEF Emitted
      <4>1. s # Len(file[p]) + 1
        BY <3>2
      <4>2. s \in Starts(file[p]) /\ file'[p][s] = file[p][s]
        BY <1>6, <4>1
      <4> QED
        BY <2>4, <4>2 DEF ReadTo, Emitted
    <3>4. ReadTo(p)'
      BY <2>3, <3>1, <3>3, Zenon DEF ReadTo, Emitted
    <3> QED
      BY <3>4 DEF InStep
  <2>5. CASE \/ p \in todo \cup adopting \/ Waiting("create", p)
             \/ p \notin tailed \/ (p \in unread /\ pos[p] = NoPos)
    BY <1>2, <2>3, <2>5 DEF InStep, taskVars, faults
  <2> QED
    BY <2>2, <2>4, <2>5 DEF InStep
<1>10. \A q \in Path : file'[q] # Absent => WholeLines(file'[q])
  BY <1>4, <1>6, <1>7 DEF StepInv
<1>11. \A q \in watched : q \in Path
  BY DEF TypeInv, TaskTypes
<1> QED
  BY <1>2, <1>7, <1>8, <1>9, <1>10, <1>11

LEMMA StepChange ==
  ASSUME TypeInv, StepInv, NEW p \in Path, ~OutOfStep',
         CreateFile(p) \/ RenameFile(p) \/ RemoveFile(p)
  PROVE  /\ \A q \in Path : file'[q] # Absent => WholeLines(file'[q])
         /\ \A q \in watched' : file'[q] # Absent => InStep(q)'
<1>1. UNCHANGED taskVars /\ UNCHANGED unread /\ watched' \subseteq watched /\ watched \subseteq Path
  BY DEF CreateFile, RenameFile, RemoveFile, Change, faults, TypeInv, TaskTypes
<1>2. PICK new \in {Absent, <<>>} : file' = [file EXCEPT ![p] = new]
  BY DEF CreateFile, RenameFile, RemoveFile
<1>3. file'[p] = new /\ \A q \in Path : q # p => file'[q] = file[q]
  BY <1>2 DEF TypeInv, FileTypes
<1>4. PICK kind \in {"modify", "create", "rename", "remove"} :
        /\ \E marks : Notify(kind, p, marks)
        /\ new # Absent => kind = "create" /\ watched' = watched
  <2>1. CASE CreateFile(p)
    BY <2>1 DEF CreateFile
  <2>2. CASE RenameFile(p)
    <3>1. file'[p] = Absent /\ Notify("rename", p, {"replace"})
      BY <2>2 DEF RenameFile, TypeInv, FileTypes
    <3> QED
      BY <1>3, <3>1
  <2>3. CASE RemoveFile(p)
    <3>1. file'[p] = Absent /\ Notify("remove", p, {"replace"})
      BY <2>3 DEF RemoveFile, TypeInv, FileTypes
    <3> QED
      BY <1>3, <3>1
  <2> QED
    BY <2>1, <2>2, <2>3
<1>5. /\ ~OutOfStep
      /\ p \notin watched => UNCHANGED events
      /\ p \in watched => \E e : Queued(e) /\ e.kind = kind /\ e.path = p
  BY <1>4, NotifyQueues
<1>6. ASSUME NEW q \in watched, q # p, file[q] # Absent PROVE InStep(q)'
  <2>1. InStep(q) /\ q \in Path
    BY <1>1, <1>5, <1>6 DEF StepInv
  <2>2. UNCHANGED events \/ \E e : Queued(e)
    BY <1>5
  <2> QED
    BY <1>1, <1>3, <1>6, <2>1, <2>2, OthersInStep
<1>7. ASSUME p \in watched', new # Absent PROVE InStep(p)'
  <2>1. PICK e : Queued(e) /\ e.kind = "create" /\ e.path = p
    BY <1>1, <1>4, <1>5, <1>7
  <2> QED
    BY <2>1, QueuedWaits DEF InStep
<1>8. \A q \in Path : file'[q] # Absent => WholeLines(file'[q])
  BY <1>2, <1>3, <1>5, EmptyIsWhole DEF StepInv
<1> QED
  BY <1>1, <1>3, <1>6, <1>7, <1>8

\* The task took the first event, or none, and did nothing to the log q.
LEMMA TaskPasses ==
  ASSUME TypeInv, NEW q, InStep(q), UNCHANGED file, pos'[q] = pos[q], OutGrows,
         q \in tailed <=> q \in tailed', q \in unread => q \in unread',
         q \in todo \cup adopting => q \in (todo \cup adopting)',
         \/ UNCHANGED events
         \/ Taken /\ ~Waits("create", q, 1) /\ ~Waits("modify", q, 1)
  PROVE  InStep(q)'
<1>1. /\ Waiting("create", q) => Waiting("create", q)'
      /\ Waiting("modify", q) => Waiting("modify", q)'
  <2>1. CASE UNCHANGED events
    BY <2>1 DEF Waiting, Waits
  <2>2. CASE Taken /\ ~Waits("create", q, 1) /\ ~Waits("modify", q, 1)
    BY <2>2, TakenWaits
  <2> QED
    BY <2>1, <2>2
<1> QED
  BY <1>1, StaysInStep

\* A read, or a failing one, of another log, or none at all.
LEMMA ReadsElsewhere ==
  ASSUME TypeInv, NEW q \in Path, NEW p \in Path,
         \/ UNCHANGED <<pos, out, faults>>
         \/ ReadFails(p)
         \/ p # q /\ file[p] # Absent /\ (Read(p, 0) \/ (pos[p] # NoPos /\ Read(p, pos[p])))
  PROVE  pos'[q] = pos[q] /\ OutGrows /\ (q \in unread => q \in unread')
<1>1. CASE UNCHANGED <<pos, out, faults>> \/ ReadFails(p)
  BY <1>1, OutKept DEF ReadFails, faults
<1>2. CASE /\ p # q /\ file[p] # Absent
           /\ ReadFrom(p, 0) \/ (pos[p] # NoPos /\ ReadFrom(p, pos[p]))
  <2>1. PICK offset, first : ReadOn(p, offset, first)
    BY <1>2, Reads
  <2>2. OutGrows
    BY <2>1, OutKept
  <2> QED
    BY <1>2, <2>1, <2>2 DEF ReadOn, TypeInv, OutTypes
<1> QED
  BY <1>1, <1>2 DEF Read

\* A read from the beginning leaves nothing to be read.
LEMMA ReadWhole ==
  ASSUME TypeInv, NEW p \in Path, file[p] # Absent, UNCHANGED file, WholeLines(file[p]),
         ReadFrom(p, 0), p \in tailed'
  PROVE  ReadTo(p)'
<1>1. PICK offset, first : /\ offset = 0 /\ ReadOn(p, offset, first)
  <2>1. 0 \in Nat /\ IsPosition(0, written) /\ FileTypes /\ OutTypes
    BY Constants DEF IsPosition, TypeInv, FileTypes
  <2> QED
    BY <2>1, ReadDone
<1>2. offset \in Nat /\ offset <= Len(file[p])
  BY <1>1, LenProperties DEF TypeInv, FileTypes, CellsFit
<1>3. \A s \in Starts(file[p]) : ~(s <= offset)
  BY <1>1 DEF Starts
<1> QED
  BY <1>1, <1>2, <1>3, ReadReachesEnd

LEMMA StepReadExisting ==
  ASSUME TypeInv, Places, StepInv, ~OutOfStep, NEW p \in Path, ReadExisting(p),
         NEW q \in watched, file[q] # Absent
  PROVE  InStep(q)'
<1>1. /\ todo' = todo \ {p} /\ p \in todo /\ UNCHANGED adopting /\ UNCHANGED file /\ UNCHANGED events
      /\ tailed' \in {tailed, tailed \cup {p}}
  BY DEF ReadExisting
<1>2. q \in Path /\ InStep(q) /\ WholeLines(file[q])
  BY DEF TypeInv, TaskTypes, StepInv
<1>3. CASE p # q
  <2>1. pos'[q] = pos[q] /\ OutGrows /\ (q \in unread => q \in unread')
    <3>1. CASE file[p] = Absent
      BY <1>2, <3>1, ReadsElsewhere DEF ReadExisting
    <3>2. CASE file[p] # Absent
      <4>1. Read(p, 0)
        BY <3>2 DEF ReadExisting
      <4> QED
        BY <1>2, <1>3, <3>2, <4>1, ReadsElsewhere
    <3> QED
      BY <3>1, <3>2
  <2> QED
    BY <1>1, <1>2, <1>3, <2>1, TaskPasses
<1>4. CASE p = q
  <2>1. Read(p, 0) /\ p \in tailed'
    BY <1>4 DEF ReadExisting
  <2>2. CASE ReadFails(p)
    BY <1>1, <1>4, <2>2 DEF ReadFails, Places, InStep
  <2>3. CASE ReadFrom(p, 0)
    BY <1>1, <1>2, <1>4, <2>1, <2>3, ReadWhole DEF InStep
  <2> QED
    BY <2>1, <2>2, <2>3 DEF Read
<1> QED
  BY <1>3, <1>4

LEMMA StepListingFails ==
  ASSUME TypeInv, Places, StepInv, ~OutOfStep, ListingFails,
         NEW q \in watched, file[q] # Absent
  PROVE  InStep(q)'
<1>1. /\ todo' = {} /\ todo \cap Explicit = {} /\ UNCHANGED file /\ UNCHANGED events /\ UNCHANGED unread
      /\ UNCHANGED adopting /\ UNCHANGED tailed /\ UNCHANGED pos /\ UNCHANGED out
  BY DEF ListingFails
<1>2. q \in Path /\ InStep(q)
  BY DEF TypeInv, TaskTypes, StepInv
<1>3. CASE q \in todo
  BY <1>1, <1>3 DEF Places, InStep
<1>4. CASE q \notin todo
  BY <1>1, <1>2, <1>4, OutKept, TaskPasses
<1> QED
  BY <1>3, <1>4

LEMMA HandlerTakes ==
  ASSUME TypeInv, NEW kind, NEW p \in Path, Handles(kind, p)
  PROVE  /\ Taken /\ UNCHANGED file /\ todo = {} /\ adopting = {} /\ phase = "loop"
         /\ \A k, q : Waits(k, q, 1) => k = kind /\ (kind # "error" => q = p)
         /\ kind # "error" => Waits(kind, p, 1)
BY HandlesTypes DEF Taken, Waits

LEMMA StepModify ==
  ASSUME TypeInv, StepInv, ~OutOfStep, NEW p \in Path, HandleModify(p),
         NEW q \in watched, file[q] # Absent
  PROVE  InStep(q)'
<1>1. UNCHANGED adopting /\ UNCHANGED tailed /\ UNCHANGED todo /\ Handles("modify", p)
  BY DEF HandleModify, Handles
<1>2. /\ Taken /\ UNCHANGED file /\ todo = {} /\ adopting = {}
      /\ \A k, r : Waits(k, r, 1) => k = "modify" /\ r = p
  BY <1>1, HandlerTakes
<1>3. q \in Path /\ InStep(q) /\ WholeLines(file[q])
  BY DEF TypeInv, TaskTypes, StepInv
<1>4. Waiting("create", q) => Waiting("create", q)'
  BY <1>2, TakenWaits
<1>5. CASE p # q
  <2>1. pos'[q] = pos[q] /\ OutGrows /\ (q \in unread => q \in unread')
    <3>1. CASE file[p] # Absent /\ p \in tailed /\ pos[p] # NoPos
      <4>1. Read(p, pos[p])
        BY <3>1 DEF HandleModify
      <4> QED
        BY <1>3, <1>5, <3>1, <4>1, ReadsElsewhere
    <3>2. CASE UNCHANGED <<pos, out, faults>>
      BY <1>3, <3>2, ReadsElsewhere
    <3> QED
      BY <3>1, <3>2 DEF HandleModify
  <2> QED
    BY <1>1, <1>2, <1>3, <1>5, <2>1, TaskPasses
<1>6. CASE p = q /\ p \in tailed /\ pos[p] # NoPos
  <2>1. Read(p, pos[p])
    BY <1>6 DEF HandleModify
  <2>2. CASE ReadTo(q)
    <3>1. CASE ReadFails(p)
      <4>1. pos' = pos /\ q \in unread' /\ OutGrows
        BY <1>6, <3>1, OutKept DEF ReadFails
      <4>2. q \in tailed'
        BY <1>1, <1>6
      <4>3. ReadTo(q)'
        BY <1>2, <2>2, <4>1, <4>2, StaysRead
      <4> QED
        BY <4>3 DEF InStep
    <3>2. CASE ReadFrom(p, pos[p])
      <4>1. pos[p] \in Nat /\ IsPosition(pos[p], written) /\ FileTypes /\ OutTypes
        <5>1. IsPosition(pos[p], written) /\ FileTypes /\ OutTypes
          BY <1>6 DEF TypeInv, OutTypes
        <5> QED
          BY <5>1 DEF IsPosition
      <4>2. PICK first : ReadOn(p, pos[p], first)
        BY <1>6, <3>2, <4>1, ReadDone
      <4>3. pos[p] <= Len(file[p]) /\ \A s \in Starts(file[p]) : s <= pos[p] => Emitted(file[p][s]) # {}
        BY <1>6, <2>2 DEF ReadTo
      <4>4. ReadTo(p)'
        BY <1>1, <1>2, <1>3, <1>6, <4>1, <4>2, <4>3, ReadReachesEnd
      <4> QED
        BY <1>6, <4>4 DEF InStep
    <3> QED
      BY <2>1, <3>1, <3>2 DEF Read
  <2> QED
    BY <1>2, <1>3, <1>4, <1>6, <2>2 DEF InStep
<1>7. CASE p = q /\ ~(p \in tailed /\ pos[p] # NoPos)
  <2>1. UNCHANGED <<pos, out, faults>>
    BY <1>7 DEF HandleModify
  <2>2. ~ReadTo(q)
    BY <1>7 DEF ReadTo
  <2> QED
    BY <1>1, <1>2, <1>3, <1>4, <2>1, <2>2 DEF InStep, faults
<1> QED
  BY <1>5, <1>6, <1>7

LEMMA StepCreate ==
  ASSUME TypeInv, StepInv, ~OutOfStep, NEW p \in Path, HandleCreate(p),
         NEW q \in watched, file[q] # Absent
  PROVE  InStep(q)'
<1>1. UNCHANGED out /\ UNCHANGED unread /\ Handles("create", p) /\ tailed' \in {tailed, tailed \cup {p}}
  BY DEF HandleCreate, faults
<1>2. /\ Taken /\ UNCHANGED file /\ todo = {} /\ adopting = {}
      /\ \A k, r : Waits(k, r, 1) => k = "create" /\ r = p
  BY <1>1, HandlerTakes
<1>3. q \in Path /\ InStep(q)
  BY DEF TypeInv, TaskTypes, StepInv
<1>4. CASE p = q
  <2>1. adopting' = {q}
    BY <1>4 DEF HandleCreate
  <2> QED
    BY <2>1 DEF InStep
<1>5. CASE p # q
  <2>1. pos'[q] = pos[q]
    BY <1>3, <1>5 DEF HandleCreate, TypeInv, OutTypes
  <2> QED
    BY <1>1, <1>2, <1>3, <1>5, <2>1, OutKept, TaskPasses
<1> QED
  BY <1>4, <1>5

LEMMA StepReadAdopted ==
  ASSUME TypeInv, Places, StepInv, ~OutOfStep, NEW p \in Path, ReadAdopted(p),
         NEW q \in watched, file[q] # Absent
  PROVE  InStep(q)'
<1>1. /\ p \in adopting /\ todo' = todo /\ UNCHANGED file /\ UNCHANGED events /\ UNCHANGED tailed
      /\ phase = "adopt"
  BY DEF ReadAdopted
<1>2. q \in Path /\ InStep(q) /\ p \in tailed /\ WholeLines(file[q])
      /\ (q # p => q \notin adopting) /\ todo = {}
  BY <1>1 DEF TypeInv, TaskTypes, StepInv
<1>3. CASE p # q
  <2>1. pos'[q] = pos[q] /\ OutGrows /\ (q \in unread => q \in unread')
    <3>1. CASE file[p] = Absent
      BY <1>2, <3>1, ReadsElsewhere DEF ReadAdopted
    <3>2. CASE file[p] # Absent
      <4>1. Read(p, 0)
        BY <3>2 DEF ReadAdopted
      <4> QED
        BY <1>2, <1>3, <3>2, <4>1, ReadsElsewhere
    <3> QED
      BY <3>1, <3>2
  <2> QED
    BY <1>1, <1>2, <1>3, <2>1, TaskPasses
<1>4. CASE p = q
  <2>1. Read(p, 0)
    BY <1>4 DEF ReadAdopted
  <2>2. CASE ReadFrom(p, 0)
    BY <1>1, <1>2, <1>4, <2>2, ReadWhole DEF InStep
  <2>3. CASE ReadFails(p)
    <3>1. pos' = pos /\ q \in unread' /\ pos[q] = 0
      BY <1>1, <1>4, <2>3 DEF ReadFails, Places
    <3>2. 0 # NoPos /\ 0 \in 0 .. Len(file[q])
      <4>1. Len(file[q]) \in Nat
        BY <1>2, LenProperties DEF TypeInv, FileTypes, CellsFit
      <4>2. NoPos \in Nat /\ MaxLines \in Nat /\ NoPos > 4 * MaxLines
        BY Constants
      <4> QED
        BY <4>1, <4>2
    <3>3. \A s \in Starts(file[q]) : ~(s <= 0)
      BY DEF Starts
    <3>4. q \in tailed' /\ file' = file
      BY <1>1, <1>2, <1>4
    <3>5. ReadTo(q)'
      BY <3>1, <3>2, <3>3, <3>4, Zenon DEF ReadTo
    <3> QED
      BY <3>5 DEF InStep
  <2> QED
    BY <2>1, <2>2, <2>3 DEF Read
<1> QED
  BY <1>3, <1>4

LEMMA StepForget ==
  ASSUME TypeInv, StepInv, ~OutOfStep, NEW p \in Path,
         HandleRemove(p) \/ HandleRename(p) \/ (HandleError /\ Handles("error", p)),
         NEW q \in watched, file[q] # Absent
  PROVE  InStep(q)'
<1>1. q \in Path /\ InStep(q)
  BY DEF TypeInv, TaskTypes, StepInv
<1>2. CASE HandleRemove(p)
  <2>1. Handles("remove", p) /\ UNCHANGED out /\ UNCHANGED adopting /\ UNCHANGED unread
    BY <1>2 DEF HandleRemove, faults
  <2>2. /\ Taken /\ UNCHANGED file /\ todo = {} /\ adopting = {}
        /\ \A k, r : Waits(k, r, 1) => k = "remove" /\ r = p
    BY <2>1, HandlerTakes
  <2>3. CASE p = q
    <3>1. q \notin tailed'
      BY <1>2, <2>3 DEF HandleRemove
    <3> QED
      BY <3>1 DEF InStep
  <2>4. CASE p # q
    <3>1. pos'[q] = pos[q] /\ (q \in tailed <=> q \in tailed')
      BY <1>1, <1>2, <2>4 DEF HandleRemove, TypeInv, OutTypes
    <3> QED
      BY <1>1, <2>1, <2>2, <3>1, OutKept, TaskPasses
  <2> QED
    BY <2>3, <2>4
<1>3. CASE HandleRename(p) \/ (HandleError /\ Handles("error", p))
  <2>1. UNCHANGED <<adopting, tailed, pos, out, unread>>
    BY <1>3 DEF HandleRename, HandleError, faults
  <2>2. /\ Taken /\ UNCHANGED file /\ todo = {} /\ adopting = {}
        /\ ~Waits("create", q, 1) /\ ~Waits("modify", q, 1)
    BY <1>3, HandlerTakes DEF HandleRename
  <2> QED
    BY <1>1, <2>1, <2>2, OutKept, TaskPasses
<1> QED
  BY <1>2, <1>3

LEMMA StepEndLine ==
  ASSUME TypeInv, StepInv, NEW p \in Path, EndLine(p)
  PROVE  OutOfStep
<1>1. file[p] # Absent /\ Half(file[p])
  BY LineEnded DEF TypeInv
<1> QED
  BY <1>1 DEF StepInv, WholeLines

LEMMA StepNext == TypeInv /\ Places /\ StepInv /\ [Next]_vars => StepInv'
<1> SUFFICES ASSUME TypeInv, Places, StepInv, [Next]_vars, ~OutOfStep' PROVE StepInv'
  BY DEF StepInv
<1> DEFINE Holds == /\ \A q \in Path : file'[q] # Absent => WholeLines(file'[q])
                    /\ \A q \in watched' : file'[q] # Absent => InStep(q)'
<1>1. Holds => StepInv'
  BY DEF StepInv
<1>2. ASSUME UNCHANGED <<file, happened, watched>>,
             ~OutOfStep => \A q \in watched : file[q] # Absent => InStep(q)'
      PROVE  Holds
  BY <1>2 DEF StepInv, OutOfStep
<1>3. CASE UNCHANGED vars
  <2>1. UNCHANGED <<file, happened, watched>>
    BY <1>3 DEF vars, environment
  <2>2. ~OutOfStep /\ \A q \in watched : file[q] # Absent => InStep(q)
    BY <2>1 DEF OutOfStep, StepInv
  <2>3. ASSUME NEW q \in watched, file[q] # Absent PROVE InStep(q)'
    <3>1. UNCHANGED taskVars /\ UNCHANGED events /\ UNCHANGED file /\ UNCHANGED unread
      BY <1>3 DEF vars, taskVars, faults
    <3> QED
      BY <2>2, <2>3, <3>1, OthersInStep
  <2> QED
    BY <1>1, <1>2, <2>1, <2>3
<1>4. CASE Task
  <2>1. UNCHANGED <<file, happened, watched>>
    BY <1>4 DEF Task, ReadExisting, HandleModify, HandleCreate, ReadAdopted, HandleRemove,
                HandleRename, HandleError, Handles, ListingFails, environment
  <2>2. ASSUME ~OutOfStep, NEW q \in watched, file[q] # Absent PROVE InStep(q)'
    <3>1. ASSUME HandleError PROVE InStep(q)'
      <4>1. PICK p \in Path : Handles("error", p)
        BY <3>1 DEF HandleError
      <4> QED
        BY <2>2, <3>1, <4>1, StepForget
    <3> QED
      BY <1>4, <2>2, <3>1, StepReadExisting, StepListingFails, StepModify, StepCreate, StepReadAdopted, StepForget DEF Task
  <2> QED
    BY <1>1, <1>2, <2>1, <2>2
<1>5. CASE WatchError \/ StopTailer
  <2>1. UNCHANGED <<file, happened, watched>>
    BY <1>5 DEF WatchError, StopTailer, environment
  <2>2. ASSUME ~OutOfStep, NEW q \in watched, file[q] # Absent PROVE InStep(q)'
    <3>1. InStep(q)
      BY <2>2 DEF StepInv
    <3>2. CASE WatchError
      <4>1. PICK e : e = [kind |-> "error"]
        OBVIOUS
      <4>2. UNCHANGED taskVars /\ UNCHANGED unread /\ Queued(e)
        BY <3>2, <4>1, QueuedOne DEF WatchError
      <4> QED
        BY <2>1, <3>1, <4>2, OthersInStep
    <3>3. CASE StopTailer
      <4>1. UNCHANGED <<file, events, unread, todo, adopting, tailed, pos, out>>
        BY <3>3 DEF StopTailer
      <4> QED
        BY <3>1, <4>1, OutKept, TaskPasses
    <3> QED
      BY <1>5, <3>2, <3>3
  <2> QED
    BY <1>1, <1>2, <2>1, <2>2
<1>6. ASSUME NEW p \in Path, BeginLine(p) \/ EndLine(p) \/ CreateFile(p) \/ RenameFile(p)
                             \/ RemoveFile(p) \/ Truncate(p)
      PROVE  StepInv'
  <2>1. ~EndLine(p)
    <3>1. EndLine(p) => happened \subseteq happened'
      BY DEF EndLine, Complete, Notify
    <3> QED
      BY <3>1, StepEndLine DEF OutOfStep
  <2>2. ~Truncate(p)
    BY DEF Truncate, Notify, OutOfStep
  <2> QED
    BY <1>1, <1>6, <2>1, <2>2, StepBeginLine, StepChange
<1> QED
  BY <1>3, <1>4, <1>5, <1>6 DEF Next, Environment

LEMMA TailerInStep == Spec => [](TypeInv /\ Places /\ StepInv)
<1>1. TypeInv /\ Places /\ StepInv /\ [Next]_vars => (TypeInv /\ Places /\ StepInv)'
  BY TailerNext, PlacesNext, StepNext
<1> QED
  BY TailerInit, PlacesInit, StepInit, <1>1, PTL DEF Spec

LEMMA InStepIsCaughtUp == TypeInv /\ StepInv => CaughtUp
<1> SUFFICES ASSUME TypeInv, StepInv, phase = "loop", events = <<>>, ~OutOfStep,
                    NEW p \in (tailed \cap watched) \ unread, file[p] # Absent, NEW n \in LinesIn(p)
             PROVE  Emitted(n) # {}
  BY DEF CaughtUp
<1>1. p \in Path /\ WholeLines(file[p]) /\ InStep(p)
  BY DEF TypeInv, TaskTypes, StepInv
<1>2. p \notin todo \cup adopting
  BY DEF TypeInv, TaskTypes
<1>3. \A kind : ~Waiting(kind, p)
  <2>1. \A i \in 1 .. Len(events) : FALSE
    OBVIOUS
  <2> QED
    BY <2>1 DEF Waiting
<1>4. ReadTo(p)
  BY <1>1, <1>2, <1>3 DEF InStep
<1>5. PICK k \in 1 .. Len(file[p]) : file[p][k] = n
  BY DEF LinesIn
<1>6. n # NL /\ n # CR
  BY LineNumber DEF LinesIn
<1>7. PICK s \in Starts(file[p]) : file[p][s] = file[p][k] /\ s <= k
  BY <1>1, <1>5, <1>6 DEF WholeLines
<1> QED
  BY <1>3, <1>4, <1>5, <1>7 DEF ReadTo

\* As long as no event was dropped, no file shrank and none was read in the
\* middle of a line: when the queue is empty, what every followed file holds
\* has been sent, unless the last read of that file failed; whatever was created,
\* renamed and removed, whichever reads failed before, with either line end, and
\* however late the task came to the events (src/log_scanner/tailer/state.rs:48,
\* 93-97, 107-180).
THEOREM NothingLeftBehind == Spec => []CaughtUp
BY TailerInStep, InStepIsCaughtUp, PTL

-----------------------------------------------------------------------------
(* Without creations, renames and removals.                                *)

\* Cells without a carriage return grow without one.
LEMMA GrownPlain ==
  ASSUME NEW cells \in Seq(Cell), NoReturns(cells), NEW new, NEW n \in 1 .. MaxLines, NEW w \in 0 .. 2,
         NEW e \in 0 .. 1, Grown(cells, new, n, w, e)
  PROVE  NoReturns(new)
<1>1. PICK c \in Nat : c = Len(cells)
  BY LenProperties
<1>2. Len(new) = c + w + e
  BY <1>1 DEF Grown
<1>3. n # CR /\ NL # CR
  BY LineNumber, Constants DEF NL, CR
<1> SUFFICES ASSUME NEW k \in 1 .. c + w + e PROVE new[k] # CR
  BY <1>2 DEF NoReturns
<1>4. k \in 1 .. c \/ k \in c + 1 .. c + w \/ (e # 0 /\ k = c + w + e)
  OBVIOUS
<1>5. CASE k \in 1 .. c
  BY <1>1, <1>5 DEF Grown, NoReturns
<1>6. CASE k \in c + 1 .. c + w
  BY <1>1, <1>3, <1>6 DEF Grown
<1>7. CASE e # 0 /\ k = c + w + e
  BY <1>2, <1>3, <1>7 DEF Grown
<1> QED
  BY <1>4, <1>5, <1>6, <1>7

\* Without CR NL so far, a line that is begun or ended is ended by NL.
LEMMA PlainBegun ==
  ASSUME FileTypes, NEW p \in Path, BeginLine(p), "crlf" \notin happened'
  PROVE  \/ Grown(file[p], file'[p], written', Width(written'), 1) /\ Notify("modify", p, {})
         \/ Grown(file[p], file'[p], written', 1, 0) /\ Notify("modify", p, {"half"})
<1>1. CASE \E e \in 1 .. 2 : /\ Grown(file[p], file'[p], written', Width(written'), e)
                            /\ Notify("modify", p, EndMarks(e))
  <2>1. PICK e \in 1 .. 2 : /\ Grown(file[p], file'[p], written', Width(written'), e)
                           /\ Notify("modify", p, EndMarks(e))
    BY <1>1
  <2>2. e = 1 /\ EndMarks(e) = {}
    BY <2>1 DEF Notify, EndMarks
  <2> QED
    BY <2>1, <2>2
<1> QED
  BY <1>1, LineBegun

LEMMA PlainEnded ==
  ASSUME FileTypes, NEW p \in Path, EndLine(p), "crlf" \notin happened'
  PROVE  \E n \in 1 .. written : /\ n = file[p][Len(file[p])] /\ n = Last(file[p])
                                /\ Grown(file[p], file'[p], n, Width(n) - 1, 1)
                                /\ Notify("modify", p, {})
<1>1. PICK n \in 1 .. written, e \in 1 .. 2 :
        /\ n = file[p][Len(file[p])] /\ n = Last(file[p])
        /\ Grown(file[p], file'[p], n, Width(n) - 1, e)
        /\ Notify("modify", p, EndMarks(e))
  BY LineEnded
<1>2. e = 1 /\ EndMarks(e) = {}
  BY <1>1 DEF Notify, EndMarks
<1> QED
  BY <1>1, <1>2

\* Only reads and appended lines so far, or files that shrank, and no line end of
\* two bytes.
Quiet ==
  /\ \A p \in Path : file[p] # Absent => NoReturns(file[p])
  /\ \A i \in 1 .. Len(events) : events[i].kind \in {"modify", "error"}
  /\ phase # "adopt"
  /\ \A p \in todo : pos[p] = NoPos

QuietInv == happened \subseteq {"drop", "half", "truncate"} => Quiet

LEMMA QuietNext == TypeInv /\ QuietInv /\ [Next]_vars => QuietInv'
<1> SUFFICES ASSUME TypeInv, QuietInv, [Next]_vars, happened' \subseteq {"drop", "half", "truncate"}
             PROVE  Quiet'
  BY DEF QuietInv
<1>1. happened \subseteq happened' => Quiet
  BY DEF QuietInv
<1>2. ASSUME NEW p \in Path, NEW marks, Notify("modify", p, marks), UNCHANGED taskVars,
             \A q \in Path : file'[q] # Absent => NoReturns(file'[q])
      PROVE  Quiet'
  <2>1. Quiet
    BY <1>1, <1>2 DEF Notify
  <2>2. PICK e : e = [kind |-> "modify", path |-> p]
    OBVIOUS
  <2>3. UNCHANGED events \/ Queued(e)
    BY <1>2, <2>2, QueuedOne DEF Notify
  <2>4. \A i \in 1 .. Len(events') : events'[i].kind \in {"modify", "error"}
    BY <2>1, <2>2, <2>3 DEF Quiet, Queued
  <2> QED
    BY <1>2, <2>1, <2>4 DEF Quiet, taskVars
<1>3. ASSUME NEW p \in Path, BeginLine(p) \/ EndLine(p) \/ Truncate(p) PROVE Quiet'
  <2>1. UNCHANGED taskVars /\ \E marks : Notify("modify", p, marks)
    BY <1>3 DEF BeginLine, EndLine, Complete, Truncate, Change
  <2>2. FileTypes /\ Quiet /\ "crlf" \notin happened'
    BY <1>1, <2>1 DEF Notify, TypeInv
  <2>3. file[p] # Absent /\ file' = [file EXCEPT ![p] = file'[p]] /\ NoReturns(file'[p])
    <3>1. CASE BeginLine(p)
      <4>1. file[p] \in Seq(Cell) /\ NoReturns(file[p]) /\ written' \in 1 .. MaxLines
            /\ file[p] # Absent /\ file' = [file EXCEPT ![p] = file'[p]]
        BY <2>2, <3>1, LineBegun DEF FileTypes, CellsFit, Quiet
      <4>2. Width(written') \in 0 .. 2 /\ 1 \in 0 .. 2 /\ 0 \in 0 .. 1 /\ 1 \in 0 .. 1
        BY <4>1, LineNumber, TextWidth
      <4>3. \/ Grown(file[p], file'[p], written', Width(written'), 1)
            \/ Grown(file[p], file'[p], written', 1, 0)
        BY <2>2, <3>1, PlainBegun
      <4> QED
        BY <4>1, <4>2, <4>3, GrownPlain
    <3>2. CASE EndLine(p)
      <4>1. PICK n \in 1 .. written : Grown(file[p], file'[p], n, Width(n) - 1, 1)
        BY <2>2, <3>2, PlainEnded
      <4>2. file[p] \in Seq(Cell) /\ NoReturns(file[p]) /\ written \in 0 .. MaxLines
            /\ file[p] # Absent /\ file' = [file EXCEPT ![p] = file'[p]]
        BY <2>2, <3>2, LineEnded DEF FileTypes, CellsFit, Quiet
      <4>3. n \in 1 .. MaxLines /\ n \in Nat
        BY <4>2, Constants
      <4>4. Width(n) - 1 \in 0 .. 2 /\ 1 \in 0 .. 1
        BY <4>3, TextWidth
      <4> QED
        BY <4>1, <4>2, <4>3, <4>4, GrownPlain
    <3>3. CASE Truncate(p)
      <4>1. file[p] # Absent /\ file' = [file EXCEPT ![p] = <<>>] /\ file = [q \in Path |-> file[q]]
        BY <2>2, <3>3 DEF Truncate, FileTypes
      <4>2. file'[p] = <<>>
        BY <4>1
      <4> QED
        BY <4>1, <4>2 DEF NoReturns
    <3> QED
      BY <1>3, <3>1, <3>2, <3>3
  <2>4. \A q \in Path : file'[q] # Absent => NoReturns(file'[q])
    BY <2>2, <2>3 DEF Quiet, FileTypes
  <2> QED
    BY <1>2, <2>1, <2>4
<1>4. ASSUME NEW p \in Path, CreateFile(p) \/ RenameFile(p) \/ RemoveFile(p) PROVE FALSE
  BY <1>4 DEF CreateFile, RenameFile, RemoveFile, Notify
<1>5. CASE WatchError
  <2>1. UNCHANGED taskVars /\ UNCHANGED file /\ Quiet
    BY <1>1, <1>5 DEF WatchError, environment
  <2>2. PICK e : e = [kind |-> "error"]
    OBVIOUS
  <2>3. Queued(e)
    BY <1>5, <2>2, QueuedOne DEF WatchError
  <2> QED
    BY <2>1, <2>2, <2>3 DEF Quiet, Queued, taskVars
<1>6. CASE StopTailer
  <2>1. Quiet
    BY <1>1, <1>6 DEF StopTailer, environment
  <2> QED
    BY <1>6, <2>1 DEF StopTailer, Quiet
<1>7. ASSUME NEW p \in Path, ReadExisting(p) PROVE Quiet'
  <2>1. Quiet /\ UNCHANGED file /\ UNCHANGED events /\ todo' = todo \ {p} /\ phase' # "adopt" /\ todo \subseteq Path
    BY <1>1, <1>7 DEF ReadExisting, environment, TypeInv, TaskTypes
  <2>2. \A q \in todo' : pos'[q] = pos[q]
    BY <1>7, <2>1 DEF ReadExisting, Read, ReadFails, ReadFrom, TypeInv, OutTypes
  <2> QED
    BY <2>1, <2>2 DEF Quiet
<1>8. ASSUME NEW p \in Path, NEW kind, Handles(kind, p) PROVE Quiet /\ kind \in {"modify", "error"} /\ UNCHANGED file
             /\ \A i \in 1 .. Len(events') : events'[i].kind \in {"modify", "error"}
  <2>1. /\ UNCHANGED happened /\ Len(events') = Len(events) - 1 /\ Len(events) \in Nat \ {0}
        /\ \A i \in 1 .. Len(events') : events'[i] = events[i + 1]
        /\ events[1].kind = kind
    BY <1>8, HandlesTypes
  <2>2. Quiet
    BY <1>1, <2>1
  <2>3. UNCHANGED file
    BY <1>8 DEF Handles
  <2> QED
    BY <2>1, <2>2, <2>3 DEF Quiet
<1>9. ASSUME NEW p \in Path, HandleModify(p) \/ (HandleError /\ Handles("error", p)) PROVE Quiet'
  <2>1. PICK kind : Handles(kind, p)
    BY <1>9 DEF HandleModify
  <2>2. todo' = {}
    BY <2>1, HandlesTypes
  <2>3. phase' # "adopt"
    BY <1>8, <1>9, <2>1 DEF HandleModify, HandleError, Quiet
  <2> QED
    BY <1>8, <2>1, <2>2, <2>3 DEF Quiet
<1>10. ASSUME NEW p \in Path, HandleCreate(p) \/ HandleRemove(p) \/ HandleRename(p) PROVE FALSE
  BY <1>8, <1>10 DEF HandleCreate, HandleRemove, HandleRename
<1>11. ASSUME NEW p \in Path, ReadAdopted(p) PROVE FALSE
  BY <1>1, <1>11 DEF ReadAdopted, environment, Quiet
<1>12. CASE UNCHANGED vars
  <2>1. Quiet
    BY <1>1, <1>12 DEF vars, environment
  <2> QED
    BY <1>12, <2>1 DEF vars, Quiet
<1>13. ASSUME HandleError PROVE Quiet'
  <2>1. PICK p \in Path : Handles("error", p)
    BY <1>13 DEF HandleError
  <2> QED
    BY <1>9, <1>13, <2>1
<1>14. CASE ListingFails
  <2>1. Quiet
    BY <1>1, <1>14 DEF ListingFails, environment
  <2> QED
    BY <1>14, <2>1 DEF ListingFails, Quiet
<1> QED
  BY <1>3, <1>4, <1>5, <1>6, <1>7, <1>9, <1>10, <1>11, <1>12, <1>13, <1>14 DEF Next, Task, Environment

LEMMA QuietInit == Init => QuietInv
<1> SUFFICES ASSUME Init PROVE Quiet
  BY DEF QuietInv
<1>1. \A i \in 1 .. Len(events) : FALSE
  BY DEF Init
<1>2. \A p \in Path : file[p] # Absent => NoReturns(file[p])
  <2>1. NoReturns(<<>>)
    BY DEF NoReturns
  <2> QED
    BY <2>1 DEF Init
<1> QED
  BY <1>1, <1>2 DEF Init, Quiet

\* Where such a run reads, it reads on from the position, or from the beginning
\* of a file it has not read.
LEMMA QuietReads ==
  ASSUME TypeInv, QuietInv, [Next]_vars, happened' \subseteq {"drop", "half", "truncate"}
  PROVE  \/ UNCHANGED pos /\ UNCHANGED out
         \/ /\ UNCHANGED file /\ UNCHANGED written /\ UNCHANGED happened
            /\ \E p, offset, first :
                 /\ p \in Path
                 /\ file[p] # Absent /\ NoReturns(file[p])
                 /\ IF pos[p] = NoPos THEN offset = 0 ELSE offset = pos[p]
                 /\ ReadOn(p, offset, first)
<1>1. ASSUME NEW p \in Path, ReadExisting(p), ~(UNCHANGED pos /\ UNCHANGED out)
      PROVE  /\ UNCHANGED file /\ UNCHANGED written /\ UNCHANGED happened
             /\ \E offset, first :
                  /\ file[p] # Absent
                  /\ IF pos[p] = NoPos THEN offset = 0 ELSE offset = pos[p]
                  /\ ReadOn(p, offset, first)
  <2>1. UNCHANGED file /\ UNCHANGED written /\ UNCHANGED happened /\ p \in todo
    BY <1>1 DEF ReadExisting, environment
  <2>2. pos[p] = NoPos
    BY <2>1 DEF QuietInv, Quiet
  <2>3. file[p] # Absent /\ ReadFrom(p, 0)
    BY <1>1 DEF ReadExisting, Read, ReadFails
  <2>4. 0 \in Nat /\ IsPosition(0, written) /\ FileTypes /\ OutTypes
    BY Constants DEF IsPosition, TypeInv, FileTypes
  <2>5. PICK offset : offset = 0
    OBVIOUS
  <2>6. \E first : ReadOn(p, offset, first)
    BY <2>3, <2>4, <2>5, ReadDone
  <2> QED
    BY <2>1, <2>2, <2>3, <2>5, <2>6
<1>2. ASSUME NEW p \in Path, HandleModify(p), ~(UNCHANGED pos /\ UNCHANGED out)
      PROVE  /\ UNCHANGED file /\ UNCHANGED written /\ UNCHANGED happened
             /\ \E offset, first :
                  /\ file[p] # Absent
                  /\ IF pos[p] = NoPos THEN offset = 0 ELSE offset = pos[p]
                  /\ ReadOn(p, offset, first)
  <2>1. UNCHANGED file /\ UNCHANGED written /\ UNCHANGED happened
    BY <1>2 DEF HandleModify, Handles, environment
  <2>2. file[p] # Absent /\ pos[p] # NoPos /\ ReadFrom(p, pos[p])
    BY <1>2 DEF HandleModify, Read, ReadFails
  <2>3. IsPosition(pos[p], written) /\ FileTypes /\ OutTypes
    BY <2>2 DEF TypeInv, OutTypes
  <2>4. pos[p] \in Nat
    BY <2>3 DEF IsPosition
  <2>5. \E first : ReadOn(p, pos[p], first)
    BY <2>2, <2>3, <2>4, ReadDone
  <2> QED
    BY <2>1, <2>2, <2>5
<1>3. ASSUME NEW p \in Path, HandleCreate(p) \/ HandleRemove(p) PROVE FALSE
  <2>1. PICK kind \in {"create", "remove"} : Handles(kind, p)
    BY <1>3 DEF HandleCreate, HandleRemove
  <2>2. UNCHANGED happened /\ Len(events) \in Nat \ {0} /\ events[1].kind = kind
    BY <2>1, HandlesTypes
  <2>3. 1 \in 1 .. Len(events)
    BY <2>2
  <2> QED
    BY <2>2, <2>3 DEF QuietInv, Quiet
<1>4. ASSUME NEW p \in Path, ReadAdopted(p) PROVE FALSE
  BY <1>4 DEF ReadAdopted, environment, QuietInv, Quiet
<1>5. ASSUME NEW p \in Path, HandleRename(p) PROVE UNCHANGED pos /\ UNCHANGED out
  BY <1>5 DEF HandleRename
<1>6. HandleError \/ ListingFails \/ Environment \/ UNCHANGED vars => UNCHANGED pos /\ UNCHANGED out
  BY DEF HandleError, ListingFails, Environment, BeginLine, EndLine, CreateFile, RenameFile, RemoveFile, Truncate,
         Change, WatchError, StopTailer, vars, taskVars
<1>7. UNCHANGED happened => \A p \in Path : file[p] # Absent => NoReturns(file[p])
  BY DEF QuietInv, Quiet
<1> QED
  BY <1>1, <1>2, <1>3, <1>4, <1>5, <1>6, <1>7 DEF Next, Task

-----------------------------------------------------------------------------
(* Lines appended whole.                                                   *)

Ascends(cells) ==
  \A s, t \in Starts(cells) : s < t => cells[s] < cells[t]

\* The piece i of the output is the line that begins at s in the log p, which
\* has been read beyond it.
SentAt(i, p, s) ==
  /\ p \in Path /\ file[p] # Absent /\ s \in Starts(file[p]) /\ pos[p] # NoPos /\ s <= pos[p]
  /\ out[i] = Text(file[p][s])

\* Every piece is a line of a log, and pieces come in the order of their lines.
InOrder ==
  /\ \A p \in Path : file[p] # Absent => WholeLines(file[p]) /\ Ascends(file[p])
  /\ \A p \in Path : pos[p] # NoPos => file[p] # Absent /\ Boundary(file[p], pos[p])
  /\ \A i \in 1 .. Len(out) : \E p, s : SentAt(i, p, s)
  /\ \A i, j \in 1 .. Len(out) : \A p, s, t : i < j /\ SentAt(i, p, s) /\ SentAt(j, p, t) => s < t

OnceInv == happened \subseteq {"drop"} => InOrder

LEMMA SameLine ==
  ASSUME LinesApart, NEW p \in Path, NEW q \in Path, file[p] # Absent, file[q] # Absent,
         WholeLines(file[p]), WholeLines(file[q]), file[p] \in Seq(Cell), file[q] \in Seq(Cell),
         Ascends(file[p]),
         NEW s \in Starts(file[p]), NEW t \in Starts(file[q]),
         Text(file[p][s]) = Text(file[q][t])
  PROVE  p = q /\ s = t
<1>1. PICK m \in 1 .. MaxLines : m = file[p][s]
  BY DEF WholeLines, LineAt
<1>2. PICK n \in 1 .. MaxLines : n = file[q][t]
  BY DEF WholeLines, LineAt
<1>3. m \in Nat /\ n \in Nat
  BY LineNumber
<1>4. Text(m) = Text(n)
  BY <1>1, <1>2
<1>5. m = n
  BY <1>3, <1>4, SameText
<1>6. s \in 1 .. Len(file[p]) /\ t \in 1 .. Len(file[q]) /\ Len(file[p]) \in Nat /\ Len(file[q]) \in Nat
  BY LenProperties, StartsAre
<1>7. m \in LinesIn(p) /\ m \in LinesIn(q)
  BY <1>1, <1>2, <1>5, <1>6 DEF LinesIn
<1>8. p = q
  BY <1>7 DEF LinesApart
<1>9. ~(s < t) /\ ~(t < s)
  <2>1. file[p][s] = m /\ file[p][t] = m /\ t \in Starts(file[p]) /\ ~(m < m)
    BY <1>1, <1>2, <1>3, <1>5, <1>8
  <2> QED
    BY <2>1 DEF Ascends
<1> QED
  BY <1>6, <1>8, <1>9

LEMMA OnceInit == Init => OnceInv
<1> SUFFICES ASSUME Init PROVE InOrder
  BY DEF OnceInv
<1>1. \A p \in Path : file[p] # Absent => file[p] = <<>>
  BY DEF Init
<1>2. \A p \in Path : pos[p] = NoPos
  BY DEF Init
<1>3. \A i \in 1 .. Len(out) : FALSE
  BY DEF Init
<1>4. Ascends(<<>>)
  BY EmptyIsWhole DEF Ascends
<1> QED
  BY <1>1, <1>2, <1>3, <1>4, EmptyIsWhole DEF InOrder

\* Nothing was read, and the logs are what they were.
LEMMA OnceStays ==
  ASSUME InOrder, UNCHANGED file, UNCHANGED pos, UNCHANGED out
  PROVE  InOrder'
BY DEF InOrder, SentAt

LEMMA OnceAppends ==
  ASSUME TypeInv, InOrder, NEW p \in Path, file[p] # Absent, file' = [file EXCEPT ![p] = file'[p]],
         UNCHANGED pos, UNCHANGED out,
         NEW n \in 1 .. MaxLines, n = written + 1, Grown(file[p], file'[p], n, Width(n), 1)
  PROVE  InOrder'
<1>1. WholeLines(file[p]) /\ file[p] \in Seq(Cell) /\ Ascends(file[p])
  BY DEF InOrder, TypeInv, FileTypes, CellsFit
<1>2. PICK c \in Nat : c = Len(file[p])
  BY <1>1, LenProperties
<1>3. /\ WholeLines(file'[p])
      /\ Starts(file'[p]) = Starts(file[p]) \cup {c + 1} /\ file'[p][c + 1] = n
      /\ \A s \in Starts(file[p]) : file'[p][s] = file[p][s]
      /\ \A k : Boundary(file[p], k) => Boundary(file'[p], k)
  <2>1. 1 \in 1 .. 2
    OBVIOUS
  <2> QED
    BY <1>1, <1>2, <2>1, WholeGrown
<1>4. \A q \in Path : q # p => file'[q] = file[q]
  BY DEF TypeInv, FileTypes
<1>5. \A s \in Starts(file[p]) : s \in 1 .. c /\ file[p][s] \in Nat /\ file[p][s] < n
  <2>1. \A k \in 1 .. c : file[p][k] <= written \/ file[p][k] = CR
    BY <1>2 DEF TypeInv, FileTypes, CellsFit
  <2>2. \A s \in Starts(file[p]) : s \in 1 .. c /\ file[p][s] \in 1 .. MaxLines
    BY <1>1, <1>2, StartsAre DEF WholeLines, LineAt
  <2>3. written \in 0 .. MaxLines
    BY DEF TypeInv, FileTypes
  <2>4. \A k \in 1 .. MaxLines : k # CR /\ k \in Nat
    BY LineNumber
  <2>5. \A s \in Starts(file[p]) : file[p][s] <= written
    BY <2>1, <2>2, <2>4
  <2>6. MaxLines \in Nat
    BY Constants
  <2> QED
    BY <2>2, <2>3, <2>4, <2>5, <2>6
<1>6. Ascends(file'[p])
  <2> SUFFICES ASSUME NEW s \in Starts(file'[p]), NEW t \in Starts(file'[p]), s < t
               PROVE  file'[p][s] < file'[p][t]
    BY DEF Ascends
  <2>1. s \in Starts(file[p])
    BY <1>2, <1>3, <1>5
  <2>2. CASE t \in Starts(file[p])
    BY <1>1, <1>3, <2>1, <2>2 DEF Ascends
  <2>3. CASE t = c + 1
    BY <1>3, <1>5, <2>1, <2>3
  <2> QED
    BY <1>3, <2>2, <2>3
<1>7. \A q \in Path : pos[q] # NoPos => file'[q] # Absent /\ Boundary(file'[q], pos[q])
  <2>1. file'[p] # Absent
    <3>1. file'[p] \in Seq(Cell)
      BY DEF Grown
    <3> QED
      BY <3>1, CellsAreNotAbsent
  <2> QED
    BY <1>3, <1>4, <2>1 DEF InOrder
<1>8. ASSUME NEW i, NEW q, NEW s PROVE SentAt(i, q, s)' <=> SentAt(i, q, s)
  <2>1. CASE q # p
    BY <1>4, <2>1 DEF SentAt
  <2>2. CASE q = p
    <3>1. file'[p] # Absent
      <4>1. file'[p] \in Seq(Cell)
        BY DEF Grown
      <4> QED
        BY <4>1, CellsAreNotAbsent
    <3>2. pos[p] # NoPos => pos[p] \in 0 .. c
      BY <1>2 DEF InOrder, Boundary
    <3>3. pos[p] # NoPos /\ s <= pos[p] => s # c + 1
      BY <1>2, <3>2
    <3> QED
      BY <1>3, <2>2, <3>1, <3>3 DEF SentAt
  <2> QED
    BY <2>1, <2>2
<1>9. \A q \in Path : file'[q] # Absent => WholeLines(file'[q]) /\ Ascends(file'[q])
  BY <1>3, <1>4, <1>6 DEF InOrder
<1>10. \A i \in 1 .. Len(out') : \E q, s : SentAt(i, q, s)'
  BY <1>8 DEF InOrder
<1>11. \A i, j \in 1 .. Len(out') : \A q, s, t : i < j /\ SentAt(i, q, s)' /\ SentAt(j, q, t)' => s < t
  BY <1>8 DEF InOrder
<1> QED
  BY <1>7, <1>9, <1>10, <1>11 DEF InOrder

LEMMA OnceReads ==
  ASSUME TypeInv, LinesApart, InOrder, UNCHANGED file, NEW p \in Path, file[p] # Absent,
         NoReturns(file[p]),
         NEW offset, NEW first, IF pos[p] = NoPos THEN offset = 0 ELSE offset = pos[p],
         ReadOn(p, offset, first)
  PROVE  InOrder'
<1>1. \A q \in Path : file[q] # Absent => WholeLines(file[q]) /\ file[q] \in Seq(Cell) /\ Ascends(file[q])
  BY DEF InOrder, TypeInv, FileTypes, CellsFit
<1>2. PICK c \in Nat : c = Len(file[p])
  BY <1>1, LenProperties
<1>3. Boundary(file[p], offset)
  BY <1>2 DEF InOrder, Boundary
<1>4. pos'[p] = c /\ Boundary(file[p], pos'[p]) /\ \A q \in Path : q # p => pos'[q] = pos[q]
  <2>1. pos' = [pos EXCEPT ![p] = pos'[p]] /\ pos'[p] = c /\ Boundary(file[p], pos'[p])
    BY <1>1, <1>2, <1>3, LinesSent
  <2> QED
    BY <2>1 DEF TypeInv, OutTypes
<1>5. PICK pieces, at : AreLines(pieces, at, file[p], offset) /\ Sent(pieces)
  BY <1>1, <1>3, LinesSent
<1>6. PICK l \in Nat, m \in Nat : l = Len(out) /\ m = Len(pieces)
  BY <1>5 DEF Sent
<1>7. /\ Len(out') = l + m
      /\ \A i \in 1 .. l : out'[i] = out[i]
      /\ \A k \in 1 .. m : out'[l + k] = pieces[k]
  BY <1>5, <1>6 DEF Sent
<1>8. /\ \A k \in 1 .. m : at[k] \in Starts(file[p]) /\ at[k] > offset /\ pieces[k] = Text(file[p][at[k]])
      /\ \A i, j \in 1 .. m : i < j => at[i] < at[j]
  BY <1>5, <1>6 DEF AreLines
<1>9. c # NoPos
  <2>1. Len(file[p]) <= 4 * written /\ written \in 0 .. MaxLines
    BY DEF TypeInv, FileTypes, CellsFit
  <2>2. NoPos > 4 * MaxLines /\ MaxLines \in Nat /\ NoPos \in Nat
    BY Constants
  <2> QED
    BY <1>2, <2>1, <2>2
<1>10. \A s \in Starts(file[p]) : s \in 1 .. c
  BY <1>2, StartsAre
<1>11. ASSUME NEW i \in 1 .. l, NEW q, NEW s, SentAt(i, q, s) PROVE SentAt(i, q, s)'
  <2>1. CASE q = p
    BY <1>4, <1>7, <1>9, <1>10, <1>11, <2>1 DEF SentAt
  <2>2. CASE q # p
    BY <1>4, <1>7, <1>11, <2>2 DEF SentAt
  <2> QED
    BY <2>1, <2>2
<1>12. ASSUME NEW k \in 1 .. m PROVE SentAt(l + k, p, at[k])'
  BY <1>4, <1>7, <1>8, <1>9, <1>10 DEF SentAt
<1>13. ASSUME NEW i \in 1 .. l, NEW q, NEW s, SentAt(i, q, s)' PROVE SentAt(i, q, s)
  <2>1. PICK r, t : SentAt(i, r, t)
    BY <1>6 DEF InOrder
  <2>2. Text(file[r][t]) = Text(file[q][s])
    BY <1>7, <1>13, <2>1 DEF SentAt
  <2>3. /\ r \in Path /\ file[r] # Absent /\ t \in Starts(file[r])
        /\ q \in Path /\ file[q] # Absent /\ s \in Starts(file[q])
    BY <1>13, <2>1 DEF SentAt
  <2>4. q = r /\ s = t
    BY <1>1, <2>2, <2>3, SameLine
  <2> QED
    BY <2>1, <2>4, Zenon
<1>14. ASSUME NEW k \in 1 .. m, NEW q, NEW s, SentAt(l + k, q, s)' PROVE q = p /\ s = at[k]
  <2>1. Text(file[p][at[k]]) = Text(file[q][s])
    BY <1>7, <1>8, <1>14 DEF SentAt
  <2>2. at[k] \in Starts(file[p]) /\ q \in Path /\ file[q] # Absent /\ s \in Starts(file[q])
    BY <1>8, <1>14 DEF SentAt
  <2> QED
    BY <1>1, <2>1, <2>2, SameLine
<1>15. ASSUME NEW i \in 1 .. l + m PROVE i \in 1 .. l \/ \E k \in 1 .. m : i = l + k
  <2>1. PICK k : k = i - l
    OBVIOUS
  <2>2. i > l => k \in 1 .. m /\ i = l + k
    BY <2>1
  <2>3. i <= l => i \in 1 .. l
    OBVIOUS
  <2> QED
    BY <2>2, <2>3
<1>16. ASSUME NEW i \in 1 .. l + m, NEW j \in 1 .. l + m, i < j, NEW q, NEW s, NEW t,
              SentAt(i, q, s)', SentAt(j, q, t)'
       PROVE  s < t
  <2>1. CASE j \in 1 .. l
    <3>1. i \in 1 .. l
      BY <1>16, <2>1
    <3>2. SentAt(i, q, s) /\ SentAt(j, q, t)
      BY <1>13, <1>16, <2>1, <3>1
    <3> QED
      BY <1>6, <1>16, <2>1, <3>1, <3>2 DEF InOrder
  <2>2. ASSUME NEW k \in 1 .. m, j = l + k PROVE s < t
    <3>1. q = p /\ t = at[k]
      BY <1>14, <1>16, <2>2
    <3>2. CASE i \in 1 .. l
      <4>1. SentAt(i, q, s)
        BY <1>13, <1>16, <3>2
      <4>2. pos[p] # NoPos /\ s <= pos[p] /\ offset = pos[p] /\ s \in 1 .. c
        BY <1>10, <3>1, <4>1 DEF SentAt
      <4>3. at[k] > offset /\ at[k] \in 1 .. c /\ offset \in 0 .. c
        BY <1>2, <1>3, <1>8, <1>10 DEF Boundary
      <4> QED
        BY <3>1, <4>2, <4>3
    <3>3. ASSUME NEW h \in 1 .. m, i = l + h PROVE s < t
      <4>1. s = at[h] /\ h < k
        BY <1>14, <1>16, <2>2, <3>3
      <4> QED
        BY <1>8, <3>1, <4>1
    <3> QED
      BY <1>15, <3>2, <3>3
  <2> QED
    BY <1>15, <2>1, <2>2
<1>17. \A i \in 1 .. Len(out') : \E q, s : SentAt(i, q, s)'
  <2> SUFFICES ASSUME NEW i \in 1 .. l + m PROVE \E q, s : SentAt(i, q, s)'
    BY <1>7
  <2>1. CASE i \in 1 .. l
    <3>1. \E q, s : SentAt(i, q, s)
      BY <1>6, <2>1 DEF InOrder
    <3> QED
      BY <1>11, <2>1, <3>1
  <2>2. CASE \E k \in 1 .. m : i = l + k
    BY <1>12, <2>2
  <2> QED
    BY <1>15, <2>1, <2>2
<1>18. \A q \in Path : pos'[q] # NoPos => file'[q] # Absent /\ Boundary(file'[q], pos'[q])
  BY <1>4 DEF InOrder
<1>19. \A q \in Path : file'[q] # Absent => WholeLines(file'[q]) /\ Ascends(file'[q])
  BY <1>1
<1>20. \A i, j \in 1 .. Len(out') : \A q, s, t : i < j /\ SentAt(i, q, s)' /\ SentAt(j, q, t)' => s < t
  BY <1>7, <1>16
<1> QED
  BY <1>17, <1>18, <1>19, <1>20 DEF InOrder

LEMMA OnceNext == TypeInv /\ QuietInv /\ LinesApart /\ OnceInv /\ [Next]_vars => OnceInv'
<1> SUFFICES ASSUME TypeInv, QuietInv, LinesApart, OnceInv, [Next]_vars, happened' \subseteq {"drop"}
             PROVE  InOrder'
  BY DEF OnceInv
<1>1. happened \subseteq happened' => InOrder
  BY DEF OnceInv
<1>2. happened' \subseteq {"drop", "half", "truncate"}
  OBVIOUS
<1>3. CASE UNCHANGED pos /\ UNCHANGED out
  <2>1. CASE UNCHANGED file /\ UNCHANGED happened
    BY <1>1, <1>3, <2>1, OnceStays
  <2>2. ASSUME NEW p \in Path, BeginLine(p) PROVE InOrder'
    <3>1. /\ file[p] # Absent /\ file' = [file EXCEPT ![p] = file'[p]]
          /\ written' = written + 1 /\ written' \in 1 .. MaxLines
      BY <2>2, LineBegun DEF TypeInv
    <3>6. \/ /\ Grown(file[p], file'[p], written', Width(written'), 1)
             /\ Notify("modify", p, {})
          \/ Notify("modify", p, {"half"})
      BY <2>2, PlainBegun DEF TypeInv
    <3>2. ~Notify("modify", p, {"half"})
      BY DEF Notify
    <3>3. Grown(file[p], file'[p], written', Width(written'), 1) /\ InOrder
      BY <1>1, <3>2, <3>6 DEF Notify
    <3>4. PICK n \in 1 .. MaxLines : n = written'
      BY <3>1
    <3>5. n = written + 1 /\ Grown(file[p], file'[p], n, Width(n), 1)
      BY <3>1, <3>3, <3>4
    <3> QED
      BY <1>3, <3>1, <3>3, <3>5, OnceAppends
  <2>3. ASSUME NEW p \in Path, EndLine(p) PROVE FALSE
    <3>1. file[p] # Absent /\ Half(file[p])
      BY <2>3, LineEnded DEF TypeInv
    <3>2. InOrder
      BY <1>1, <2>3 DEF EndLine, Complete, Notify
    <3> QED
      BY <3>1, <3>2 DEF InOrder, WholeLines
  <2>4. ASSUME NEW p \in Path, CreateFile(p) \/ RenameFile(p) \/ RemoveFile(p) \/ Truncate(p) PROVE FALSE
    BY <2>4 DEF CreateFile, RenameFile, RemoveFile, Truncate, Notify
  <2>5. Task \/ WatchError \/ StopTailer \/ UNCHANGED vars => UNCHANGED file /\ UNCHANGED happened
    BY DEF Task, ListingFails, WatchError, StopTailer, ReadExisting, HandleModify, HandleCreate, ReadAdopted,
           HandleRemove, HandleRename, HandleError, Handles, environment, vars
  <2> QED
    BY <2>1, <2>2, <2>3, <2>4, <2>5 DEF Next, Environment
<1>4. CASE /\ UNCHANGED file /\ UNCHANGED written /\ UNCHANGED happened
           /\ \E p, offset, first :
                /\ p \in Path
                /\ file[p] # Absent /\ NoReturns(file[p])
                /\ IF pos[p] = NoPos THEN offset = 0 ELSE offset = pos[p]
                /\ ReadOn(p, offset, first)
  BY <1>1, <1>4, OnceReads
<1> QED
  BY <1>2, <1>3, <1>4, QuietReads

LEMMA TailerInOrder == Spec => [](TypeInv /\ QuietInv /\ LinesApart /\ OnceInv)
<1>1. TypeInv /\ QuietInv /\ LinesApart /\ OnceInv /\ [Next]_vars
        => (TypeInv /\ QuietInv /\ LinesApart /\ OnceInv)'
  BY TailerNext, QuietNext, ApartNext, OnceNext
<1> QED
  BY TailerInit, QuietInit, ApartInit, OnceInit, <1>1, PTL DEF Spec

\* A set in which any two elements are one.
LEMMA AtMostOne ==
  ASSUME NEW S, \A x, y \in S : x = y
  PROVE  IsFiniteSet(S) /\ Cardinality(S) \in 0 .. 1
<1>1. CASE S = {}
  BY <1>1, FS_EmptySet
<1>2. ASSUME NEW x \in S PROVE IsFiniteSet(S) /\ Cardinality(S) \in 0 .. 1
  <2>1. S = {x}
    OBVIOUS
  <2> QED
    BY <2>1, FS_Singleton
<1> QED
  BY <1>1, <1>2

LEMMA InOrderIsOnce == TypeInv /\ LinesApart /\ OnceInv => EmittedOnceInOrder
<1> SUFFICES ASSUME TypeInv, LinesApart, InOrder
             PROVE  /\ \A i \in 1 .. Len(out) : \E n \in 1 .. MaxLines : out[i] = Text(n)
                    /\ \A n \in 1 .. MaxLines : Cardinality(Emitted(n)) <= 1
                    /\ \A p \in Path : \A i, j \in 1 .. Len(out) :
                         i < j /\ {out[i][1], out[j][1]} \subseteq LinesIn(p) => out[i][1] < out[j][1]
  BY DEF OnceInv, EmittedOnceInOrder
<1>1. \A q \in Path : file[q] # Absent => WholeLines(file[q]) /\ file[q] \in Seq(Cell) /\ Ascends(file[q])
  BY DEF InOrder, TypeInv, FileTypes, CellsFit
<1>2. Len(out) \in Nat
  BY LenProperties DEF TypeInv, OutTypes
<1>3. ASSUME NEW i \in 1 .. Len(out)
      PROVE  \E n, p, s :
               n \in 1 .. MaxLines /\ SentAt(i, p, s) /\ n = file[p][s] /\ out[i] = Text(n) /\ out[i][1] = n /\ n \in LinesIn(p)
  <2>1. PICK p, s : SentAt(i, p, s)
    BY DEF InOrder
  <2>2. p \in Path /\ file[p] # Absent /\ s \in Starts(file[p]) /\ out[i] = Text(file[p][s])
    BY <2>1 DEF SentAt
  <2>3. PICK n \in 1 .. MaxLines : n = file[p][s]
    BY <1>1, <2>2 DEF WholeLines, LineAt
  <2>4. out[i] = Text(n)
    BY <2>2, <2>3
  <2>5. out[i][1] = n
    BY <2>4, TextWidth, LineNumber
  <2>6. n \in LinesIn(p)
    BY <2>2, <2>3, StartsAre DEF LinesIn
  <2> QED
    BY <2>1, <2>3, <2>4, <2>5, <2>6
<1>4. ASSUME NEW i \in 1 .. Len(out), NEW j \in 1 .. Len(out), i < j,
             NEW p \in Path, out[i][1] \in LinesIn(p), out[j][1] \in LinesIn(p)
      PROVE  out[i][1] < out[j][1]
  <2>1. PICK m, q, s : m \in 1 .. MaxLines /\ SentAt(i, q, s) /\ m = file[q][s] /\ out[i][1] = m /\ m \in LinesIn(q)
    BY <1>3
  <2>2. PICK n, r, t : n \in 1 .. MaxLines /\ SentAt(j, r, t) /\ n = file[r][t] /\ out[j][1] = n /\ n \in LinesIn(r)
    BY <1>3
  <2>3. q = p /\ r = p
    BY <1>4, <2>1, <2>2 DEF LinesApart, SentAt
  <2>4. s < t
    BY <1>4, <2>1, <2>2, <2>3 DEF InOrder
  <2>5. s \in Starts(file[p]) /\ t \in Starts(file[p]) /\ Ascends(file[p])
    BY <1>1, <2>1, <2>2, <2>3 DEF SentAt
  <2> QED
    BY <2>1, <2>2, <2>3, <2>4, <2>5 DEF Ascends
<1>5. ASSUME NEW n \in 1 .. MaxLines, NEW i \in Emitted(n), NEW j \in Emitted(n), i < j PROVE FALSE
  <2>1. i \in 1 .. Len(out) /\ j \in 1 .. Len(out) /\ out[i] = Text(n) /\ out[j] = Text(n)
    BY DEF Emitted
  <2>2. out[i][1] = n /\ out[j][1] = n /\ n \in Nat
    BY <2>1, TextWidth, LineNumber
  <2>3. PICK m, p, s : m \in 1 .. MaxLines /\ SentAt(i, p, s) /\ m = file[p][s] /\ out[i][1] = m /\ m \in LinesIn(p)
    BY <1>3, <2>1
  <2>4. out[i][1] \in LinesIn(p) /\ out[j][1] \in LinesIn(p) /\ p \in Path
    BY <2>2, <2>3 DEF SentAt
  <2>5. out[i][1] < out[j][1]
    BY <1>4, <1>5, <2>1, <2>4
  <2> QED
    BY <2>2, <2>5
<1>6. ASSUME NEW n \in 1 .. MaxLines PROVE Cardinality(Emitted(n)) <= 1
  <2>1. \A i, j \in Emitted(n) : i = j
    <3>1. \A i \in Emitted(n) : i \in Nat
      BY <1>2 DEF Emitted
    <3> QED
      BY <1>5, <3>1
  <2> QED
    BY <2>1, AtMostOne
<1> QED
  BY <1>3, <1>4, <1>6

\* Lines that are appended whole and end with a bare newline are sent whole, each
\* once, and in the order they were written to their file, whatever events the
\* full queue drops, whatever reads and listings fail and however the initial
\* read and the events interleave (src/log_scanner/tailer/state.rs:42-58,
\* 123-167).  Of a line that ends with CR NL it would be false: str::lines()
\* strips two bytes and the offset counts one (state.rs:52, 139).
THEOREM LinesSentOnceInOrder == Spec => []EmittedOnceInOrder
BY TailerInOrder, InOrderIsOnce, PTL

-----------------------------------------------------------------------------
(* Bytes.                                                                  *)

\* The cells of the line n that are still to be read, as pairs of a log and a
\* place, and how many bytes of it are still to be written.
Unread(n) ==
  {b \in Path \X (1 .. 4 * MaxLines) :
     /\ file[b[1]] # Absent /\ b[2] <= Len(file[b[1]]) /\ file[b[1]][b[2]] = n
     /\ pos[b[1]] # NoPos => b[2] > pos[b[1]]}

EndsIn(p, n) == file[p] # Absent /\ Half(file[p]) /\ file[p][Len(file[p])] = n

Unwritten(n) ==
  IF n > written THEN Width(n)
  ELSE IF \E p \in Path : EndsIn(p, n) THEN Width(n) - 1 ELSE 0

Accounted(n) ==
  /\ IsFiniteSet(Unread(n))
  /\ Cardinality(SentBytes(n)) + Cardinality(Unread(n)) + Unwritten(n) <= Width(n)

BytesInv ==
  happened \subseteq {"drop", "half", "truncate"} => \A n \in 1 .. MaxLines : Accounted(n)

LEMMA CountedBy ==
  ASSUME NEW S, NEW T, IsFiniteSet(T), NEW f \in [S -> T],
         \A x, y \in S : f[x] = f[y] => x = y
  PROVE  /\ IsFiniteSet(S) /\ Cardinality(S) <= Cardinality(T)
         /\ Cardinality(S) \in Nat /\ Cardinality(T) \in Nat
<1>1. f \in Injection(S, T)
  BY DEF Injection, IsInjective
<1>2. IsFiniteSet(S) /\ Cardinality(S) <= Cardinality(T)
  BY <1>1, FS_Injection
<1> QED
  BY <1>2, FS_CardinalityType

LEMMA SentBytesAre ==
  ASSUME TypeInv, NEW n
  PROVE  IsFiniteSet(SentBytes(n)) /\ Cardinality(SentBytes(n)) \in Nat
<1>1. Len(out) \in Nat
  BY LenProperties DEF TypeInv, OutTypes
<1>2. IsFiniteSet((1 .. Len(out)) \X (1 .. 2))
  <2>1. 1 \in Int /\ 2 \in Int /\ Len(out) \in Int
    BY <1>1
  <2>2. IsFiniteSet(1 .. Len(out)) /\ IsFiniteSet(1 .. 2)
    BY <2>1, FS_Interval, Zenon
  <2> QED
    BY <2>2, FS_Product, Zenon
<1>3. SentBytes(n) \in SUBSET ((1 .. Len(out)) \X (1 .. 2))
  BY DEF SentBytes
<1> QED
  BY <1>2, <1>3, FS_Subset, FS_CardinalityType

LEMMA UnwrittenIs ==
  ASSUME TypeInv, NEW n \in 1 .. MaxLines
  PROVE  Unwritten(n) \in 0 .. 2 /\ written \in Nat
<1>1. Width(n) \in 1 .. 2 /\ written \in Nat
  BY LineNumber, Constants DEF TypeInv, FileTypes
<1> QED
  BY <1>1 DEF Unwritten

\* Nothing was sent and nothing written that was not to be read before.
LEMMA AccountedStays ==
  ASSUME TypeInv, NEW n \in 1 .. MaxLines, Accounted(n), UNCHANGED out,
         Unread(n)' \subseteq Unread(n), Unwritten(n)' <= Unwritten(n), Unwritten(n)' \in 0 .. 2
  PROVE  Accounted(n)'
<1>1. PICK U : U = Unread(n)
  OBVIOUS
<1>2. PICK V : V = Unread(n)'
  OBVIOUS
<1>3. IsFiniteSet(U) /\ V \in SUBSET U
  BY <1>1, <1>2 DEF Accounted
<1>4. IsFiniteSet(V) /\ Cardinality(V) <= Cardinality(U) /\ Cardinality(V) \in Nat /\ Cardinality(U) \in Nat
  BY <1>3, FS_Subset, FS_CardinalityType
<1>5. SentBytes(n)' = SentBytes(n)
  BY DEF SentBytes
<1>6. Cardinality(SentBytes(n)) \in Nat /\ Unwritten(n) \in 0 .. 2 /\ Width(n) \in 1 .. 2
  BY SentBytesAre, UnwrittenIs, LineNumber
<1>7. Cardinality(SentBytes(n)) + Cardinality(U) + Unwritten(n) <= Width(n)
  BY <1>1 DEF Accounted
<1>8. Cardinality(SentBytes(n)) + Cardinality(V) + Unwritten(n)' <= Width(n)
  BY <1>4, <1>6, <1>7
<1> QED
  BY <1>2, <1>4, <1>5, <1>8 DEF Accounted

LEMMA BytesInit == Init => BytesInv
<1> SUFFICES ASSUME Init, NEW n \in 1 .. MaxLines PROVE Accounted(n)
  BY DEF BytesInv
<1>1. SentBytes(n) = {}
  <2>1. \A i \in 1 .. Len(out) : FALSE
    BY DEF Init
  <2> QED
    BY <2>1 DEF SentBytes
<1>2. Unread(n) = {}
  <2>1. \A p \in Path : file[p] # Absent => file[p] = <<>>
    BY DEF Init
  <2>2. \A b \in Path \X (1 .. 4 * MaxLines) : b[2] \in 1 .. 4 * MaxLines /\ ~(b[2] <= Len(<<>>))
    BY Constants
  <2> QED
    BY <2>1, <2>2 DEF Unread
<1>3. Unwritten(n) = Width(n)
  BY LineNumber DEF Init, Unwritten
<1>4. Width(n) \in 1 .. 2
  BY LineNumber
<1> QED
  BY <1>1, <1>2, <1>3, <1>4, FS_EmptySet DEF Accounted

\* Two pieces have no cell in common.
LEMMA PiecesApart ==
  ASSUME NEW cells \in Seq(Cell), NEW pieces \in Seq(Seq(1 .. MaxLines)), NEW first,
         AreCut(pieces, first, cells),
         NEW i \in 1 .. Len(pieces), NEW j \in 1 .. Len(pieces),
         NEW k \in 1 .. Len(pieces[i]), NEW l \in 1 .. Len(pieces[j]),
         first[i] + k = first[j] + l
  PROVE  i = j /\ k = l
<1>1. Len(pieces) \in Nat /\ Len(cells) \in Nat
  BY LenProperties
<1>2. ASSUME NEW a \in 1 .. Len(pieces)
      PROVE  first[a] \in Nat \ {0} /\ first[a] <= Len(cells) /\ Len(pieces[a]) \in Nat
             /\ first[a] \in Starts(cells)
  <2>1. pieces[a] \in Seq(1 .. MaxLines)
    BY <1>2, ElementOfSeq
  <2>2. first[a] \in Starts(cells)
    BY <1>2 DEF AreCut
  <2>3. first[a] \in 1 .. Len(cells)
    BY <2>2, StartsAre
  <2> QED
    BY <1>1, <2>1, <2>2, <2>3, LenProperties
<1>3. ASSUME NEW a \in 1 .. Len(pieces), NEW b \in 1 .. Len(pieces), a < b,
             NEW x \in 1 .. Len(pieces[a]), NEW y \in 1 .. Len(pieces[b]), first[a] + x = first[b] + y
      PROVE  FALSE
  <2>1. first[a] < first[b]
    BY <1>3 DEF AreCut
  <2>2. PICK f \in Nat \ {0}, g \in Nat \ {0}, e \in Nat : f = first[a] /\ g = first[b] /\ e = Len(pieces[a])
    BY <1>2
  <2>3. f < g /\ x \in 1 .. e /\ f + x = g + y /\ y \in Nat \ {0}
    <3>1. Len(pieces[b]) \in Nat
      BY <1>2
    <3> QED
      BY <1>3, <2>1, <2>2, <3>1
  <2>4. cells[g - 1] = NL
    <3>1. g \in Starts(cells)
      BY <1>2, <2>2, Zenon
    <3>2. g # 1
      BY <2>3
    <3> QED
      BY <3>1, <3>2, StartsAre, Zenon
  <2>5. PICK z : EndsAt(cells, f, z) /\ f + e = PieceEnd(cells, z)
    <3>1. IsPiece(pieces[a], cells, first[a])
      BY <1>3 DEF AreCut
    <3> QED
      BY <2>2, <3>1 DEF IsPiece
  <2>6. z \in Nat /\ f + e <= z
    <3>1. z \in f .. Len(cells) + 1
      BY <2>5 DEF EndsAt
    <3>2. z \in Nat
      BY <1>1, <3>1
    <3>3. f + e = z \/ f + e = z - 1
      BY <2>5 DEF PieceEnd
    <3> QED
      BY <3>2, <3>3
  <2>7. g - 1 \in f .. z - 1
    BY <2>3, <2>6
  <2>8. \A h \in f .. z - 1 : cells[h] # NL
    BY <2>5 DEF EndsAt
  <2> QED
    BY <2>4, <2>7, <2>8, Zenon
<1>4. i = j
  BY <1>1, <1>3
<1> QED
  BY <1>2, <1>4

\* The byte b of the output was sent by a read from the offset, and stood in the
\* log behind it.
ByteFrom(b, n, p, offset, first) ==
  \E i \in 1 .. Len(Pieces(From(file[p], offset))) :
    \E k \in 1 .. Len(Pieces(From(file[p], offset))[i]) :
      /\ b = <<Len(out) + i, k>>
      /\ offset + (first[i] + k - 1) \in offset + 1 .. Len(file[p])
      /\ file[p][offset + (first[i] + k - 1)] = n

LEMMA ByteSent ==
  ASSUME TypeInv, NEW n \in 1 .. MaxLines, NEW p \in Path, file[p] # Absent,
         NEW offset \in Nat, NEW first, ReadOn(p, offset, first),
         NEW b, b \in SentBytes(n)', b \notin SentBytes(n)
  PROVE  ByteFrom(b, n, p, offset, first)
<1>1. PICK l \in Nat : l = Len(out)
  BY LenProperties DEF TypeInv, OutTypes
<1>2. PICK cells \in Seq(Cell) : cells = file[p]
  BY DEF TypeInv, FileTypes, CellsFit
<1>3. PICK rest \in Seq(Cell) : rest = From(cells, offset)
  BY <1>2 DEF ReadOn
<1> PICK pieces : pieces = Pieces(From(file[p], offset))
  OBVIOUS
<1>4. PICK c \in Nat, r \in Nat : c = Len(cells) /\ r = Len(rest)
  <2>1. Len(cells) \in Nat /\ Len(rest) \in Nat
    BY LenProperties
  <2> QED
    BY <2>1
<1>5. \A j \in 1 .. r : rest[j] = cells[offset + j] /\ offset + j \in offset + 1 .. c
  <2>1. /\ offset <= Len(cells) => Len(From(cells, offset)) = Len(cells) - offset
        /\ offset > Len(cells) => Len(From(cells, offset)) = 0
        /\ \A i \in 1 .. Len(From(cells, offset)) : From(cells, offset)[i] = cells[offset + i]
    BY FromOffset, Zenon
  <2>2. /\ offset <= c => r = c - offset
        /\ offset > c => r = 0
        /\ \A i \in 1 .. r : rest[i] = cells[offset + i]
    BY <1>3, <1>4, <2>1, Zenon
  <2> QED
    BY <2>2
<1>6. pieces \in Seq(Seq(1 .. MaxLines)) /\ AreCut(pieces, first, rest) /\ out' = out \o pieces
  BY <1>2, <1>3 DEF ReadOn
<1>7. PICK m \in Nat : m = Len(pieces)
  BY <1>6, LenProperties
<1>8. /\ Len(out') = l + m
      /\ \A i \in 1 .. l : out'[i] = out[i]
      /\ \A i \in 1 .. m : out'[l + i] = pieces[i]
  <2>1. PICK T : T = Seq(1 .. MaxLines) /\ out \in Seq(T) /\ pieces \in Seq(T)
    BY <1>6 DEF TypeInv, OutTypes
  <2>2. out \in Seq(T) /\ pieces \in Seq(T) /\ out' = out \o pieces
    BY <1>6, <2>1
  <2>3. /\ Len(out \o pieces) = Len(out) + Len(pieces)
        /\ \A i \in 1 .. Len(out) + Len(pieces) :
             (out \o pieces)[i] = IF i <= Len(out) THEN out[i] ELSE pieces[i - Len(out)]
    BY <2>2, ConcatProperties, Zenon
  <2>4. /\ Len(out') = l + m
        /\ \A i \in 1 .. l + m : out'[i] = IF i <= l THEN out[i] ELSE pieces[i - l]
    BY <1>1, <1>7, <2>2, <2>3, Zenon
  <2>5. ASSUME NEW i \in 1 .. l PROVE out'[i] = out[i]
    <3>1. i \in 1 .. l + m /\ i <= l
      OBVIOUS
    <3> QED
      BY <2>4, <3>1
  <2>6. ASSUME NEW i \in 1 .. m PROVE out'[l + i] = pieces[i]
    <3>1. l + i \in 1 .. l + m /\ ~(l + i <= l) /\ (l + i) - l = i
      OBVIOUS
    <3> QED
      BY <2>4, <3>1
  <2> QED
    BY <2>4, <2>5, <2>6
<1>9. PICK a \in 1 .. l + m, k \in 1 .. 2 : b = <<a, k>> /\ k <= Len(out'[a]) /\ out'[a][k] = n
  BY <1>8 DEF SentBytes
<1>10. ~(a \in 1 .. l)
  <2> SUFFICES ASSUME a \in 1 .. l PROVE b \in SentBytes(n)
    OBVIOUS
  <2>1. out'[a] = out[a]
    BY <1>8
  <2> QED
    BY <1>1, <1>9, <2>1 DEF SentBytes
<1>11. PICK i \in 1 .. m : a = l + i
  <2>1. PICK i : i = a - l
    OBVIOUS
  <2>2. i \in 1 .. m /\ a = l + i
    BY <1>9, <1>10, <2>1
  <2> QED
    BY <2>2
<1>12. PICK e \in Nat : e = Len(pieces[i])
  <2>1. pieces[i] \in Seq(1 .. MaxLines)
    BY <1>6, <1>7, ElementOfSeq
  <2> QED
    BY <2>1, LenProperties
<1>13. k \in 1 .. e /\ pieces[i][k] = n
  <2>1. out'[a] = pieces[i]
    BY <1>8, <1>11
  <2> QED
    BY <1>9, <1>12, <2>1
<1>14. PICK f \in Nat \ {0} : f = first[i]
  <2>1. first[i] \in Starts(rest)
    BY <1>6, <1>7 DEF AreCut
  <2> QED
    BY <1>4, <2>1, StartsAre
<1>15. f + e <= r + 1 /\ rest[f + k - 1] = n
  <2>1. IsPiece(pieces[i], rest, f)
    BY <1>6, <1>7, <1>14 DEF AreCut
  <2>2. PICK z : EndsAt(rest, f, z) /\ f + e = PieceEnd(rest, z)
                 /\ \A h \in 1 .. e : pieces[i][h] = rest[f + h - 1]
    BY <1>12, <2>1 DEF IsPiece
  <2>3. z \in f .. r + 1
    BY <1>4, <2>2 DEF EndsAt
  <2>4. f + e = z \/ f + e = z - 1
    BY <2>2 DEF PieceEnd
  <2> QED
    BY <1>13, <2>2, <2>3, <2>4
<1>16. PICK j : j = f + k - 1
  OBVIOUS
<1>17. j \in 1 .. r
  BY <1>13, <1>15, <1>16
<1>18. offset + j \in offset + 1 .. c /\ cells[offset + j] = n
  BY <1>5, <1>15, <1>16, <1>17
<1>19. i \in 1 .. Len(pieces) /\ k \in 1 .. Len(pieces[i]) /\ b = <<l + i, k>>
  BY <1>7, <1>9, <1>11, <1>12, <1>13
<1>20. offset + (first[i] + k - 1) \in offset + 1 .. Len(file[p]) /\ file[p][offset + (first[i] + k - 1)] = n
  BY <1>2, <1>4, <1>14, <1>16, <1>18, Zenon
<1> QED
  BY <1>1, <1>19, <1>20, Zenon DEF ByteFrom

LEMMA BytesRead ==
  ASSUME TypeInv, NEW n \in 1 .. MaxLines, Accounted(n), UNCHANGED file, UNCHANGED written,
         NEW p \in Path, file[p] # Absent, NoReturns(file[p]), NEW offset, NEW first,
         IF pos[p] = NoPos THEN offset = 0 ELSE offset = pos[p],
         ReadOn(p, offset, first)
  PROVE  Accounted(n)'
<1>1. offset \in Nat
  BY DEF TypeInv, OutTypes, IsPosition
<1>2. PICK c \in Nat : c = Len(file[p])
  BY LenProperties DEF TypeInv, FileTypes, CellsFit
<1>3. PICK l \in Nat : l = Len(out)
  BY LenProperties DEF TypeInv, OutTypes
<1>4. PICK pieces \in Seq(Seq(1 .. MaxLines)) : pieces = Pieces(From(file[p], offset))
  BY DEF ReadOn
<1>5. PICK U : U = Unread(n)
  OBVIOUS
<1>6. PICK V : V = Unread(n)'
  OBVIOUS
<1>7. PICK S : S = SentBytes(n)
  OBVIOUS
<1>8. PICK Z : Z = SentBytes(n)'
  OBVIOUS
<1>9. PICK R : R = {b \in U : b[1] = p}
  OBVIOUS
<1>10. V \subseteq U \ R
  <2> SUFFICES ASSUME NEW b \in V PROVE b \in U /\ b[1] # p
    BY <1>9
  <2>1. /\ b \in Path \X (1 .. 4 * MaxLines) /\ file[b[1]] # Absent /\ b[2] <= Len(file[b[1]])
        /\ file[b[1]][b[2]] = n /\ (pos'[b[1]] # NoPos => b[2] > pos'[b[1]])
    BY <1>6 DEF Unread
  <2>2. pos'[p] # NoPos /\ pos'[p] >= c /\ pos'[p] \in Nat
    <3>1. pos'[p] \in Nat /\ IsPosition(pos'[p], written) /\ pos'[p] >= c /\ written \in 0 .. MaxLines
      BY <1>2 DEF ReadOn, TypeInv, FileTypes
    <3>2. NoPos > 4 * MaxLines /\ MaxLines \in Nat /\ NoPos \in Nat
      BY Constants
    <3>4. pos'[p] <= 4 * written + 1 /\ (written = 0 => pos'[p] = 0)
      BY <3>1 DEF IsPosition
    <3>5. NoPos = 8 * MaxLines + 1
      BY DEF NoPos
    <3>3. pos'[p] # NoPos
      BY <3>1, <3>2, <3>4, <3>5
    <3> QED
      BY <3>1, <3>3
  <2>3. b[2] \in Nat
    BY <2>1, Constants
  <2>4. b[1] # p
    BY <1>2, <2>1, <2>2, <2>3
  <2>5. pos'[b[1]] = pos[b[1]]
    BY <2>1, <2>4 DEF ReadOn, TypeInv, OutTypes
  <2> QED
    BY <1>5, <2>1, <2>4, <2>5 DEF Unread
<1>11. PICK N : N = Z \ S
  OBVIOUS
<1>12. ASSUME NEW b \in N
       PROVE  \E i \in 1 .. Len(pieces) : \E k \in 1 .. Len(pieces[i]) :
                /\ b = <<l + i, k>>
                /\ <<p, offset + (first[i] + k - 1)>> \in R
  <2>1. b \in SentBytes(n)' /\ b \notin SentBytes(n)
    BY <1>7, <1>8, <1>11
  <2>2. PICK i \in 1 .. Len(pieces) : \E k \in 1 .. Len(pieces[i]) :
           /\ b = <<l + i, k>>
           /\ offset + (first[i] + k - 1) \in offset + 1 .. Len(file[p])
           /\ file[p][offset + (first[i] + k - 1)] = n
    <3>1. ByteFrom(b, n, p, offset, first)
      BY <1>1, <2>1, ByteSent
    <3> QED
      BY <1>3, <1>4, <3>1, Zenon DEF ByteFrom
  <2>3. PICK k \in 1 .. Len(pieces[i]) :
           /\ b = <<l + i, k>>
           /\ offset + (first[i] + k - 1) \in offset + 1 .. Len(file[p])
           /\ file[p][offset + (first[i] + k - 1)] = n
    BY <2>2
  <2>4. PICK x : x = offset + (first[i] + k - 1)
    OBVIOUS
  <2>5. x \in offset + 1 .. c /\ file[p][x] = n
    BY <1>2, <2>4, <2>3
  <2>6. x \in 1 .. 4 * MaxLines /\ x <= c /\ (pos[p] # NoPos => x > pos[p])
    <3>1. c <= 4 * written /\ written \in 0 .. MaxLines
      BY <1>2 DEF TypeInv, FileTypes, CellsFit
    <3>2. pos[p] # NoPos => offset = pos[p]
      OBVIOUS
    <3>3. x \in 1 .. 4 * MaxLines /\ x <= c /\ x > offset
      BY <1>1, <2>5, <3>1, Constants
    <3> QED
      BY <3>2, <3>3
  <2>7. <<p, x>> \in U
    BY <1>2, <1>5, <2>5, <2>6 DEF Unread
  <2>8. <<p, x>> \in R
    BY <1>9, <2>7
  <2> QED
    BY <2>4, <2>8, <2>3
<1>13. PICK f : f = [b \in N |-> <<p, offset + (first[b[1] - l] + b[2] - 1)>>]
  OBVIOUS
<1>14. ASSUME NEW b \in N, NEW i \in 1 .. Len(pieces), NEW k, b = <<l + i, k>>
       PROVE  f[b] = <<p, offset + (first[i] + k - 1)>>
  <2>1. b[1] - l = i /\ b[2] = k
    BY <1>14, LenProperties
  <2> QED
    BY <1>13, <2>1
<1>15. f \in [N -> R]
  <2>1. ASSUME NEW b \in N PROVE f[b] \in R
    <3>1. PICK i \in 1 .. Len(pieces) : \E k \in 1 .. Len(pieces[i]) :
            b = <<l + i, k>> /\ <<p, offset + (first[i] + k - 1)>> \in R
      BY <1>12
    <3>2. PICK k \in 1 .. Len(pieces[i]) :
            b = <<l + i, k>> /\ <<p, offset + (first[i] + k - 1)>> \in R
      BY <3>1
    <3>3. f[b] = <<p, offset + (first[i] + k - 1)>>
      BY <1>14, <3>2, Zenon
    <3> QED
      BY <3>2, <3>3, Zenon
  <2> QED
    BY <1>13, <2>1
<1>16. ASSUME NEW b \in N, NEW d \in N, f[b] = f[d] PROVE b = d
  <2>1. PICK i \in 1 .. Len(pieces) : \E k \in 1 .. Len(pieces[i]) : b = <<l + i, k>>
    BY <1>12
  <2>2. PICK k \in 1 .. Len(pieces[i]) : b = <<l + i, k>>
    BY <2>1
  <2>3. PICK j \in 1 .. Len(pieces) : \E h \in 1 .. Len(pieces[j]) : d = <<l + j, h>>
    BY <1>12
  <2>4. PICK h \in 1 .. Len(pieces[j]) : d = <<l + j, h>>
    BY <2>3
  <2>5. offset + (first[i] + k - 1) = offset + (first[j] + h - 1)
    BY <1>14, <1>16, <2>2, <2>4
  <2>6. PICK rest \in Seq(Cell) : rest = From(file[p], offset) /\ AreCut(pieces, first, rest)
    BY <1>4 DEF ReadOn
  <2>7. first[i] \in Nat /\ first[j] \in Nat /\ k \in Nat \ {0} /\ h \in Nat \ {0}
    <3>1. Len(rest) \in Nat /\ pieces[i] \in Seq(1 .. MaxLines) /\ pieces[j] \in Seq(1 .. MaxLines)
      BY LenProperties, ElementOfSeq
    <3>2. Len(pieces[i]) \in Nat /\ Len(pieces[j]) \in Nat
      BY <3>1, LenProperties
    <3>3. first[i] \in Starts(rest) /\ first[j] \in Starts(rest)
      BY <2>6 DEF AreCut
    <3>4. first[i] \in 1 .. Len(rest) /\ first[j] \in 1 .. Len(rest)
      BY <3>3, StartsAre, Zenon
    <3>5. PICK x \in Nat, y \in Nat : x = Len(pieces[i]) /\ y = Len(pieces[j])
      BY <3>2
    <3>6. k \in 1 .. x /\ h \in 1 .. y
      BY <3>5
    <3>7. k \in Nat \ {0} /\ h \in Nat \ {0}
      BY <3>6
    <3>8. 1 .. Len(rest) \subseteq Nat
      BY <3>1
    <3> QED
      BY <3>4, <3>7, <3>8, Zenon
  <2>8. first[i] + k = first[j] + h
    <3>1. PICK x \in Nat, y \in Nat : x = first[i] /\ y = first[j]
      BY <2>7
    <3>2. offset + (x + k - 1) = offset + (y + h - 1)
      BY <2>5, <3>1, Zenon
    <3>3. x + k = y + h
      BY <1>1, <2>7, <3>2
    <3> QED
      BY <3>1, <3>3, Zenon
  <2>9. i = j /\ k = h
    BY <2>6, <2>8, PiecesApart
  <2> QED
    BY <2>2, <2>4, <2>9
<1>17. IsFiniteSet(U) /\ IsFiniteSet(R)
  <2>1. R \in SUBSET U
    BY <1>9
  <2> QED
    BY <1>5, <2>1, FS_Subset DEF Accounted
<1>18. IsFiniteSet(N) /\ Cardinality(N) <= Cardinality(R) /\ Cardinality(N) \in Nat /\ Cardinality(R) \in Nat
  BY <1>15, <1>16, <1>17, CountedBy
<1>19. IsFiniteSet(V) /\ Cardinality(V) + Cardinality(R) <= Cardinality(U) /\ Cardinality(V) \in Nat
       /\ Cardinality(U) \in Nat
  <2>1. IsFiniteSet(U \ R) /\ Cardinality(U \ R) = Cardinality(U) - Cardinality(U \cap R)
    BY <1>17, FS_Difference
  <2>2. U \cap R = R
    BY <1>9
  <2>3. V \in SUBSET (U \ R)
    BY <1>10
  <2>4. IsFiniteSet(V) /\ Cardinality(V) <= Cardinality(U \ R)
    BY <2>1, <2>3, FS_Subset
  <2>5. Cardinality(V) \in Nat /\ Cardinality(U) \in Nat
    BY <1>17, <2>4, FS_CardinalityType
  <2>6. Cardinality(V) <= Cardinality(U) - Cardinality(R)
    BY <2>1, <2>2, <2>4, Zenon
  <2> QED
    BY <1>18, <2>4, <2>5, <2>6
<1>20. Cardinality(Z) <= Cardinality(S) + Cardinality(N) /\ Cardinality(S) \in Nat /\ Cardinality(Z) \in Nat
  <2>1. IsFiniteSet(S) /\ Cardinality(S) \in Nat
    BY <1>7, SentBytesAre
  <2>2. /\ IsFiniteSet(S \cup N)
        /\ Cardinality(S \cup N) = Cardinality(S) + Cardinality(N) - Cardinality(S \cap N)
    BY <1>18, <2>1, FS_Union
  <2>3. S \cap N = {}
    BY <1>11
  <2>4. Z \in SUBSET (S \cup N)
    BY <1>11
  <2>5. IsFiniteSet(Z) /\ Cardinality(Z) <= Cardinality(S \cup N)
    BY <2>2, <2>4, FS_Subset
  <2>6. Cardinality(S \cap N) = 0
    BY <2>3, FS_EmptySet, Zenon
  <2>7. Cardinality(Z) \in Nat
    BY <2>5, FS_CardinalityType
  <2>8. Cardinality(Z) <= Cardinality(S) + Cardinality(N) - 0
    BY <2>2, <2>5, <2>6, Zenon
  <2> QED
    BY <1>18, <2>1, <2>7, <2>8
<1>21. Unwritten(n)' = Unwritten(n) /\ Unwritten(n) \in 0 .. 2 /\ Width(n) \in 1 .. 2
  BY UnwrittenIs, LineNumber DEF Unwritten, EndsIn
<1>22. Cardinality(S) + Cardinality(U) + Unwritten(n) <= Width(n)
  BY <1>5, <1>7 DEF Accounted
<1>23. Cardinality(Z) + Cardinality(V) + Unwritten(n)' <= Width(n)
  <2>1. PICK z \in Nat, v \in Nat, s \in Nat, u \in Nat, t \in Nat, g \in Nat :
          /\ z = Cardinality(Z) /\ v = Cardinality(V) /\ s = Cardinality(S) /\ u = Cardinality(U)
          /\ t = Cardinality(R) /\ g = Cardinality(N)
    BY <1>18, <1>19, <1>20
  <2>2. PICK w \in Nat, x \in Nat : w = Width(n) /\ x = Unwritten(n)
    BY <1>21
  <2>3. g <= t /\ v + t <= u /\ z <= s + g /\ s + u + x <= w
    BY <1>18, <1>19, <1>20, <1>22, <2>1, <2>2, Zenon
  <2>4. z + v + x <= w
    BY <2>3
  <2> QED
    BY <1>21, <2>1, <2>2, <2>4, Zenon
<1> QED
  BY <1>6, <1>8, <1>19, <1>23 DEF Accounted

\* As many cells came as there are bytes less to write.
LEMMA AccountedGrows ==
  ASSUME TypeInv, NEW n \in 1 .. MaxLines, Accounted(n), UNCHANGED out, NEW w \in Nat,
         IsFiniteSet(Unread(n)'), Cardinality(Unread(n)') <= Cardinality(Unread(n)) + w,
         Unwritten(n)' \in 0 .. 2, Unwritten(n)' + w <= Unwritten(n)
  PROVE  Accounted(n)'
<1>1. PICK U : U = Unread(n)
  OBVIOUS
<1>2. PICK V : V = Unread(n)'
  OBVIOUS
<1>3. Cardinality(U) \in Nat /\ Cardinality(V) \in Nat
  BY <1>1, <1>2, FS_CardinalityType DEF Accounted
<1>4. SentBytes(n)' = SentBytes(n)
  BY DEF SentBytes
<1>5. Cardinality(SentBytes(n)) \in Nat /\ Unwritten(n) \in 0 .. 2 /\ Width(n) \in 1 .. 2
  BY SentBytesAre, UnwrittenIs, LineNumber
<1>6. /\ Cardinality(SentBytes(n)) + Cardinality(U) + Unwritten(n) <= Width(n)
      /\ Cardinality(V) <= Cardinality(U) + w
  BY <1>1, <1>2 DEF Accounted
<1>7. Cardinality(SentBytes(n)) + Cardinality(V) + Unwritten(n)' <= Width(n)
  BY <1>3, <1>5, <1>6
<1> QED
  BY <1>2, <1>4, <1>7 DEF Accounted

LEMMA UnreadGrows ==
  ASSUME TypeInv, NEW p \in Path, file[p] # Absent, file' = [file EXCEPT ![p] = file'[p]],
         UNCHANGED pos, NEW n \in 1 .. MaxLines, NEW w \in Nat, NEW e \in 0 .. 1,
         Grown(file[p], file'[p], n, w, e), NEW m \in 1 .. MaxLines
  PROVE  /\ m # n => Unread(m)' \subseteq Unread(m)
         /\ m = n /\ IsFiniteSet(Unread(m)) =>
              IsFiniteSet(Unread(m)') /\ Cardinality(Unread(m)') <= Cardinality(Unread(m)) + w
<1>1. PICK cells \in Seq(Cell) : cells = file[p]
  BY DEF TypeInv, FileTypes, CellsFit
<1>2. PICK new \in Seq(Cell) : new = file'[p]
  BY DEF Grown
<1>3. PICK c \in Nat : c = Len(cells)
  BY LenProperties
<1>4. /\ Len(new) = c + w + e
      /\ \A k \in 1 .. c : new[k] = cells[k]
      /\ \A k \in c + 1 .. c + w : new[k] = n
      /\ e = 1 => new[Len(new)] = NL
  BY <1>1, <1>2, <1>3 DEF Grown
<1>5. n # NL /\ m # NL
  BY LineNumber
<1>6. \A q \in Path : q # p => file'[q] = file[q]
  BY DEF TypeInv, FileTypes
<1>7. ASSUME NEW b \in Unread(m)', b \notin Unread(m)
      PROVE  b[1] = p /\ b[2] \in c + 1 .. c + w /\ b = <<p, b[2]>> /\ m = n
  <2>1. /\ b \in Path \X (1 .. 4 * MaxLines) /\ file'[b[1]] # Absent /\ b[2] <= Len(file'[b[1]])
        /\ file'[b[1]][b[2]] = m /\ (pos[b[1]] # NoPos => b[2] > pos[b[1]])
    BY <1>7 DEF Unread
  <2>2. b[1] = p
    <3> SUFFICES ASSUME b[1] # p PROVE b \in Unread(m)
      BY <1>7
    <3>1. file'[b[1]] = file[b[1]]
      BY <1>6, <2>1
    <3> QED
      BY <2>1, <3>1 DEF Unread
  <2>3. PICK k : k = b[2]
    OBVIOUS
  <2>4. k \in 1 .. 4 * MaxLines /\ b = <<p, k>>
    BY <2>1, <2>2, <2>3
  <2>5. k \in 1 .. c + w + e /\ new[k] = m
    BY <1>2, <1>3, <1>4, <2>1, <2>2, <2>3, <2>4, Constants
  <2>6. ~(k <= c)
    <3> SUFFICES ASSUME k <= c PROVE b \in Unread(m)
      BY <1>7
    <3>1. k \in 1 .. c /\ cells[k] = m
      BY <1>3, <1>4, <2>5
    <3> QED
      BY <1>1, <1>3, <2>1, <2>2, <2>3, <3>1 DEF Unread
  <2>7. ~(k > c + w)
    <3> SUFFICES ASSUME k > c + w PROVE FALSE
      OBVIOUS
    <3>1. e = 1 /\ k = Len(new)
      BY <1>3, <1>4, <2>5
    <3> QED
      BY <1>4, <1>5, <2>5, <3>1
  <2>8. k \in c + 1 .. c + w
    BY <1>3, <2>5, <2>6, <2>7
  <2>9. new[k] = n
    BY <1>4, <2>8
  <2> QED
    BY <2>2, <2>3, <2>4, <2>5, <2>8, <2>9
<1>8. ASSUME m = n, IsFiniteSet(Unread(m))
      PROVE  IsFiniteSet(Unread(m)') /\ Cardinality(Unread(m)') <= Cardinality(Unread(m)) + w
  <2>1. PICK U : U = Unread(m)
    OBVIOUS
  <2>2. PICK V : V = Unread(m)'
    OBVIOUS
  <2>3. PICK N : N = V \ U
    OBVIOUS
  <2>4. PICK T : T = c + 1 .. c + w
    OBVIOUS
  <2>5. IsFiniteSet(T) /\ Cardinality(T) = w
    <3>1. c + 1 \in Int /\ c + w \in Int
      BY <1>3
    <3>2. IsFiniteSet(T) /\ Cardinality(T) = IF c + 1 > c + w THEN 0 ELSE (c + w) - (c + 1) + 1
      BY <2>4, <3>1, FS_Interval, Zenon
    <3> QED
      BY <1>3, <3>2
  <2>6. PICK f : f = [b \in N |-> b[2]]
    OBVIOUS
  <2>7. \A b \in N : b[2] \in T /\ b = <<p, b[2]>>
    BY <1>7, <2>1, <2>2, <2>3, <2>4
  <2>8. f \in [N -> T]
    BY <2>6, <2>7
  <2>9. \A b, d \in N : f[b] = f[d] => b = d
    <3> SUFFICES ASSUME NEW b \in N, NEW d \in N, f[b] = f[d] PROVE b = d
      OBVIOUS
    <3>1. b[2] = d[2]
      BY <2>6
    <3> QED
      BY <2>7, <3>1, Zenon
  <2>10. IsFiniteSet(N) /\ Cardinality(N) <= Cardinality(T) /\ Cardinality(N) \in Nat
    BY <2>5, <2>8, <2>9, CountedBy
  <2>11. IsFiniteSet(U) /\ Cardinality(U) \in Nat
    BY <1>8, <2>1, FS_CardinalityType
  <2>12. IsFiniteSet(U \cup N) /\ Cardinality(U \cup N) = Cardinality(U) + Cardinality(N) - Cardinality(U \cap N)
    BY <2>10, <2>11, FS_Union
  <2>13. U \cap N = {} /\ V \in SUBSET (U \cup N)
    BY <2>3
  <2>14. IsFiniteSet(V) /\ Cardinality(V) <= Cardinality(U \cup N)
    BY <2>12, <2>13, FS_Subset
  <2>15. Cardinality(V) <= Cardinality(U) + Cardinality(N) - 0
    <3>1. Cardinality(U \cap N) = 0
      BY <2>13, FS_EmptySet, Zenon
    <3> QED
      BY <2>12, <2>14, <3>1, Zenon
  <2>16. Cardinality(V) <= Cardinality(U) + w
    <3>1. Cardinality(V) \in Nat
      BY <2>14, FS_CardinalityType
    <3>2. Cardinality(N) <= w
      BY <2>5, <2>10
    <3> QED
      BY <2>10, <2>11, <2>15, <3>1, <3>2
  <2> QED
    BY <2>1, <2>2, <2>14, <2>16
<1> QED
  BY <1>7, <1>8

\* Which logs end inside of a line after one of them grew.
LEMMA EndsAfter ==
  ASSUME TypeInv, NEW p \in Path, file' = [file EXCEPT ![p] = file'[p]],
         NEW n \in 1 .. MaxLines, NEW w \in Nat, NEW e \in 0 .. 1,
         w + e # 0, Grown(file[p], file'[p], n, w, e), file[p] # Absent,
         NEW q \in Path, NEW m, EndsIn(q, m)'
  PROVE  (q # p /\ EndsIn(q, m)) \/ (q = p /\ e = 0 /\ m = n)
<1>1. CASE q # p
  <2>1. file'[q] = file[q]
    BY <1>1 DEF TypeInv, FileTypes
  <2> QED
    BY <1>1, <2>1 DEF EndsIn
<1>2. CASE q = p
  <2>1. Half(file'[p]) /\ file'[p][Len(file'[p])] = m
    BY <1>2 DEF EndsIn
  <2>2. e = 0
    BY <2>1 DEF Half, Grown
  <2>3. PICK c \in Nat : c = Len(file[p])
    BY LenProperties DEF TypeInv, FileTypes, CellsFit
  <2>4. c + w \in c + 1 .. c + w /\ Len(file'[p]) = c + w
    BY <2>2, <2>3 DEF Grown
  <2>5. \A k \in c + 1 .. c + w : file'[p][k] = n
    BY <2>3 DEF Grown
  <2> QED
    BY <1>2, <2>1, <2>2, <2>4, <2>5
<1> QED
  BY <1>1, <1>2

LEMMA BytesBegun ==
  ASSUME TypeInv, TypeInv', NEW p \in Path, BeginLine(p), "crlf" \notin happened', NEW m \in 1 .. MaxLines, Accounted(m)
  PROVE  Accounted(m)'
<1>1. /\ file[p] # Absent /\ written' = written + 1 /\ written' \in 1 .. MaxLines
      /\ file' = [file EXCEPT ![p] = file'[p]]
      /\ UNCHANGED pos /\ UNCHANGED out
      /\ \/ Grown(file[p], file'[p], written', Width(written'), 1)
         \/ Grown(file[p], file'[p], written', 1, 0)
  BY LineBegun, PlainBegun DEF TypeInv, taskVars
<1>2. PICK n \in 1 .. MaxLines : n = written'
  BY <1>1
<1>3. Width(n) \in 1 .. 2 /\ Width(m) \in 1 .. 2 /\ written \in Nat /\ n = written + 1
  BY <1>1, <1>2, LineNumber, Constants DEF TypeInv, FileTypes
<1>4. PICK w \in 1 .. 2, e \in 0 .. 1 : /\ Grown(file[p], file'[p], n, w, e)
                                        /\ \/ e = 1 /\ w = Width(n)
                                           \/ e = 0 /\ w = 1
  BY <1>1, <1>2, <1>3
<1>5. w \in Nat /\ w + e # 0 /\ w <= Width(n)
  BY <1>3, <1>4
<1>6. /\ m # n => Unread(m)' \subseteq Unread(m)
      /\ m = n /\ IsFiniteSet(Unread(m)) =>
           IsFiniteSet(Unread(m)') /\ Cardinality(Unread(m)') <= Cardinality(Unread(m)) + w
  BY <1>1, <1>4, <1>5, UnreadGrows
<1>7. \A q \in Path : EndsIn(q, m)' => (q # p /\ EndsIn(q, m)) \/ (q = p /\ e = 0 /\ m = n)
  BY <1>1, <1>4, <1>5, EndsAfter
<1>8. Unwritten(m)' \in 0 .. 2
  <2>1. Unwritten(m)' \in {Width(m), Width(m) - 1, 0}
    BY DEF Unwritten
  <2> QED
    BY <1>3, <2>1
<1>9. CASE m # n
  <2>1. m > written' <=> m > written
    BY <1>2, <1>3, <1>9
  <2>2. (\E q \in Path : EndsIn(q, m)') => \E q \in Path : EndsIn(q, m)
    BY <1>7, <1>9
  <2>3. Unwritten(m)' <= Unwritten(m)
    BY <1>3, <2>1, <2>2 DEF Unwritten
  <2> QED
    BY <1>1, <1>6, <1>8, <1>9, <2>3, AccountedStays
<1>10. CASE m = n
  <2>1. Unwritten(m) = Width(m) /\ ~(m > written')
    BY <1>2, <1>3, <1>10 DEF Unwritten
  <2>2. \A q \in Path : ~EndsIn(q, n)
    <3> SUFFICES ASSUME NEW q \in Path, EndsIn(q, n) PROVE FALSE
      OBVIOUS
    <3>1. file[q] # Absent /\ Half(file[q]) /\ file[q][Len(file[q])] = n
      BY DEF EndsIn
    <3>2. PICK c \in Nat : c = Len(file[q])
      BY <3>1, LenProperties DEF TypeInv, FileTypes, CellsFit
    <3>3. c \in 1 .. c /\ file[q][c] = n
      BY <3>1, <3>2 DEF Half
    <3>4. n <= written
      <4>1. file[q][c] <= written \/ file[q][c] = CR
        BY <3>1, <3>2, <3>3 DEF TypeInv, FileTypes, CellsFit
      <4> QED
        BY <3>3, <4>1, LineNumber
    <3> QED
      BY <1>3, <3>4
  <2>3. Unwritten(m)' + w <= Unwritten(m)
    <3>1. CASE e = 1
      <4>1. ~\E q \in Path : EndsIn(q, m)'
        BY <1>7, <1>10, <2>2, <3>1
      <4>2. Unwritten(m)' = 0
        BY <2>1, <4>1 DEF Unwritten
      <4> QED
        BY <1>3, <1>5, <1>10, <2>1, <4>2
    <3>2. CASE e = 0
      <4>1. Unwritten(m)' \in {Width(m) - 1, 0}
        BY <2>1 DEF Unwritten
      <4> QED
        BY <1>3, <1>4, <2>1, <3>2, <4>1
    <3> QED
      BY <3>1, <3>2
  <2>4. IsFiniteSet(Unread(m)') /\ Cardinality(Unread(m)') <= Cardinality(Unread(m)) + w
    BY <1>6, <1>10 DEF Accounted
  <2> QED
    BY <1>1, <1>5, <1>8, <2>3, <2>4, AccountedGrows
<1> QED
  BY <1>9, <1>10

LEMMA BytesEnded ==
  ASSUME TypeInv, LinesApart, NEW p \in Path, EndLine(p), "crlf" \notin happened', NEW m \in 1 .. MaxLines, Accounted(m)
  PROVE  Accounted(m)'
<1>1. /\ file[p] # Absent /\ Half(file[p]) /\ UNCHANGED written /\ UNCHANGED pos /\ UNCHANGED out
      /\ file' = [file EXCEPT ![p] = file'[p]]
  BY LineEnded DEF TypeInv, taskVars
<1>2. PICK n \in 1 .. written : n = file[p][Len(file[p])] /\ Grown(file[p], file'[p], n, Width(n) - 1, 1)
  BY PlainEnded DEF TypeInv
<1>3. n \in 1 .. MaxLines /\ ~(n > written)
  BY <1>2, Constants DEF TypeInv, FileTypes
<1>4. Width(n) \in 1 .. 2 /\ Width(m) \in 1 .. 2
  BY <1>3, LineNumber
<1>5. PICK w \in Nat, e \in 0 .. 1 : w = Width(n) - 1 /\ e = 1
  BY <1>4
<1>6. Grown(file[p], file'[p], n, w, e) /\ w + e # 0
  BY <1>2, <1>5
<1>7. /\ m # n => Unread(m)' \subseteq Unread(m)
      /\ m = n /\ IsFiniteSet(Unread(m)) =>
           IsFiniteSet(Unread(m)') /\ Cardinality(Unread(m)') <= Cardinality(Unread(m)) + w
  BY <1>1, <1>3, <1>6, UnreadGrows
<1>8. \A q \in Path : EndsIn(q, m)' => q # p /\ EndsIn(q, m)
  BY <1>1, <1>3, <1>5, <1>6, EndsAfter
<1>9. Unwritten(m)' \in 0 .. 2
  <2>1. Unwritten(m)' \in {Width(m), Width(m) - 1, 0}
    BY DEF Unwritten
  <2> QED
    BY <1>4, <2>1
<1>10. CASE m # n
  <2>1. Unwritten(m)' <= Unwritten(m)
    BY <1>1, <1>4, <1>8 DEF Unwritten
  <2> QED
    BY <1>1, <1>7, <1>9, <1>10, <2>1, AccountedStays
<1>11. CASE m = n
  <2>1. EndsIn(p, n)
    BY <1>1, <1>2 DEF EndsIn
  <2>2. ASSUME NEW q \in Path, EndsIn(q, n) PROVE n \in LinesIn(q)
    <3>1. file[q] # Absent /\ Half(file[q]) /\ file[q][Len(file[q])] = n
      BY <2>2 DEF EndsIn
    <3>2. PICK c \in Nat : c = Len(file[q])
      BY <3>1, LenProperties DEF TypeInv, FileTypes, CellsFit
    <3>3. c \in 1 .. Len(file[q]) /\ file[q][c] = n
      BY <3>1, <3>2 DEF Half
    <3> QED
      BY <1>3, <3>1, <3>3 DEF LinesIn
  <2>3. ~\E q \in Path : EndsIn(q, m)'
    BY <1>8, <1>11, <2>1, <2>2 DEF LinesApart
  <2>4. Unwritten(m)' = 0 /\ Unwritten(m) = Width(n) - 1
    BY <1>1, <1>3, <1>11, <2>1, <2>3 DEF Unwritten
  <2>5. Unwritten(m)' + w <= Unwritten(m)
    BY <1>4, <1>5, <2>4
  <2>6. IsFiniteSet(Unread(m)') /\ Cardinality(Unread(m)') <= Cardinality(Unread(m)) + w
    BY <1>7, <1>11 DEF Accounted
  <2> QED
    BY <1>1, <1>9, <2>5, <2>6, AccountedGrows
<1> QED
  BY <1>10, <1>11

LEMMA BytesNext == TypeInv /\ QuietInv /\ LinesApart /\ BytesInv /\ [Next]_vars => BytesInv'
<1> SUFFICES ASSUME TypeInv, QuietInv, LinesApart, BytesInv, [Next]_vars,
                    happened' \subseteq {"drop", "half", "truncate"}, NEW n \in 1 .. MaxLines
             PROVE  Accounted(n)'
  BY DEF BytesInv
<1>1. happened \subseteq happened' => Accounted(n)
  BY DEF BytesInv
<1>2. TypeInv'
  BY TailerNext
<1>3. CASE UNCHANGED pos /\ UNCHANGED out
  <2>1. CASE UNCHANGED file /\ UNCHANGED happened /\ UNCHANGED written
    <3>1. Accounted(n)
      BY <1>1, <2>1
    <3> QED
      BY <1>3, <2>1, <3>1 DEF Accounted, Unread, SentBytes, Unwritten, EndsIn
  <2>2. ASSUME NEW p \in Path, BeginLine(p) PROVE Accounted(n)'
    <3>1. Accounted(n)
      BY <1>1, <2>2 DEF BeginLine, Complete, Notify
    <3> QED
      BY <1>2, <2>2, <3>1, BytesBegun
  <2>3. ASSUME NEW p \in Path, EndLine(p) PROVE Accounted(n)'
    <3>1. Accounted(n)
      BY <1>1, <2>3 DEF EndLine, Complete, Notify
    <3> QED
      BY <2>3, <3>1, BytesEnded
  <2>4. ASSUME NEW p \in Path, Truncate(p) PROVE Accounted(n)'
    <3>1. Accounted(n) /\ UNCHANGED written
      BY <1>1, <2>4 DEF Truncate, Notify, Change
    <3>2. file'[p] = <<>> /\ \A q \in Path : q # p => file'[q] = file[q]
      BY <2>4 DEF Truncate, TypeInv, FileTypes
    <3>3. Len(<<>>) = 0 /\ ~Half(<<>>)
      BY DEF Half
    <3>4. Unread(n)' \subseteq Unread(n)
      <4> SUFFICES ASSUME NEW b \in Unread(n)' PROVE b \in Unread(n)
        OBVIOUS
      <4>1. /\ b \in Path \X (1 .. 4 * MaxLines) /\ file'[b[1]] # Absent /\ b[2] <= Len(file'[b[1]])
            /\ file'[b[1]][b[2]] = n /\ (pos[b[1]] # NoPos => b[2] > pos[b[1]])
        BY <1>3 DEF Unread
      <4>2. b[1] \in Path /\ b[2] \in 1 .. 4 * MaxLines
        BY <4>1
      <4>3. ~(b[2] <= 0)
        BY <4>2, Constants
      <4>4. b[1] # p
        BY <3>2, <3>3, <4>1, <4>3
      <4>5. file'[b[1]] = file[b[1]]
        BY <3>2, <4>2, <4>4
      <4> QED
        BY <4>1, <4>5 DEF Unread
    <3>5. \A q \in Path : EndsIn(q, n)' => EndsIn(q, n)
      BY <3>2, <3>3 DEF EndsIn
    <3>6. Width(n) \in 1 .. 2
      BY LineNumber
    <3>7. Unwritten(n)' <= Unwritten(n) /\ Unwritten(n)' \in 0 .. 2
      BY <3>1, <3>5, <3>6 DEF Unwritten
    <3> QED
      BY <1>3, <3>1, <3>4, <3>7, AccountedStays
  <2>5. ASSUME NEW p \in Path, CreateFile(p) \/ RenameFile(p) \/ RemoveFile(p) PROVE FALSE
    BY <2>5 DEF CreateFile, RenameFile, RemoveFile, Notify
  <2>6. Task \/ WatchError \/ StopTailer \/ UNCHANGED vars
          => UNCHANGED file /\ UNCHANGED happened /\ UNCHANGED written
    BY DEF Task, ListingFails, WatchError, StopTailer, ReadExisting, HandleModify, HandleCreate, ReadAdopted,
           HandleRemove, HandleRename, HandleError, Handles, environment, vars
  <2> QED
    BY <2>1, <2>2, <2>3, <2>4, <2>5, <2>6 DEF Next, Environment
<1>4. CASE /\ UNCHANGED file /\ UNCHANGED written /\ UNCHANGED happened
           /\ \E p, offset, first :
                /\ p \in Path
                /\ file[p] # Absent /\ NoReturns(file[p])
                /\ IF pos[p] = NoPos THEN offset = 0 ELSE offset = pos[p]
                /\ ReadOn(p, offset, first)
  <2>1. Accounted(n)
    BY <1>1, <1>4
  <2> QED
    BY <1>4, <2>1, BytesRead
<1> QED
  BY <1>3, <1>4, QuietReads

LEMMA TailerAccounts == Spec => [](TypeInv /\ QuietInv /\ LinesApart /\ BytesInv)
<1>1. TypeInv /\ QuietInv /\ LinesApart /\ BytesInv /\ [Next]_vars
        => (TypeInv /\ QuietInv /\ LinesApart /\ BytesInv)'
  BY TailerNext, QuietNext, ApartNext, BytesNext
<1> QED
  BY TailerInit, QuietInit, ApartInit, BytesInit, <1>1, PTL DEF Spec

LEMMA AccountedIsOnce == TypeInv /\ BytesInv => NoByteTwice
<1> SUFFICES ASSUME TypeInv, BytesInv, happened \subseteq {"drop", "half", "truncate"},
                    NEW n \in 1 .. MaxLines
             PROVE  Cardinality(SentBytes(n)) <= Len(Text(n))
  BY DEF NoByteTwice
<1>1. IsFiniteSet(Unread(n)) /\ Cardinality(SentBytes(n)) + Cardinality(Unread(n)) + Unwritten(n) <= Width(n)
  BY DEF BytesInv, Accounted
<1>2. Cardinality(SentBytes(n)) \in Nat /\ Cardinality(Unread(n)) \in Nat /\ Unwritten(n) \in 0 .. 2
      /\ Width(n) \in 1 .. 2
  BY <1>1, SentBytesAre, UnwrittenIs, LineNumber, FS_CardinalityType
<1>3. Cardinality(SentBytes(n)) <= Width(n)
  BY <1>1, <1>2
<1> QED
  BY <1>3 DEF Width

\* As long as lines end with a bare newline, no byte of a line is sent twice,
\* whatever is dropped, whatever reads fail, when a line is read in two halves and
\* when a file shrinks: what was sent, what a read would still send and what is
\* still to be written are together never more than the line
\* (src/log_scanner/tailer/state.rs:52, 139).  After a line that ends with CR NL
\* the offset is one byte short, and bytes are sent again.
THEOREM BytesSentOnce == Spec => []NoByteTwice
BY TailerAccounts, AccountedIsOnce, PTL
=============================================================================

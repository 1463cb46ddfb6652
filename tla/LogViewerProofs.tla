----------------------------- MODULE LogViewerProofs -----------------------------
(***************************************************************************)
(* The lists of the log viewer, proved for every number of sources, rows,  *)
(* timestamps and limits.                                                  *)
(*                                                                         *)
(* ViewerInv adds to the two properties what they need of each other: the  *)
(* rows of the database have different ids, so that Above orders them      *)
(* totally, and a list holds rows of its own source only, so that what is  *)
(* newer than its head is in front of all of it.                           *)
(***************************************************************************)
EXTENDS ListProofs, LogViewer

Descends(list) == \A i, j \in 1 .. Len(list) : i < j => Above(list[i], list[j])

IdsDiffer(S) == \A p, q \in S : p.id = q.id => p = q

NoGap(list, rows, out) ==
  \A r \in rows :
    list # <<>> /\ Above(Head(list), r) /\ Above(r, Last(list)) => r \in Range(list) \cup out

ListInv(list, rows, out) ==
  /\ list \in Seq(rows) /\ Descends(list)
  /\ NoGap(list, rows, out)

ViewerInv ==
  /\ db \subseteq Row /\ IsFiniteSet(db) /\ IdsDiffer(db)
  /\ hostRow \in Int /\ selected \in Source \cup {None}
  /\ DOMAIN listed = Source
  /\ \A s \in Source : ListInv(Shown(s), RowsOf(s), lost)

-----------------------------------------------------------------------------
(* The order of the rows and the lists made of them.                       *)

LEMMA AboveOrders ==
  ASSUME NEW p \in Row, NEW q \in Row, NEW r \in Row
  PROVE  /\ ~Above(p, p)
         /\ Above(p, q) /\ Above(q, r) => Above(p, r)
         /\ p.id # q.id => Above(p, q) \/ Above(q, p)
<1>1. /\ p.ts \in Int /\ q.ts \in Int /\ r.ts \in Int
      /\ p.id \in Int /\ q.id \in Int /\ r.id \in Int
  BY ViewerAssumption DEF Row, ViewerAssumption
<1> QED
  BY <1>1 DEF Above

IsNewestFirst(list, rows) ==
  /\ list \in Seq(rows) /\ Descends(list)
  /\ \A x \in rows : \E j \in 1 .. Len(list) : list[j] = x

\* ORDER BY returns every row, the newest first.
LEMMA RowsInOrder ==
  ASSUME NEW S, S \subseteq Row, IsFiniteSet(S), IdsDiffer(S)
  PROVE  IsNewestFirst(NewestFirst(S), S)
<1> DEFINE before == [x \in S |-> {y \in S : Above(y, x)}]
<1>1. \A x \in S : before[x] = {y \in S : Above(y, x)}
  OBVIOUS
<1> HIDE DEF before
<1>2. \A x \in S : before[x] \subseteq S /\ x \notin before[x]
  BY <1>1, AboveOrders
<1>3. \A x, y \in S : x # y => x \in before[y] \/ y \in before[x]
  BY <1>1, AboveOrders DEF IdsDiffer
<1>4. \A x, y \in S : x \in before[y] => before[x] \subseteq before[y]
  BY <1>1, AboveOrders
<1>5. IsOrder(S, before)
  BY <1>2, <1>3, <1>4 DEF IsOrder
<1>6. ASSUME NEW list, list = NewestFirst(S) PROVE InPlace(list, S, before)
  <2>1. list = [j \in 1 .. Cardinality(S) |->
                  CHOOSE x \in S : Cardinality({y \in S : Above(y, x)}) = j - 1]
    BY <1>6, Zenon DEF NewestFirst, Ordered
  <2>2. ASSUME NEW j \in 1 .. Cardinality(S)
        PROVE  list[j] \in S /\ Cardinality(before[list[j]]) = j - 1
    <3>1. \E x \in S : Cardinality(before[x]) = j - 1
      BY <1>5, PlacesAreTaken
    <3>2. \E x \in S : Cardinality({y \in S : Above(y, x)}) = j - 1
      BY <1>1, <3>1
    <3>3. list[j] = CHOOSE x \in S : Cardinality({y \in S : Above(y, x)}) = j - 1
      BY <2>1
    <3>4. list[j] \in S /\ Cardinality({y \in S : Above(y, list[j])}) = j - 1
      BY <3>2, <3>3
    <3> QED
      BY <1>1, <3>4
  <2> QED
    BY <2>1, <2>2 DEF InPlace
<1>7. ASSUME NEW list, Follows(list, S, before) PROVE IsNewestFirst(list, S)
  <2>1. /\ list \in Seq(S)
        /\ \A i, j \in 1 .. Len(list) : i < j => list[i] \in before[list[j]]
        /\ \A x \in S : \E j \in 1 .. Len(list) : list[j] = x
    BY <1>7 DEF Follows
  <2>2. ASSUME NEW i \in 1 .. Len(list), NEW j \in 1 .. Len(list), i < j
        PROVE  Above(list[i], list[j])
    <3>1. list[j] \in S /\ list[i] \in before[list[j]]
      BY <2>1, <2>2
    <3>2. list[i] \in {y \in S : Above(y, list[j])}
      BY <1>1, <3>1
    <3> QED
      BY <3>2
  <2> QED
    BY <2>1, <2>2 DEF IsNewestFirst, Descends
<1> QED
  BY <1>5, <1>6, <1>7, OrderedList

IsFront(front, list, n) ==
  /\ Len(front) = IF Len(list) < n THEN Len(list) ELSE n
  /\ \A i \in 1 .. Len(front) : front[i] = list[i]

\* LIMIT keeps the front of a list.
LEMMA LimitedFront ==
  ASSUME NEW T, NEW list \in Seq(T), NEW n \in Nat
  PROVE  Limited(list, n) \in Seq(T) /\ IsFront(Limited(list, n), list, n)
<1> DEFINE m == IF Len(list) < n THEN Len(list) ELSE n
<1>1. m \in 0 .. Len(list)
  OBVIOUS
<1> HIDE DEF m
<1>2. /\ SubSeq(list, 1, m) \in Seq(T) /\ Len(SubSeq(list, 1, m)) = m
      /\ \A i \in 1 .. m : SubSeq(list, 1, m)[i] = list[i]
  BY <1>1
<1>3. Limited(list, n) = SubSeq(list, 1, m)
  BY DEF Limited, m
<1> QED
  BY <1>2, <1>3 DEF m, IsFront

-----------------------------------------------------------------------------
(* The properties as facts about the list of one source.                   *)

LEMMA ItemsInRange ==
  ASSUME NEW T, NEW list \in Seq(T), NEW i \in 1 .. Len(list)
  PROVE  list[i] \in Range(list)
BY DEF Range

\* The rows of one source are ordered, too.
LEMMA RowsOfSource ==
  ASSUME ViewerInv, NEW s \in Source
  PROVE  RowsOf(s) \subseteq Row /\ IsFiniteSet(RowsOf(s)) /\ IdsDiffer(RowsOf(s))
<1>1. RowsOf(s) \subseteq db
  BY DEF RowsOf
<1> QED
  BY <1>1, FS_Subset DEF IdsDiffer, ViewerInv

\* The newest rows of a source are a list without a gap.
LEMMA LoadedList ==
  ASSUME NEW S, S \subseteq Row, IsFiniteSet(S), IdsDiffer(S), NEW n \in Nat \ {0},
         NEW list, list = Limited(NewestFirst(S), n)
  PROVE  ListInv(list, S, {}) /\ Len(list) <= n
<1>1. PICK all : all = NewestFirst(S) /\ IsNewestFirst(all, S)
  BY RowsInOrder
<1>2. /\ all \in Seq(S) /\ Descends(all)
      /\ \A x \in S : \E j \in 1 .. Len(all) : all[j] = x
  BY <1>1 DEF IsNewestFirst
<1>3. /\ list \in Seq(S)
      /\ Len(list) = IF Len(all) < n THEN Len(all) ELSE n
      /\ \A i \in 1 .. Len(list) : list[i] = all[i]
  <2>1. n \in Nat /\ list = Limited(all, n)
    BY <1>1
  <2>2. list \in Seq(S) /\ IsFront(list, all, n)
    BY <1>2, <2>1, LimitedFront
  <2> QED
    BY <2>2 DEF IsFront
<1>4. Len(list) \in Nat /\ Len(all) \in Nat /\ Len(list) <= Len(all)
  BY <1>2, <1>3
<1>5. Descends(list)
  <2>1. ASSUME NEW i \in 1 .. Len(list), NEW j \in 1 .. Len(list), i < j
        PROVE  Above(list[i], list[j])
    <3>1. i \in 1 .. Len(all) /\ j \in 1 .. Len(all) /\ list[i] = all[i] /\ list[j] = all[j]
      BY <1>3, <1>4
    <3> QED
      BY <1>2, <2>1, <3>1 DEF Descends
  <2> QED
    BY <2>1 DEF Descends
<1>6. ASSUME NEW r \in S, list # <<>>, Above(r, Last(list)) PROVE r \in Range(list)
  <2>1. PICK j \in 1 .. Len(all) : all[j] = r
    BY <1>2
  <2>2. Len(list) \in 1 .. Len(all) /\ Last(list) = all[Len(list)]
    BY <1>3, <1>4, <1>6 DEF Last
  <2>3. all[Len(list)] \in Row /\ r \in Row
    BY <1>2, <2>2
  <2>4. Above(r, all[Len(list)])
    BY <1>6, <2>2
  <2>5. ~Above(all[Len(list)], r)
    BY <2>3, <2>4, AboveOrders
  <2>6. ~(Len(list) < j)
    BY <1>2, <2>1, <2>2, <2>5 DEF Descends
  <2>7. j \in 1 .. Len(list)
    BY <1>4, <2>6
  <2> QED
    BY <1>3, <2>1, <2>7 DEF Range
<1> QED
  BY <1>3, <1>4, <1>5, <1>6 DEF ListInv, NoGap

\* In front of a list without a gap go rows newer than its head; those that the
\* limit of the poll leaves out are counted as lost.
LEMMA ExtendedList ==
  ASSUME NEW S, S \subseteq Row, IsFiniteSet(S), IdsDiffer(S), NEW out,
         NEW list, ListInv(list, S, out), list # <<>>,
         NEW missing, missing = {r \in S : Newer(r, Head(list))},
         NEW new, new = Limited(NewestFirst(missing), PollLimit),
         NEW ext, ext = Extend(new, list)
  PROVE  ListInv(ext, S, out \cup (missing \ Range(new)))
<1>1. list \in Seq(S) /\ Descends(list) /\ NoGap(list, S, out)
  BY DEF ListInv
<1>2. Head(list) = list[1] /\ Len(list) \in Nat /\ Len(list) >= 1 /\ list[1] \in S
  BY <1>1
<1>3. missing \subseteq S /\ \A r \in S : r \in missing <=> Above(r, list[1])
  BY <1>2 DEF Newer, Above
<1>4. missing \subseteq Row /\ IsFiniteSet(missing) /\ IdsDiffer(missing)
  BY <1>3, FS_Subset DEF IdsDiffer
<1>5. /\ PollLimit \in Nat \ {0} /\ MaxEntries \in Nat \ {0} /\ PollLimit <= MaxEntries
  BY ViewerAssumption DEF ViewerAssumption
<1>6. new \in Seq(missing) /\ Descends(new) /\ Len(new) <= PollLimit
  <2>1. ListInv(new, missing, {}) /\ Len(new) <= PollLimit
    BY <1>4, <1>5, LoadedList
  <2> QED
    BY <2>1 DEF ListInv
<1>7. PICK n \in Nat : n = Len(new) /\ n <= MaxEntries
  <2>1. PICK n \in Nat : n = Len(new)
    BY <1>6, LenProperties
  <2>2. n <= MaxEntries
    BY <1>5, <1>6, <2>1
  <2> QED
    BY <2>1, <2>2
<1> DEFINE whole == new \o list
<1>8. /\ whole \in Seq(S) /\ Len(whole) = n + Len(list)
      /\ \A i \in 1 .. n : whole[i] = new[i]
      /\ \A i \in 1 .. Len(list) : whole[n + i] = list[i]
  BY <1>1, <1>3, <1>6, <1>7
<1>9. ext = Limited(whole, MaxEntries)
  BY DEF Extend
<1> HIDE DEF whole
<1>10. ext \in Seq(S) /\ IsFront(ext, whole, MaxEntries)
  BY <1>5, <1>8, <1>9, LimitedFront
<1>11. /\ Len(ext) \in Nat /\ Len(ext) >= 1 /\ Len(ext) >= n /\ Len(ext) <= n + Len(list)
       /\ \A i \in 1 .. Len(ext) : ext[i] = whole[i]
  BY <1>2, <1>5, <1>7, <1>8, <1>10 DEF IsFront
<1>12. ASSUME NEW i \in 1 .. Len(whole), NEW j \in 1 .. Len(whole), i < j
       PROVE  Above(whole[i], whole[j])
  <2>1. PICK m \in Nat : m = Len(list) /\ Len(whole) = n + m
    BY <1>2, <1>8
  <2>2. i \in 1 .. n + m /\ j \in 1 .. n + m
    BY <2>1
  <2>3. CASE j <= n
    <3>1. i \in 1 .. Len(new) /\ j \in 1 .. Len(new)
      BY <1>7, <1>12, <2>2, <2>3
    <3> QED
      BY <1>6, <1>7, <1>8, <1>12, <3>1 DEF Descends
  <2>4. CASE n < i
    <3>1. i - n \in 1 .. Len(list) /\ j - n \in 1 .. Len(list) /\ i - n < j - n
            /\ i = n + (i - n) /\ j = n + (j - n)
      BY <1>7, <1>12, <2>1, <2>2, <2>4
    <3> QED
      BY <1>1, <1>8, <3>1 DEF Descends
  <2>5. CASE i <= n /\ n < j
    <3>1. i \in 1 .. n /\ j - n \in 1 .. Len(list) /\ j = n + (j - n)
      BY <1>7, <2>1, <2>2, <2>5
    <3>2. whole[i] = new[i] /\ new[i] \in missing /\ whole[j] = list[j - n]
      <4>1. i \in 1 .. Len(new)
        BY <1>7, <3>1
      <4>2. whole[i] = new[i] /\ new[i] \in missing
        BY <1>6, <1>8, <3>1, <4>1
      <4>3. whole[j] = list[j - n]
        BY <1>8, <3>1
      <4> QED
        BY <4>2, <4>3
    <3>3. Above(whole[i], list[1])
      BY <1>3, <3>2
    <3>4. j - n = 1 \/ Above(list[1], list[j - n])
      BY <1>1, <1>2, <3>1 DEF Descends
    <3>5. whole[i] \in Row /\ list[1] \in Row /\ list[j - n] \in Row
      BY <1>1, <1>2, <1>3, <3>1, <3>2
    <3> QED
      BY <3>2, <3>3, <3>4, <3>5, AboveOrders
  <2> QED
    BY <1>7, <2>2, <2>3, <2>4, <2>5
<1>13. Descends(ext)
  <2>1. ASSUME NEW i \in 1 .. Len(ext), NEW j \in 1 .. Len(ext), i < j
        PROVE  Above(ext[i], ext[j])
    <3>1. /\ i \in 1 .. Len(whole) /\ j \in 1 .. Len(whole)
          /\ ext[i] = whole[i] /\ ext[j] = whole[j]
      BY <1>2, <1>7, <1>8, <1>11
    <3> QED
      BY <1>12, <2>1, <3>1
  <2> QED
    BY <2>1 DEF Descends
<1>14. ASSUME NEW r \in S, Above(r, Last(ext))
       PROVE  r \in Range(ext) \cup out \cup (missing \ Range(new))
  <2>1. Last(ext) = whole[Len(ext)]
    BY <1>11 DEF Last
  <2>2. CASE r \in missing
    <3>1. SUFFICES ASSUME r \in Range(new) PROVE r \in Range(ext)
      BY <2>2
    <3>2. PICK i \in 1 .. n : r = new[i]
      BY <1>6, <1>7, <3>1 DEF Range
    <3>3. i \in 1 .. Len(ext) /\ ext[i] = r
      BY <1>7, <1>8, <1>11, <3>2
    <3> QED
      BY <1>10, <3>3, ItemsInRange
  <2>3. CASE r \notin missing
    <3>1. ~Above(r, list[1]) /\ r \in Row /\ list[1] \in Row
      BY <1>2, <1>3, <2>3
    <3>2. n < Len(ext)
      <4>1. SUFFICES ASSUME Len(ext) <= n PROVE FALSE
        BY <1>7, <1>11
      <4>2. Len(ext) \in 1 .. Len(new) /\ Len(ext) \in 1 .. n
        BY <1>7, <1>11, <4>1
      <4>3. Last(ext) = new[Len(ext)] /\ new[Len(ext)] \in missing
        BY <1>6, <1>8, <2>1, <4>2
      <4>4. Last(ext) \in Row /\ Above(Last(ext), list[1])
        BY <1>3, <4>3
      <4> QED
        BY <1>14, <3>1, <4>4, AboveOrders
    <3>3. PICK k \in 1 .. Len(list) : Len(ext) = n + k
      <4>1. Len(ext) - n \in 1 .. Len(list) /\ Len(ext) = n + (Len(ext) - n)
        BY <1>2, <1>7, <1>11, <3>2
      <4> QED
        BY <4>1
    <3>4. Last(ext) = list[k] /\ list[k] \in Row
      <4>1. whole[n + k] = list[k] /\ list[k] \in S
        BY <1>1, <1>8
      <4> QED
        BY <2>1, <3>3, <4>1
    <3>5. \A m \in 1 .. k : list[m] \in Range(ext)
      <4>1. ASSUME NEW m \in 1 .. k PROVE list[m] \in Range(ext)
        <5>1. m \in 1 .. Len(list) /\ n + m \in 1 .. Len(ext)
          BY <1>2, <1>7, <3>3
        <5>2. ext[n + m] = list[m]
          BY <1>8, <1>11, <5>1
        <5> QED
          BY <1>10, <5>1, <5>2, ItemsInRange
      <4> QED
        BY <4>1
    <3>6. CASE r = list[1]
      BY <1>2, <3>3, <3>5, <3>6
    <3>7. CASE r # list[1]
      <4>1. Above(list[1], r)
        BY <1>2, <3>1, <3>7, AboveOrders DEF IdsDiffer
      <4>2. Last(list) = list[Len(list)] /\ list[Len(list)] \in Row
        BY <1>1, <1>2 DEF Last
      <4>3. k = Len(list) \/ Above(list[k], list[Len(list)])
        BY <1>1, <1>2, <3>3 DEF Descends
      <4>4. Above(r, list[k])
        BY <1>14, <3>4
      <4>5. Above(r, Last(list))
        BY <3>1, <3>4, <4>2, <4>3, <4>4, AboveOrders
      <4>6. r \in Range(list) \cup out
        BY <1>1, <1>2, <4>1, <4>5 DEF NoGap
      <4>7. SUFFICES ASSUME r \in Range(list) PROVE r \in Range(ext)
        BY <4>6
      <4>8. PICK m \in 1 .. Len(list) : r = list[m]
        BY <1>1, <4>7 DEF Range
      <4>9. ~(k < m)
        <5>1. SUFFICES ASSUME k < m PROVE FALSE
          OBVIOUS
        <5>2. Above(list[k], r)
          BY <1>1, <3>3, <4>8, <5>1 DEF Descends
        <5> QED
          BY <3>1, <3>4, <4>4, <5>2, AboveOrders
      <4>10. m \in 1 .. k
        BY <1>2, <3>3, <4>8, <4>9
      <4> QED
        BY <3>5, <4>8, <4>10
    <3> QED
      BY <3>6, <3>7
  <2> QED
    BY <2>2, <2>3
<1> QED
  BY <1>10, <1>13, <1>14 DEF ListInv, NoGap

-----------------------------------------------------------------------------
(* The steps.                                                              *)

LEMMA EmptyList == ASSUME NEW S, NEW out PROVE ListInv(<<>>, S, out)
BY DEF ListInv, Descends, NoGap

LEMMA MoreLost ==
  ASSUME NEW S, NEW out, NEW list, ListInv(list, S, {}) PROVE ListInv(list, S, out)
BY DEF ListInv, NoGap

LEMMA ViewerInit == Init => ViewerInv
<1> SUFFICES ASSUME Init PROVE ViewerInv
  OBVIOUS
<1>1. /\ db = {} /\ hostRow = 0 /\ selected = None
      /\ listed = [s \in Source |-> None]
  BY DEF Init
<1>2. IsFiniteSet(db)
  BY <1>1, FS_EmptySet
<1>3. ASSUME NEW s \in Source PROVE ListInv(Shown(s), RowsOf(s), lost)
  <2>1. Shown(s) = <<>>
    BY <1>1 DEF Shown
  <2> QED
    BY <2>1, EmptyList
<1> QED
  BY <1>1, <1>2, <1>3 DEF ViewerInv, IdsDiffer

\* Only the list of one source changes, and what is lost of the others stays.
LEMMA OtherLists ==
  ASSUME ViewerInv, UNCHANGED db, NEW s \in Source, NEW list,
         listed' = [listed EXCEPT ![s] = list],
         \A r \in lost : r.src # s => r \in lost',
         NEW t \in Source \ {s}
  PROVE  ListInv(Shown(t), RowsOf(t), lost)'
<1>1. ListInv(Shown(t), RowsOf(t), lost)
  BY DEF ViewerInv
<1>2. RowsOf(t)' = RowsOf(t) /\ Shown(t)' = Shown(t)
  BY DEF RowsOf, Shown, ViewerInv
<1>3. \A r \in RowsOf(t) : r \in lost => r \in lost'
  BY DEF RowsOf
<1> QED
  BY <1>1, <1>2, <1>3 DEF ListInv, NoGap

LEMMA LoadStep ==
  ASSUME ViewerInv, UNCHANGED db, NEW s \in Source, Load(s)
  PROVE  /\ DOMAIN listed' = Source
         /\ \A t \in Source : ListInv(Shown(t), RowsOf(t), lost)'
<1>1. PICK list : list = Limited(NewestFirst(RowsOf(s)), MaxEntries)
  OBVIOUS
<1>2. listed' = [listed EXCEPT ![s] = list] /\ lost' = {r \in lost : r.src # s}
  BY <1>1 DEF Load
<1>3. DOMAIN listed' = Source
  BY <1>2 DEF ViewerInv
<1>4. ListInv(list, RowsOf(s), {})
  BY <1>1, RowsOfSource, LoadedList, ViewerAssumption DEF ViewerAssumption
<1>5. Shown(s)' = list \/ Shown(s)' = <<>>
  BY <1>2 DEF Shown, ViewerInv
<1>6. RowsOf(s)' = RowsOf(s)
  BY DEF RowsOf
<1>7. ListInv(Shown(s), RowsOf(s), lost)'
  <2>1. ListInv(list, RowsOf(s), lost') /\ ListInv(<<>>, RowsOf(s), lost')
    BY <1>4, EmptyList, MoreLost
  <2> QED
    BY <1>5, <1>6, <2>1
<1>8. \A t \in Source \ {s} : ListInv(Shown(t), RowsOf(t), lost)'
  BY <1>2, OtherLists
<1> QED
  BY <1>3, <1>7, <1>8

LEMMA PollStep ==
  ASSUME ViewerInv, UNCHANGED db, NEW s \in Source, Poll(s)
  PROVE  /\ DOMAIN listed' = Source
         /\ \A t \in Source : ListInv(Shown(t), RowsOf(t), lost)'
<1>1. CASE Shown(s) = <<>>
  BY <1>1 DEF Poll, ViewerInv, Shown, RowsOf
<1>2. CASE Shown(s) # <<>>
  <2> DEFINE new == Limited(NewestFirst(Missing(s)), PollLimit)
             ext == Extend(new, Shown(s))
  <2>1. listed[s] = Shown(s)
    BY <1>2 DEF Shown
  <2>2. listed' = [listed EXCEPT ![s] = ext] /\ lost' = lost \cup (Missing(s) \ Range(new))
    BY <1>2, <2>1 DEF Poll
  <2>3. Missing(s) = {r \in RowsOf(s) : Newer(r, Head(Shown(s)))}
    BY DEF Missing
  <2>4. ListInv(Shown(s), RowsOf(s), lost)
    BY DEF ViewerInv
  <2> HIDE DEF new
  <2>5. new = Limited(NewestFirst(Missing(s)), PollLimit)
    BY DEF new
  <2> HIDE DEF ext
  <2>6. ext = Extend(new, Shown(s))
    BY DEF ext
  <2>7. ListInv(ext, RowsOf(s), lost')
    BY <1>2, <2>2, <2>3, <2>4, <2>5, <2>6, RowsOfSource, ExtendedList
  <2>8. RowsOf(s)' = RowsOf(s) /\ (Shown(s)' = ext \/ Shown(s)' = <<>>)
    BY <2>2 DEF RowsOf, Shown, ViewerInv
  <2>9. ListInv(Shown(s), RowsOf(s), lost)'
    BY <2>7, <2>8, EmptyList
  <2>10. \A t \in Source \ {s} : ListInv(Shown(t), RowsOf(t), lost)'
    BY <2>2, OtherLists
  <2> QED
    BY <2>2, <2>9, <2>10 DEF ViewerInv
<1> QED
  BY <1>1, <1>2

LEMMA InsertStep == ASSUME ViewerInv, Insert PROVE ViewerInv'
<1>1. PICK row \in Row :
        /\ \A r \in db : r.id # row.id
        /\ db' = db \cup {row}
        /\ lost' = IF Shown(row.src) # <<>> /\ Above(Head(Shown(row.src)), row)
                     THEN lost \cup {row} ELSE lost
  BY DEF Insert
<1>2. hostRow' = hostRow /\ selected' = selected /\ listed' = listed
  BY DEF Insert
<1>3. db' \subseteq Row /\ IsFiniteSet(db') /\ IdsDiffer(db')
  BY <1>1, FS_AddElement DEF ViewerInv, IdsDiffer
<1>4. ASSUME NEW s \in Source PROVE ListInv(Shown(s), RowsOf(s), lost)'
  <2>1. ListInv(Shown(s), RowsOf(s), lost) /\ Shown(s)' = Shown(s)
    BY <1>2 DEF ViewerInv, Shown
  <2>2. /\ RowsOf(s) \subseteq RowsOf(s)' /\ lost \subseteq lost'
        /\ \A r \in RowsOf(s)' : r \in RowsOf(s) \/ (r = row /\ row.src = s)
    BY <1>1 DEF RowsOf
  <2>3. row.src = s /\ Shown(s) # <<>> /\ Above(Head(Shown(s)), row) => row \in lost'
    BY <1>1
  <2>4. \A list, S, T, out, more :
          /\ ListInv(list, S, out) /\ S \subseteq T /\ out \subseteq more
          /\ \A r \in T : r \in S \/ (list # <<>> /\ Above(Head(list), r) => r \in more)
          => ListInv(list, T, more)
    BY DEF ListInv, NoGap
  <2> QED
    BY <2>1, <2>2, <2>3, <2>4
<1> QED
  BY <1>2, <1>3, <1>4 DEF ViewerInv

\* What is highlighted is a source, or the header of a list of them.
LEMMA HighlightedSource == ASSUME ViewerInv PROVE SourceAt(hostRow) \in Source \cup {None}
<1>1. /\ VHosts \in Seq(Range(VHosts)) /\ SystemLogs \in Seq(Range(SystemLogs))
      /\ hostRow \in Int
  BY ViewerAssumption DEF ViewerAssumption, ViewerInv
<1>2. /\ \A i \in 1 .. Len(VHosts) : VHosts[i] \in Source
      /\ \A i \in 1 .. Len(SystemLogs) : SystemLogs[i] \in Source
  BY <1>1, ItemsInRange DEF Source
<1>3. Len(VHosts) \in Nat /\ Len(SystemLogs) \in Nat
  BY <1>1, LenProperties
<1> QED
  BY <1>1, <1>2, <1>3 DEF SourceAt

LEMMA ViewerNext == ViewerInv /\ [Next]_vars => ViewerInv'
<1> SUFFICES ASSUME ViewerInv, [Next]_vars PROVE ViewerInv'
  OBVIOUS
<1>1. CASE Insert
  BY <1>1, InsertStep
<1>2. ASSUME UNCHANGED <<db, listed, lost>>, hostRow' \in Int, selected' \in Source \cup {None}
      PROVE  ViewerInv'
  BY <1>2 DEF ViewerInv, Shown, RowsOf
<1>3. ASSUME UNCHANGED <<db, hostRow>>, selected' \in Source,
             \E s \in Source : Load(s) \/ Poll(s)
      PROVE  ViewerInv'
  <2>1. PICK s \in Source : Load(s) \/ Poll(s)
    BY <1>3
  <2>2. UNCHANGED db
    BY <1>3
  <2>3. /\ DOMAIN listed' = Source
        /\ \A t \in Source : ListInv(Shown(t), RowsOf(t), lost)'
    BY <2>1, <2>2, LoadStep, PollStep
  <2> QED
    BY <1>3, <2>2, <2>3 DEF ViewerInv
<1>4. CASE Open
  <2>1. CASE VHosts = <<>>
    BY <1>2, <1>4, <2>1 DEF Open, ViewerInv
  <2>2. CASE VHosts # <<>>
    <3>1. Head(VHosts) \in Source
      BY <2>2, ItemsInRange, ViewerAssumption DEF ViewerAssumption, Source
    <3> QED
      BY <1>3, <1>4, <2>2, <3>1 DEF Open
  <2> QED
    BY <2>1, <2>2
<1>5. ASSUME NEW ok \in BOOLEAN, Tick(ok) PROVE ViewerInv'
  <2>1. selected \in Source /\ UNCHANGED <<db, hostRow, selected>>
    BY <1>5 DEF Tick, ViewerInv
  <2>2. Poll(selected) \/ UNCHANGED <<listed, lost>>
    BY <1>5 DEF Tick
  <2> QED
    BY <1>2, <1>3, <2>1, <2>2 DEF ViewerInv
<1>6. ASSUME NEW ok \in BOOLEAN, Refresh(ok) PROVE ViewerInv'
  <2>1. selected' \in Source /\ UNCHANGED <<db, hostRow>>
    BY <1>6, HighlightedSource DEF Refresh
  <2>2. Load(selected') \/ UNCHANGED <<listed, lost>>
    BY <1>6 DEF Refresh
  <2> QED
    BY <1>2, <1>3, <2>1, <2>2 DEF ViewerInv
<1>7. CASE MoveHighlight
  <2>1. hostRow' \in Int
    BY <1>7 DEF MoveHighlight, ViewerInv
  <2> QED
    BY <1>2, <1>7, <2>1 DEF MoveHighlight, ViewerInv
<1>8. CASE Elapse \/ ToggleFilter \/ UNCHANGED vars
  BY <1>2, <1>8 DEF Elapse, ToggleFilter, vars, ViewerInv
<1> QED
  BY <1>1, <1>4, <1>5, <1>6, <1>7, <1>8 DEF Next

LEMMA ViewerInvAlways == Spec => []ViewerInv
BY ViewerInit, ViewerNext, PTL DEF Spec

\* Whatever is loaded, polled and stored, and in whatever order, the list of a
\* source holds each row once and the newest first (OrderedOnce).
THEOREM ListsAreOrdered == Spec => []OrderedOnce
<1>1. ViewerInv => OrderedOnce
  BY DEF ViewerInv, ListInv, Descends, OrderedOnce
<1> QED
  BY <1>1, ViewerInvAlways, PTL

\* A row that a list lacks between its ends came behind the head of the list, or
\* was left out by the limit of a poll (GapsHaveACause).
THEOREM GapsAreExplained == Spec => []GapsHaveACause
<1>1. ViewerInv => GapsHaveACause
  BY DEF ViewerInv, ListInv, NoGap, GapsHaveACause
<1> QED
  BY <1>1, ViewerInvAlways, PTL
=============================================================================

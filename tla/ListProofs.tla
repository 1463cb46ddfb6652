------------------------------- MODULE ListProofs -------------------------------
(***************************************************************************)
(* What the operators of Lists return.  An order is given by the sets      *)
(* before[x] of the elements in front of x.                                *)
(***************************************************************************)
EXTENDS FiniteSetTheorems, SequenceTheorems, Lists, TLAPS

IsOrder(S, before) ==
  /\ \A x \in S : before[x] \subseteq S /\ x \notin before[x]
  /\ \A x, y \in S : x # y => x \in before[y] \/ y \in before[x]
  /\ \A x, y \in S : x \in before[y] => before[x] \subseteq before[y]

\* The places of a finite set in a strict total order are 0 .. Cardinality(S) - 1.
LEMMA PlacesAreTaken ==
  ASSUME NEW S, IsFiniteSet(S), NEW before,
         IsOrder(S, before)
  PROVE  /\ \A x, y \in S : x \in before[y]
              => Cardinality(before[x]) < Cardinality(before[y])
         /\ \A x, y \in S : Cardinality(before[x]) < Cardinality(before[y])
              => x \in before[y]
         /\ \A j \in 1 .. Cardinality(S) : \E x \in S : Cardinality(before[x]) = j - 1
<1> USE DEF IsOrder
<1> DEFINE n == Cardinality(S)
           place == [x \in S |-> Cardinality(before[x])]
<1>1. n \in Nat
  BY FS_CardinalityType
<1>2. ASSUME NEW x \in S PROVE IsFiniteSet(before[x]) /\ Cardinality(before[x]) \in 0 .. n - 1
  <2>1. before[x] \in SUBSET S /\ before[x] # S
    OBVIOUS
  <2>2. IsFiniteSet(before[x]) /\ Cardinality(before[x]) <= n /\ n # Cardinality(before[x])
    BY <2>1, FS_Subset
  <2>3. Cardinality(before[x]) \in Nat
    BY <2>2, FS_CardinalityType
  <2> QED
    BY <1>1, <2>2, <2>3
<1>3. ASSUME NEW x \in S, NEW y \in S, x \in before[y]
      PROVE  Cardinality(before[x]) < Cardinality(before[y])
  <2>1. before[x] \in SUBSET before[y] /\ before[x] # before[y]
    BY <1>3
  <2>2. IsFiniteSet(before[y])
    BY <1>2
  <2>3. Cardinality(before[x]) <= Cardinality(before[y])
          /\ Cardinality(before[y]) # Cardinality(before[x])
    BY <2>1, <2>2, FS_Subset
  <2> QED
    BY <1>1, <1>2, <2>3
<1>4. ASSUME NEW x \in S, NEW y \in S, Cardinality(before[x]) < Cardinality(before[y])
      PROVE  x \in before[y]
  <2>1. x # y /\ ~(Cardinality(before[y]) < Cardinality(before[x]))
    BY <1>1, <1>2, <1>4
  <2> QED
    BY <1>3, <2>1
<1>5. place \in Injection(S, 0 .. n - 1)
  <2>1. place \in [S -> 0 .. n - 1]
    BY <1>2
  <2>2. ASSUME NEW x \in S, NEW y \in S, place[x] = place[y] PROVE x = y
    <3>1. ~(Cardinality(before[x]) < Cardinality(before[y]))
            /\ ~(Cardinality(before[y]) < Cardinality(before[x]))
      BY <1>1, <1>2, <2>2
    <3> QED
      BY <1>3, <3>1
  <2> QED
    BY <2>1, <2>2 DEF Injection, IsInjective
<1>6. IsFiniteSet(0 .. n - 1) /\ Cardinality(0 .. n - 1) = n
  BY <1>1, FS_Interval
<1>7. place \in Surjection(S, 0 .. n - 1)
  BY <1>5, <1>6, FS_Injection
<1>8. ASSUME NEW j \in 1 .. n PROVE \E x \in S : Cardinality(before[x]) = j - 1
  <2>1. j - 1 \in 0 .. n - 1
    BY <1>1
  <2>2. \A t \in 0 .. n - 1 : \E x \in S : place[x] = t
    BY <1>7 DEF Surjection
  <2> QED
    BY <2>1, <2>2
<1> QED
  BY <1>3, <1>4, <1>8

InPlace(list, S, before) ==
  /\ list \in [1 .. Cardinality(S) -> S]
  /\ \A j \in 1 .. Cardinality(S) : Cardinality(before[list[j]]) = j - 1

Follows(list, S, before) ==
  /\ list \in Seq(S) /\ Len(list) = Cardinality(S)
  /\ \A i, j \in 1 .. Len(list) : i < j => list[i] \in before[list[j]]
  /\ \A x \in S : \E j \in 1 .. Len(list) :
       list[j] = x /\ Cardinality(before[x]) = j - 1

\* A list that puts each element at its place holds all of them, in order.
LEMMA OrderedList ==
  ASSUME NEW S, IsFiniteSet(S), NEW before, IsOrder(S, before),
         NEW list, InPlace(list, S, before)
  PROVE  Follows(list, S, before)
<1> USE DEF InPlace
<1>1. PICK n \in Nat : n = Cardinality(S)
  BY FS_CardinalityType
<1>2. list \in Seq(S) /\ Len(list) = n
  BY <1>1
<1>3. ASSUME NEW i \in 1 .. n, NEW j \in 1 .. n, i < j PROVE list[i] \in before[list[j]]
  <2>1. Cardinality(before[list[i]]) < Cardinality(before[list[j]])
    BY <1>1, <1>3
  <2> QED
    BY <1>1, <2>1, PlacesAreTaken
<1>4. ASSUME NEW x \in S
      PROVE  \E j \in 1 .. n : list[j] = x /\ Cardinality(before[x]) = j - 1
  <2>1. before[x] \in SUBSET S /\ before[x] # S
    BY DEF IsOrder
  <2>2. IsFiniteSet(before[x]) /\ Cardinality(before[x]) <= n /\ n # Cardinality(before[x])
    BY <1>1, <2>1, FS_Subset
  <2>3. Cardinality(before[x]) \in 0 .. n - 1
    BY <2>2, FS_CardinalityType
  <2>4. PICK j \in 1 .. n : Cardinality(before[x]) = j - 1
    BY <2>3
  <2>5. Cardinality(before[list[j]]) = j - 1 /\ list[j] \in S
    BY <1>1
  <2>6. x \notin before[list[j]] /\ list[j] \notin before[x]
    BY <2>3, <2>4, <2>5, PlacesAreTaken
  <2>7. list[j] = x
    BY <2>5, <2>6 DEF IsOrder
  <2> QED
    BY <2>4, <2>7
<1> QED
  BY <1>1, <1>2, <1>3, <1>4 DEF Follows

AscendsThrough(list, S) ==
  /\ list \in Seq(S) /\ Len(list) = Cardinality(S)
  /\ \A i, j \in 1 .. Len(list) : i < j => list[i] < list[j]
  /\ \A x \in S : \E j \in 1 .. Len(list) : list[j] = x

\* Numbers in ascending order.
LEMMA OrderedNumbers ==
  ASSUME NEW S, S \subseteq Nat, IsFiniteSet(S)
  PROVE  AscendsThrough(Ascending(S), S)
<1> DEFINE before == [x \in S |-> {y \in S : y < x}]
<1>1. \A x \in S : before[x] = {y \in S : y < x}
  OBVIOUS
<1> HIDE DEF before
<1>2. \A x \in S : before[x] \subseteq S /\ x \notin before[x]
  BY <1>1
<1>3. ASSUME NEW x \in S, NEW y \in S, x # y PROVE x \in before[y] \/ y \in before[x]
  <2>1. x \in Nat /\ y \in Nat
    OBVIOUS
  <2>2. x < y \/ y < x
    BY <1>3, <2>1
  <2> QED
    BY <1>1, <2>2
<1>4. ASSUME NEW x \in S, NEW y \in S, x \in before[y] PROVE before[x] \subseteq before[y]
  <2>1. ASSUME NEW z \in before[x] PROVE z \in before[y]
    <3>1. z \in S /\ z < x /\ x < y
      BY <1>1, <1>4
    <3>2. x \in Nat /\ y \in Nat /\ z \in Nat
      BY <3>1
    <3>3. z < y
      BY <3>1, <3>2
    <3> QED
      BY <1>1, <3>1, <3>3
  <2> QED
    BY <2>1
<1>5. IsOrder(S, before)
  BY <1>2, <1>3, <1>4 DEF IsOrder
<1>6. ASSUME NEW list, list = Ascending(S) PROVE InPlace(list, S, before)
  <2>1. list = [j \in 1 .. Cardinality(S) |->
                  CHOOSE x \in S : Cardinality({y \in S : y < x}) = j - 1]
    BY <1>6 DEF Ascending, Ordered
  <2>2. ASSUME NEW j \in 1 .. Cardinality(S)
        PROVE  list[j] \in S /\ Cardinality(before[list[j]]) = j - 1
    <3>1. \E x \in S : Cardinality(before[x]) = j - 1
      BY <1>5, PlacesAreTaken
    <3>2. \E x \in S : Cardinality({y \in S : y < x}) = j - 1
      BY <1>1, <3>1
    <3>3. list[j] = CHOOSE x \in S : Cardinality({y \in S : y < x}) = j - 1
      BY <2>1
    <3>4. list[j] \in S /\ Cardinality({y \in S : y < list[j]}) = j - 1
      BY <3>2, <3>3
    <3> QED
      BY <1>1, <3>4
  <2> QED
    BY <2>1, <2>2 DEF InPlace
<1>7. ASSUME NEW list, Follows(list, S, before) PROVE AscendsThrough(list, S)
  <2>1. /\ list \in Seq(S) /\ Len(list) = Cardinality(S)
        /\ \A i, j \in 1 .. Len(list) : i < j => list[i] \in before[list[j]]
        /\ \A x \in S : \E j \in 1 .. Len(list) : list[j] = x
    BY <1>7 DEF Follows
  <2>2. ASSUME NEW i \in 1 .. Len(list), NEW j \in 1 .. Len(list), i < j
        PROVE  list[i] < list[j]
    <3>1. list[j] \in S /\ list[i] \in before[list[j]]
      BY <2>1, <2>2
    <3>2. list[i] \in {y \in S : y < list[j]}
      BY <1>1, <3>1
    <3> QED
      BY <3>2
  <2> QED
    BY <2>1, <2>2 DEF AscendsThrough
<1> QED
  BY <1>5, <1>6, <1>7, OrderedList

ArePlaces(place, s, K) ==
  /\ place \in [1 .. Len(Kept(s, K)) -> 1 .. Len(s)]
  /\ \A i, j \in 1 .. Len(Kept(s, K)) : i < j => place[i] < place[j]
  /\ \A i \in 1 .. Len(Kept(s, K)) : Kept(s, K)[i] = s[place[i]]
  /\ \A p \in 1 .. Len(s) : s[p] \in K => \E i \in 1 .. Len(Kept(s, K)) : place[i] = p

\* What is kept of a list are the items at certain places of it, in ascending
\* order, and no item of K is left behind.
LEMMA KeptItems ==
  ASSUME NEW T, NEW s \in Seq(T), NEW K
  PROVE  Kept(s, K) \in Seq(T \cap K) /\ \E place : ArePlaces(place, s, K)
<1> DEFINE places == {i \in DOMAIN s : s[i] \in K}
<1>1. PICK n \in Nat : n = Len(s) /\ DOMAIN s = 1 .. n
  OBVIOUS
<1>2. places = {i \in 1 .. n : s[i] \in K} /\ IsFiniteSet(places) /\ places \subseteq Nat
  <2>1. IsFiniteSet(1 .. n) /\ places \in SUBSET (1 .. n)
    BY <1>1, FS_Interval
  <2> QED
    BY <1>1, <2>1, FS_Subset
<1>3. PICK m \in Nat : m = Cardinality(places)
  BY <1>2, FS_CardinalityType
<1>4. Kept(s, K) = [j \in 1 .. m |-> s[Ascending(places)[j]]]
  <2>1. Kept(s, K) = [j \in 1 .. Cardinality(places) |-> s[Ascending(places)[j]]]
    BY Zenon DEF Kept
  <2> QED
    BY <1>3, <2>1, Zenon
<1> HIDE DEF places
<1>5. PICK place : /\ place = Ascending(places)
                   /\ place \in Seq(places) /\ Len(place) = m
                   /\ \A i, j \in 1 .. m : i < j => place[i] < place[j]
                   /\ \A x \in places : \E j \in 1 .. m : place[j] = x
  <2>1. AscendsThrough(Ascending(places), places)
    BY <1>2, OrderedNumbers
  <2> QED
    BY <1>3, <2>1 DEF AscendsThrough
<1>6. place \in [1 .. m -> places]
  BY <1>5
<1>7. \A j \in 1 .. m : s[place[j]] \in T \cap K /\ place[j] \in 1 .. n
  BY <1>1, <1>2, <1>6
<1>8. Kept(s, K) \in Seq(T \cap K) /\ Len(Kept(s, K)) = m
  BY <1>4, <1>5, <1>7
<1>9. place \in [1 .. m -> 1 .. Len(s)]
  BY <1>1, <1>6, <1>7
<1>10. /\ \A i \in 1 .. m : Kept(s, K)[i] = s[place[i]]
       /\ \A p \in 1 .. Len(s) : s[p] \in K => \E i \in 1 .. m : place[i] = p
  <2>1. \A i \in 1 .. m : Kept(s, K)[i] = s[place[i]]
    BY <1>4, <1>5
  <2>2. \A p \in 1 .. Len(s) : s[p] \in K => p \in places
    BY <1>1, <1>2
  <2> QED
    BY <1>5, <2>1, <2>2
<1>11. ArePlaces(place, s, K)
  BY <1>5, <1>8, <1>9, <1>10 DEF ArePlaces
<1> QED
  BY <1>8, <1>11

\* The same as sets.
LEMMA KeptRange ==
  ASSUME NEW T, NEW s \in Seq(T), NEW K
  PROVE  Range(Kept(s, K)) = Range(s) \cap K
<1>1. PICK place : ArePlaces(place, s, K)
  BY KeptItems
<1>2. Kept(s, K) \in Seq(T \cap K)
  BY KeptItems
<1>3. Range(s) = {s[p] : p \in 1 .. Len(s)}
  BY RangeEquality
<1>4. Range(Kept(s, K)) = {Kept(s, K)[i] : i \in 1 .. Len(Kept(s, K))}
  BY <1>2, RangeEquality
<1>5. ASSUME NEW x \in Range(Kept(s, K)) PROVE x \in Range(s) \cap K
  <2>1. PICK i \in 1 .. Len(Kept(s, K)) : x = Kept(s, K)[i]
    BY <1>4
  <2> QED
    BY <1>1, <1>2, <1>3, <2>1 DEF ArePlaces
<1>6. ASSUME NEW x \in Range(s) \cap K PROVE x \in Range(Kept(s, K))
  <2>1. PICK p \in 1 .. Len(s) : x = s[p]
    BY <1>3
  <2>2. PICK i \in 1 .. Len(Kept(s, K)) : place[i] = p
    BY <1>1, <2>1 DEF ArePlaces
  <2> QED
    BY <1>1, <1>4, <2>1, <2>2 DEF ArePlaces
<1> QED
  BY <1>5, <1>6

\* A list without repetitions stays one.
LEMMA KeptInjective ==
  ASSUME NEW T, NEW s \in Seq(T), NEW K, IsInjective(s)
  PROVE  IsInjective(Kept(s, K))
<1>1. PICK place : ArePlaces(place, s, K)
  BY KeptItems
<1>2. Kept(s, K) \in Seq(T \cap K) /\ DOMAIN s = 1 .. Len(s)
  BY KeptItems
<1>3. DOMAIN Kept(s, K) = 1 .. Len(Kept(s, K)) /\ Len(Kept(s, K)) \in Nat
  BY <1>2
<1>4. ASSUME NEW i \in 1 .. Len(Kept(s, K)), NEW j \in 1 .. Len(Kept(s, K)),
             Kept(s, K)[i] = Kept(s, K)[j]
      PROVE  i = j
  <2>1. place[i] = place[j]
    BY <1>1, <1>2, <1>4 DEF IsInjective, ArePlaces
  <2>2. ~(i < j) /\ ~(j < i)
    BY <1>1, <2>1 DEF ArePlaces
  <2> QED
    BY <1>3, <2>2
<1> QED
  BY <1>3, <1>4 DEF IsInjective

\* Nor does it repeat anything when its front is cut off.
LEMMA CutFront ==
  ASSUME NEW T, NEW s \in Seq(T), IsInjective(s), NEW m \in 0 .. Len(s),
         NEW t, t = SubSeq(s, m + 1, Len(s))
  PROVE  t \in Seq(T) /\ Len(t) = Len(s) - m /\ IsInjective(t)
<1>1. /\ t \in Seq(T) /\ Len(t) = Len(s) - m
      /\ \A i \in 1 .. Len(t) : t[i] = s[m + i] /\ m + i \in 1 .. Len(s)
  OBVIOUS
<1>2. DOMAIN t = 1 .. Len(t) /\ DOMAIN s = 1 .. Len(s)
  BY <1>1
<1>3. ASSUME NEW i \in 1 .. Len(t), NEW j \in 1 .. Len(t), t[i] = t[j] PROVE i = j
  <2>1. PICK p \in 1 .. Len(s) : p = m + i
    BY <1>1
  <2>2. PICK q \in 1 .. Len(s) : q = m + j
    BY <1>1
  <2>3. s[p] = s[q]
    BY <1>1, <1>3, <2>1, <2>2
  <2>4. p = q
    BY <1>2, <2>3 DEF IsInjective
  <2>5. i \in Nat /\ j \in Nat /\ m \in Nat
    OBVIOUS
  <2> QED
    BY <2>1, <2>2, <2>4, <2>5
<1> QED
  BY <1>1, <1>2, <1>3 DEF IsInjective

\* An item that is not in the list yet may be appended.
LEMMA AppendInjectively ==
  ASSUME NEW T, NEW s \in Seq(T), IsInjective(s), NEW x \in T,
         \A i \in 1 .. Len(s) : s[i] # x
  PROVE  Append(s, x) \in Seq(T) /\ IsInjective(Append(s, x))
<1> DEFINE t == Append(s, x)
<1>1. /\ t \in Seq(T) /\ Len(t) = Len(s) + 1 /\ t[Len(s) + 1] = x
      /\ \A i \in 1 .. Len(s) : t[i] = s[i]
  OBVIOUS
<1>2. DOMAIN t = 1 .. Len(s) + 1 /\ DOMAIN s = 1 .. Len(s) /\ Len(s) \in Nat
  BY <1>1
<1> HIDE DEF t
<1>3. ASSUME NEW i \in 1 .. Len(s) + 1, NEW j \in 1 .. Len(s) + 1, t[i] = t[j] PROVE i = j
  <2>1. (i \in 1 .. Len(s) \/ i = Len(s) + 1) /\ (j \in 1 .. Len(s) \/ j = Len(s) + 1)
    BY <1>2
  <2> QED
    BY <1>1, <1>2, <1>3, <2>1 DEF IsInjective
<1>4. IsInjective(t)
  BY <1>2, <1>3 DEF IsInjective
<1> QED
  BY <1>1, <1>4 DEF t
=============================================================================

--------------------------------- MODULE Lists ---------------------------------
(***************************************************************************)
(* Two ways the program makes a list: ORDER BY, which every query that     *)
(* returns rows ends with, and filter or retain, which keep some of the    *)
(* items of a list in their order.  Both are defined by the place an item  *)
(* gets: the number of those before it.                                    *)
(***************************************************************************)
EXTENDS Naturals, FiniteSets, Sequences

\* The elements of the finite set S in the order Before, strict and total on S.
Ordered(S, Before(_, _)) ==
  [j \in 1 .. Cardinality(S) |->
     CHOOSE x \in S : Cardinality({y \in S : Before(y, x)}) = j - 1]

Ascending(S) == Ordered(S, <)

\* The items of the list s that are in K.
Kept(s, K) ==
  LET places == {i \in DOMAIN s : s[i] \in K}
      place == Ascending(places)
  IN  [j \in 1 .. Cardinality(places) |-> s[place[j]]]
=============================================================================

----------------------------- MODULE AtLeastOnce -----------------------------
(***************************************************************************)
(* What a batching forwarder promises, without any of its machinery.       *)
(*                                                                         *)
(* Items are accepted in some order.  They are handed to the store in that *)
(* order, in runs that always begin right behind the confirmed prefix, and *)
(* a run the store confirms extends that prefix.  A run the store took but *)
(* did not confirm may be taken again, so an item can be stored twice but  *)
(* never skipped, and never before the items accepted ahead of it.         *)
(***************************************************************************)
EXTENDS Naturals, Sequences

CONSTANT Item  \* what is delivered

VARIABLES
  accepted,   \* every item taken in, in order
  stored,     \* every item written to the store, in order, with repetitions
  confirmed   \* length of the prefix of accepted the store has confirmed

deliveryVars == <<accepted, stored, confirmed>>

Init == accepted = <<>> /\ stored = <<>> /\ confirmed = 0

\* One more item is taken in.
Accept ==
  /\ \E item \in Item : accepted' = Append(accepted, item)
  /\ UNCHANGED <<stored, confirmed>>

\* The store takes the items confirmed+1 .. n; the confirmation may be lost.
Deliver(n) ==
  /\ stored' = stored \o SubSeq(accepted, confirmed + 1, n)
  /\ confirmed' \in {confirmed, n}
  /\ UNCHANGED accepted

Next == Accept \/ \E n \in confirmed + 1 .. Len(accepted) : Deliver(n)

Spec == Init /\ [][Next]_deliveryVars
=============================================================================

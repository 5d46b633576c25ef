---------------------------- MODULE Subsequences ----------------------------
(***************************************************************************)
(* What a loop keeps of a list when it skips some of its elements: those   *)
(* at certain places, in the order of the list.                            *)
(***************************************************************************)
EXTENDS Naturals, FiniteSets

\* The k-th smallest of a set of places.
NthOf(places, k) == CHOOSE i \in places : Cardinality({j \in places : j < i}) = k - 1

ElementsAt(s, places) == [k \in 1 .. Cardinality(places) |-> s[NthOf(places, k)]]
=============================================================================

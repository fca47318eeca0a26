------------------------------- MODULE Lists -------------------------------
(***************************************************************************)
(* Sorting and selecting, by the rank of each element: the order of a      *)
(* finite set is a set of pairs that is a strict total order on it.        *)
(* (SortSeq and SelectSeq say the same, but have no definition that TLAPS  *)
(* can expand.)                                                            *)
(***************************************************************************)
EXTENDS Integers, Sequences, FiniteSets

\* The elements of S that come before x.
Earlier(S, R, x) == {y \in S : <<y, x>> \in R}

\* The elements of S in the order R.
Sorted(S, R) ==
  LET ranked == {<<Cardinality(Earlier(S, R, x)), x>> : x \in S}
  IN [n \in 1..Cardinality(S) |-> (CHOOSE r \in ranked : r[1] = n - 1)[2]]

\* Places in a sequence, from the front.
Forward(places) == {p \in places \X places : p[1] < p[2]}

\* The elements of s at these places, in the order R of the places.
ElementsAt(s, places, R) ==
  LET order == Sorted(places, R) IN [n \in 1..Cardinality(places) |-> s[order[n]]]

\* The elements of s at these places, in their order in s.
Selected(s, places) == ElementsAt(s, places, Forward(places))
=============================================================================

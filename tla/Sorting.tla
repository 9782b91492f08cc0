------------------------------- MODULE Sorting -------------------------------
(***************************************************************************)
(* Sets as sequences, and parts of sequences: what SetToSortSeq and        *)
(* SelectSeq do, but by counting.  An order is given as a set of pairs and *)
(* a selection as a set of positions, so that the theorems about them need *)
(* neither an operator as a parameter nor an induction.                    *)
(***************************************************************************)
EXTENDS Integers, FiniteSets

\* The elements of the finite set S in the order R, the first one first.
Sorted(S, R) ==
  [n \in 1..Cardinality(S) |->
     CHOOSE x \in S : Cardinality({y \in S : <<y, x>> \in R}) = n - 1]

Ascending(S) == Sorted(S, {p \in S \X S : p[1] < p[2]})

\* The elements of the sequence s at the positions in I.
At(s, I) == [n \in 1..Cardinality(I) |-> s[Ascending(I)[n]]]
==============================================================================

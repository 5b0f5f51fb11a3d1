------------------------------ MODULE Sublists ------------------------------
(***************************************************************************)
(* The part of a list that a filter keeps: Python's [x for x in s if ...]  *)
(* and JavaScript's s.filter(...).  The filter is given as the set of the  *)
(* positions it keeps.  SelectSeq computes the same, but its definition is *)
(* recursive, and Sublists_proofs has to reason about what is kept.        *)
(***************************************************************************)
EXTENDS Naturals, Sequences, FiniteSets

\* The place of position i among the positions P, and the n-th of them.
Rank(P, i) == Cardinality({j \in P : j <= i})
Nth(P, n) == CHOOSE i \in P : Rank(P, i) = n

\* The elements of s at the positions P, in their order.
At(s, P) == [n \in 1 .. Cardinality(P) |-> s[Nth(P, n)]]
=============================================================================

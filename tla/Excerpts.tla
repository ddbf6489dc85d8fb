------------------------------- MODULE Excerpts -------------------------------
(***************************************************************************)
(* A set of numbers in order, and the elements of a sequence at some of    *)
(* its positions, in their order: what a filter of a list keeps.  Both are *)
(* defined by counting, which a proof can follow.                          *)
(***************************************************************************)
EXTENDS Integers, Sequences, FiniteSets

Nth(D, n) == CHOOSE i \in D : Cardinality({j \in D : j < i}) = n - 1

Excerpt(s, D) == [n \in 1..Cardinality(D) |-> s[Nth(D, n)]]
=============================================================================

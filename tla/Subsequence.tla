---------------------------- MODULE Subsequence -----------------------------
(***************************************************************************)
(* The filter of an iterator: what a Vec retains, in its order.  It is     *)
(* written by positions, so that no operator is a parameter.               *)
(***************************************************************************)
EXTENDS Naturals, FiniteSets

\* The elements of a sequence at the positions I, in their order.
Nth(I, k)     == CHOOSE i \in I : Cardinality({j \in I : j =< i}) = k
Keeping(s, I) == [k \in 1 .. Cardinality(I) |-> s[Nth(I, k)]]
=============================================================================

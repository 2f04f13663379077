---------------------------- MODULE Subsequences ----------------------------
(***************************************************************************)
(* What a comprehension over a list keeps: the elements at some of its     *)
(* positions, in their order.  SelectSeq says the same of a test on the    *)
(* elements; here the positions are a set, which a proof can reason about. *)
(***************************************************************************)
EXTENDS Integers, Sequences, FiniteSets

\* The kth smallest position in I.
Nth(I, k) == CHOOSE i \in I : Cardinality({j \in I : j <= i}) = k

\* [s[i] for i in I]
Subsequence(s, I) == [k \in 1 .. Cardinality(I) |-> s[Nth(I, k)]]
=============================================================================

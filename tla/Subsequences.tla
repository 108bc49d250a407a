---------------------------- MODULE Subsequences ------------------------------
(***************************************************************************)
(* What is left of a list when some of its elements are filtered out, as a *)
(* function of the positions that stay: SelectSeq without its recursion,   *)
(* which the provers know nothing about.                                   *)
(***************************************************************************)
EXTENDS Integers, Sequences, FiniteSets

(* The k-th of the positions in I. *)
Nth(I, k) == CHOOSE i \in I : Cardinality({j \in I : j <= i}) = k

(* The elements of s at the positions in I, in their order. *)
Pick(s, I) == [k \in 1 .. Cardinality(I) |-> s[Nth(I, k)]]

(* e is somewhere before f in s. *)
Before(s, e, f) == \E i, j \in DOMAIN s : i < j /\ s[i] = e /\ s[j] = f
=============================================================================

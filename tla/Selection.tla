----------------------------- MODULE Selection -----------------------------
(***************************************************************************)
(* Subsequences, for the loops that pass over some elements of a list.     *)
(* SelectSeq, but defined by counting instead of by recursion, so that what *)
(* it gives can be proved.                                                 *)
(***************************************************************************)
EXTENDS Integers, FiniteSets

(* The place of i among the numbers in K, and the n-th of them.            *)
Rank(K, i) == Cardinality({j \in K : j <= i})
Nth(K, n) == CHOOSE i \in K : Rank(K, i) = n

(* The elements of s at the places in K, in their order.                   *)
Selected(s, K) == [n \in 1 .. Cardinality(K) |-> s[Nth(K, n)]]

=============================================================================

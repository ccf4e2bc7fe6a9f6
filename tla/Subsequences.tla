---------------------------- MODULE Subsequences ----------------------------
(***************************************************************************)
(* What Array.filter leaves of a list: its entries at some positions, in   *)
(* their order.  Written by position, without recursion, so that it can be *)
(* reasoned about.                                                         *)
(***************************************************************************)
EXTENDS Integers, FiniteSets, Sequences

Place(P, i) == Cardinality({j \in P : j <= i})
Nth(P, k) == CHOOSE i \in P : Place(P, i) = k
At(s, P) == [k \in 1..Cardinality(P) |-> s[Nth(P, k)]]
=============================================================================

----------------------------- MODULE MCDelivery -----------------------------
(* The instances of Delivery that are checked: who sends which message. *)
EXTENDS Delivery, TLC
CONSTANTS a, b, m1, m2, m3

\* a sends two messages, b one.
TwoAuthors == m1 :> a @@ m2 :> a @@ m3 :> b
=============================================================================

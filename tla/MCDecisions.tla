---------------------------- MODULE MCDecisions ----------------------------
(* Instances of Decisions for model checking: the host, a person and the    *)
(* agent this person operates, with a device each.                          *)
EXTENDS Decisions, TLC
CONSTANTS h, p, a, dh, dp, da, o1, o2, o3
Owners == dh :> h @@ dp :> p @@ da :> a
Operators == a :> p
\* How often each kind of thing happens: opened once, on a page or by a bridge.
Plan(on, vote, option, end, leave, deadline) ==
    [k \in Kinds |-> CASE k = "page" -> IF on = "page" THEN 1 ELSE 0
                       [] k = "bridge" -> IF on = "bridge" THEN 1 ELSE 0
                       [] k = "vote" -> vote [] k = "option" -> option
                       [] k = "end" -> end [] k = "leave" -> leave
                       [] k = "reload" -> IF on = "page" THEN 1 ELSE 0
                       [] k = "deadline" -> deadline]
AllPlans ==
    {Plan("bridge", 3, 0, 0, 0, 0), Plan("bridge", 2, 0, 0, 0, 1), Plan("bridge", 1, 0, 1, 0, 1),
     Plan("bridge", 0, 0, 2, 0, 1), Plan("bridge", 0, 1, 1, 0, 0), Plan("bridge", 1, 0, 1, 1, 0),
     Plan("page", 2, 0, 0, 0, 0), Plan("page", 1, 0, 1, 0, 0), Plan("page", 0, 0, 1, 1, 0)}
LateVote == {Plan("page", 2, 0, 0, 0, 1)}
=============================================================================

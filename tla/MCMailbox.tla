----------------------------- MODULE MCMailbox -----------------------------
(* Instances of Mailbox for model checking: two live listeners, two items. *)
EXTENDS Mailbox, TLC
CONSTANTS l1, l2
AllListeners == {l1, l2}
Nobody == {}
=============================================================================

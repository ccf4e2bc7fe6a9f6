-------------------------------- MODULE Mutex --------------------------------
(***************************************************************************)
(* What a lock promises its processes: it is had by one at a time.         *)
(***************************************************************************)
CONSTANT Process
VARIABLE holders

Init == holders = {}
Take(p) == holders = {} /\ holders' = {p}
Leave(p) == holders = {p} /\ holders' = {}
Next == \E p \in Process : Take(p) \/ Leave(p)
Spec == Init /\ [][Next]_holders
=============================================================================

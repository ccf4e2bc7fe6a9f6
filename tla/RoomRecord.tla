----------------------------- MODULE RoomRecord -----------------------------
(***************************************************************************)
(* What one browser promises about the history it stores of a room,        *)
(* however many of its tabs come and go: messages are stored one at a      *)
(* time, none is ever overwritten by an older copy, and a storage receipt  *)
(* is sent to the author only for a message already stored.  (Eviction by  *)
(* the rolling window is left out: a window that never fills.)             *)
(***************************************************************************)
CONSTANT Message
VARIABLES
  stored,  \* messages in the browser's database
  acked    \* messages whose author was told that they are stored

Init == stored = {} /\ acked = {}

Store(m) ==
  /\ m \notin stored
  /\ stored' = stored \cup {m}
  /\ UNCHANGED acked

Confirm(m) ==
  /\ m \in stored
  /\ acked' = acked \cup {m}
  /\ UNCHANGED stored

Next == \E m \in Message : Store(m) \/ Confirm(m)

Spec == Init /\ [][Next]_<<stored, acked>>
=============================================================================

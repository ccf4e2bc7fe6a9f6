------------------------------ MODULE MCSafety ------------------------------
(***************************************************************************)
(* The instances that are checked for safety only: the owner of a room's   *)
(* connection in a browser, commands sent again, what the devices of a     *)
(* room keep, what an agent is told, a lock file, and the parts of the     *)
(* desktop app (MCDesktop).  They share no state, so a behaviour runs one  *)
(* of them and leaves the others at their start.                           *)
(***************************************************************************)
EXTENDS RoomOwner, Locks, MCDesktop, TLC
CONSTANTS
  Setting, Window, Keep, Skew, Uses, CreateLimit, MaxTime, MaxIds, MaxNet,
  Device, Assignee, CompactAt, KeptTail, Jump, MaxOps,
  Mine, Others, Reacted, Cap, MaxPending, MaxRev,
  File, Holder, Size, Parallel, Slots, Buffer, MaxTrouble,
  Stream, RecentOps, MaxMessages, MaxChanges, MaxListens

VARIABLES
  now, call, pending, wanted, ids, net, reply, receipts, room, remaining, charged, log,
  ops, learned, late,
  messages, evicted, reactionOps, pendingReactions,
  open, capable, item, verifying, fetched, distrusted, ask, give, uploads, spoiled, trouble,
  last, addressed, changes, counter, asked, cursor, phase, plan, history, newest, given, told, torn, listens

Com == INSTANCE Commands
Boa == INSTANCE Board WITH seen <- learned, Tail <- KeptTail
Rea == INSTANCE Reactions WITH
  Message <- Reacted, log <- reactionOps, pending <- pendingReactions
Fil == INSTANCE Files WITH stored <- fetched
Lis == INSTANCE Listen WITH Window <- RecentOps

commands == <<now, call, pending, wanted, ids, net, reply, receipts, room, remaining, charged, log>>
board == <<ops, learned, late>>
reactions == <<messages, evicted, reactionOps, pendingReactions>>
transfers == <<open, capable, item, verifying, fetched, distrusted, ask, give, uploads, spoiled, trouble>>
listening == <<last, addressed, changes, counter, asked, cursor, phase, plan, history, newest, given,
               told, torn, listens>>

SafetyInit ==
  /\ part \in {"tabs", "commands", "board", "reactions", "files", "listen", "locks",
             "approvals", "wakes", "identities", "person", "page", "notices", "nodes"}
  /\ DesktopInit /\ Init /\ LocksInit /\ Com!Init /\ Boa!Init /\ Rea!Init /\ Fil!Init /\ Lis!Init
  /\ part # "commands" => wanted

SafetyNext ==
  \/ DesktopNext /\ UNCHANGED <<vars, locking, commands, board, reactions, transfers, listening>>
  \/ /\ UNCHANGED <<part, desktop>>
     /\ \/ /\ part = "tabs" /\ Next
           /\ UNCHANGED <<locking, commands, board, reactions, transfers, listening>>
        \/ /\ part = "locks" /\ LocksNext
           /\ UNCHANGED <<vars, commands, board, reactions, transfers, listening>>
        \/ /\ part = "commands" /\ Com!Next
           /\ UNCHANGED <<vars, locking, board, reactions, transfers, listening>>
        \/ /\ part = "board" /\ Boa!Next
           /\ UNCHANGED <<vars, locking, commands, reactions, transfers, listening>>
        \/ /\ part = "reactions" /\ Rea!Next
           /\ UNCHANGED <<vars, locking, commands, board, transfers, listening>>
        \/ /\ part = "files" /\ Fil!Next
           /\ UNCHANGED <<vars, locking, commands, board, reactions, listening>>
        \/ /\ part = "listen" /\ Lis!Next
           /\ UNCHANGED <<vars, locking, commands, board, reactions, transfers>>

SafetySpec ==
  SafetyInit /\ [][SafetyNext]_<<part, vars, locking, commands, board, reactions, transfers,
                                  listening, desktop>>

\* A command happens once, whatever is lost, late or sent again.
CommandsOnce == part = "commands" => Com!CommandsOnce
\* Tasks look the same on every device, whatever was dropped; a device keeps no
\* more of a member's reactions than the cap; and of those who sent a file only
\* who sent wrong bytes is distrusted, and places are respected.
DevicesSound ==
  /\ part = "board" => Boa!BoardsAgree
  /\ part = "reactions" => Rea!CapHolds
  /\ part = "files" => Fil!FilesSound
\* No listen moves past something for the agent that none returned.
NothingSkipped == part = "listen" => Lis!NothingSkipped
=============================================================================

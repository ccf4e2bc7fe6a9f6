------------------------------ MODULE MCLobby ------------------------------
(***************************************************************************)
(* Lobby on a small room.  A behaviour runs one of three instances: a room *)
(* whose members may have two devices and two agents each, with a link or  *)
(* a request of a kind open at a time; a crowd at the door of a room that  *)
(* gives each member one of everything, with more links and requests open  *)
(* than that, a third name, and time that runs out on them; or a network   *)
(* that may have one request waiting, whatever a kind may.                 *)
(***************************************************************************)
EXTENDS Lobby, TLC
CONSTANTS m1, n3
VARIABLE part

\* The host is m1 and stays so; the others, the devices and the names that the
\* first two instances have are interchangeable.
Common == Name \ {n3}
Symmetric ==
  Permutations(Device) \cup Permutations(Member \ {m1}) \cup Permutations(Common)

Few == INSTANCE Lobby WITH Address <- {}, Name <- Common
Crowd == INSTANCE Lobby WITH
  Address <- {}, DevicesPerMember <- 1, AgentsPerOperator <- 1,
  InvitesPerPerson <- 2, WaitingPerKind <- 2, MaxClock <- 1
Net == INSTANCE Lobby WITH
  Name <- {n3}, DevicesPerMember <- 1, AgentsPerOperator <- 1, WaitingPerKind <- 2

DoorInit ==
  /\ \/ part = "room" /\ Few!Init
     \/ part = "crowd" /\ Crowd!Init /\ \A x \in members : x.name = n3
     \/ part = "network" /\ Net!Init
  /\ ownerId = m1
DoorNext ==
  /\ UNCHANGED part
  /\ \/ part = "room" /\ Few!Next
     \/ part = "crowd" /\ Crowd!Next
     \/ part = "network" /\ Net!Next
DoorSpec == DoorInit /\ [][DoorNext]_<<part, vars>>

\* Nobody's share is exceeded (SharesHold), at the limits of each instance: what
\* is checked when a link is made still holds when it is redeemed.
SharesKept ==
  /\ part = "room" => Few!SharesHold
  /\ part = "crowd" => Crowd!SharesHold
  /\ part = "network" => Net!SharesHold
=============================================================================

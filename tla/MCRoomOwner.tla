---------------------------- MODULE MCRoomOwner ----------------------------
(* The instance of RoomOwner with tabs that do not answer in time: see the *)
(* configuration RoomOwnerFrozen.                                          *)
EXTENDS RoomOwner
=============================================================================

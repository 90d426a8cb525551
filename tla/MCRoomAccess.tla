----------------------------- MODULE MCRoomAccess -----------------------------
(***************************************************************************)
(* Instances of RoomAccess for TLC: those of MeetGateway's for its rooms.  *)
(***************************************************************************)
EXTENDS RoomAccess, MCMeetGateway
=============================================================================

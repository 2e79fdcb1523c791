----------------------------- MODULE MCIceCall -----------------------------
(* Instances of IceCall. *)
EXTENDS IceCall, TLC

CONSTANTS k1, v1, v2

AllTypes == {"User", "ChatRoom", "ChatRoomFactory", "ChatServer"}
=============================================================================

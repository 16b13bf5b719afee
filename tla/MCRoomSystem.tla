------------------------------ MODULE MCRoomSystem ------------------------------
(* Small instances of RoomSystem: one spotter and one driver, or one of them   *)
(* alone.                                                                      *)
EXTENDS RoomSystem

Pair       == {"spotter", "driver"}
OneDriver  == {"driver"}

\* A client is named after its role.
OwnRole == [c \in Clients |-> c]
================================================================================

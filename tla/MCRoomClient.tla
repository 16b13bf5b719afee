------------------------------ MODULE MCRoomClient ------------------------------
(* Small instances of RoomClient.                                              *)
EXTENDS RoomClient, TLC

\* Sockets are interchangeable, and so are rooms.
LinkSymmetry == Permutations(Slots) \union Permutations(Urls)
================================================================================

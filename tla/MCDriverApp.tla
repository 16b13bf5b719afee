------------------------------- MODULE MCDriverApp -------------------------------
(* Small instances of DriverApp.                                               *)
EXTENDS DriverApp, TLC

\* No room is told apart from another.
RoomSymmetry == Permutations(RoomCodes)
================================================================================

------------------------------ MODULE MCSpotterApp ------------------------------
(* Small instances of SpotterApp.                                              *)
EXTENDS SpotterApp, TLC

\* Sockets, rooms and rows are interchangeable.
PageSymmetry == Permutations(Slots) \union Permutations(Rooms) \union Permutations(Rows)
================================================================================

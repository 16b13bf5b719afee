------------------------------- MODULE MCRaceRoom -------------------------------
(* Small instances of RaceRoom: the open room, rooms with a PIN, and the car  *)
(* reports that meet both ends of the scale.                                  *)
EXTENDS RaceRoom, TLC

\* Socket slots are interchangeable.
SocketSymmetry == Permutations(Sockets)

SpotterUrl == [role |-> "spotter", token |-> Null]
DriverUrl  == [role |-> "driver", token |-> Null]

\* The open room: nobody brings a PIN.
OpenUrls == {SpotterUrl, DriverUrl}

\* Somebody brings the PIN, somebody a malformed one, and one URL has no role.
PinUrls ==
       {[url EXCEPT !.token = token] : url \in OpenUrls, token \in Pins}
  \union {DriverUrl, [SpotterUrl EXCEPT !.token = BadPin], [role |-> Null, token |-> Null]}

NoReports == {}

\* One car left, and the same triple again once rounded (0.5 rounds up to 1) and
\* clamped.
SomeReports ==
  {[left |-> 2, mid |-> 0, right |-> 0],
   [left |-> 1, mid |-> 0, right |-> -2]}
================================================================================

------------------------------- MODULE WatchedRoom -------------------------------
(* What the relay and its clients promise together: there is one room, it only *)
(* goes forward, and a watcher is shown states that were the room's, never an  *)
(* older one after a newer one - whatever sockets, replays and restarts are    *)
(* behind it.  A watcher may lag behind and may miss states: every frame holds *)
(* the whole state.  This is one lifetime of a room: it does not expire.       *)
EXTENDS Naturals

CONSTANTS Null, Watchers

VARIABLES room,      \* the room's state; only its seq is looked at
          underway,  \* the states a watcher may still be shown
          shown      \* what each watcher was shown last, Null before the first

watched == <<room, underway, shown>>

RoomOpens ==
  /\ underway \subseteq {room}
  /\ shown = [w \in Watchers |-> Null]

\* Nothing but the new state can be sent from now on.
RoomChanges ==
  /\ room'.seq > room.seq
  /\ underway' \subseteq underway \union {room'}
  /\ UNCHANGED shown

\* A frame arrives.  A replay may show the same state again.
WatcherSees(w) ==
  \E state \in underway :
    /\ shown[w] = Null \/ state = shown[w] \/ state.seq > shown[w].seq
    /\ shown' = [shown EXCEPT ![w] = state]
    /\ underway' \subseteq underway
    /\ UNCHANGED room

\* The current state is sent again, or frames are lost with their connection.
FramesComeAndGo ==
  /\ underway' \subseteq underway \union {room}
  /\ UNCHANGED <<room, shown>>

WatchNext ==
  \/ RoomChanges
  \/ \E w \in Watchers : WatcherSees(w)
  \/ FramesComeAndGo

WatchSpec == RoomOpens /\ [][WatchNext]_watched
================================================================================

------------------------------ MODULE ClientView ------------------------------
(* What an app sees of its client (packages/protocol/src/client.ts): the       *)
(* connection state its listeners are told, whether a session has replayed the *)
(* room, which decides whether an ack is sent or dropped, how long ago a frame *)
(* was heard, and whether the client will try again by itself.  RoomClient     *)
(* implements it; the driver's app is modelled on top of it.                   *)
EXTENDS Naturals

CONSTANTS Null,
          HeardMax     \* ages are not told apart beyond it

ASSUME ViewAssumption == HeardMax \in Nat /\ Null \notin Nat

VARIABLE view

Views == [status   : {"connecting", "open", "closed"},
          replayed : BOOLEAN,
          heard    : 0 .. HeardMax \union {Null},   \* now - lastFrameAt
          retry    : BOOLEAN]

NoSession == [status |-> "closed", replayed |-> FALSE, heard |-> Null, retry |-> FALSE]

\* A socket is created: nothing was heard on it yet.  An earlier one is dropped.
Connecting(v) ==
  [status |-> "connecting", replayed |-> FALSE, heard |-> Null, retry |-> FALSE]

Opened(v) == [v EXCEPT !.status = "open"]

\* Any frame counts as heard.
Heard(v) == [v EXCEPT !.heard = 0]

\* A new state: the listeners are told first, and the session is replayed after.
Replayed(v) == [v EXCEPT !.heard = 0, !.replayed = TRUE]

\* A close that is not terminal keeps lastFrameAt, a dropped socket does not.
Dropped(v) ==
  {[status |-> "closed", replayed |-> FALSE, heard |-> heard, retry |-> TRUE] :
     heard \in {v.heard, Null}}

\* One tick of the clock.
Aged(v) ==
  [v EXCEPT !.heard = IF @ = Null \/ @ = HeardMax THEN @ ELSE @ + 1]

\* The socket ends: by itself, by a terminal close, or because the app leaves.
Ends ==
  \/ view.status # "closed" /\ view' \in Dropped(view)
  \/ view' = NoSession

ViewInit == view = NoSession

ViewNext ==
  \/ view' = Connecting(view)
  \/ view.status = "connecting" /\ view' = Opened(view)
  \/ view.status = "open" /\ view' \in {Heard(view), Replayed(view)}
  \/ Ends
  \/ view' = Aged(view)

ViewSpec == ViewInit /\ [][ViewNext]_view
================================================================================

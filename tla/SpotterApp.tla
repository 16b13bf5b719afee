------------------------------- MODULE SpotterApp -------------------------------
(* The spotter's page (apps/spotter/src/main.ts, intents.ts, model.ts) around  *)
(* the client of RoomClient: the join form, the console, car rows that wait    *)
(* for a replay, optimistic faders, the finger on a fader, hiding and coming   *)
(* back, and the one retry after a collision of room codes.  Each handler of   *)
(* the page is one action, with the calls it makes to the client.              *)
(*                                                                             *)
(* A room's url is the join form itself, so Urls is Forms.  The PIN is not     *)
(* told apart: the relay may refuse any of them.  Only the cars of a room's    *)
(* state are kept; the relay may report any triple.                            *)
EXTENDS RoomClient

CONSTANTS Rooms, Names, Rows, Levels,
          MaxTouches,      \* bound of the spotter's gestures
          Drags            \* whether fingers rest on a fader, or only keys are used

Forms == [room : Rooms, name : Names]

ASSUME SpotterAssumption ==
  /\ Urls = Forms
  /\ Null \notin Rooms \union Rows \union Levels \union [Rows -> Levels]
  /\ 0 \in Levels
  /\ MaxTouches \in Nat
  /\ Drags \in BOOLEAN

VARIABLES app,      \* the page: Model and the variables of main.ts
          touches   \* how many gestures the spotter has made

spotterVars == <<link, calls, faults, app, touches>>

Triples == [Rows -> Levels]
NoCars == [r \in Rows |-> 0]

\* triple is history: the last triple handed to the client in this session.
Pages ==
  [screen    : {"loading", "join", "console"},
   joinMode  : {"new", "existing"},
   hidden    : BOOLEAN,
   form      : Forms,
   client    : Names,                              \* the name the client says hello with
   conn      : {"connecting", "open", "closed"},
   shown     : [room : Rooms, cars : Triples] \union {Null},   \* model.state
   replayed  : BOOLEAN,
   pending   : [Rows -> Levels \union {Null}],     \* pendingCarRows
   optimistic : Triples \union {Null},             \* optimisticCars, in its window
   drag      : [row : Rows, base : Triples, level : Levels] \union {Null},
   retry     : BOOLEAN,                            \* collisionRetry
   triple    : Triples \union {Null}]

NothingPending == [r \in Rows |-> Null]
--------------------------------------------------------------------------------
(* intents.ts and model.ts.                                                    *)

WithRow(cars, row, level) == [cars EXCEPT ![row] = level]

\* selectedCars: the finger, then the triple just sent, then the room.
SelectedCars(a) ==
  IF a.drag # Null THEN WithRow(a.drag.base, a.drag.row, a.drag.level)
  ELSE IF a.optimistic # Null THEN a.optimistic
  ELSE IF a.shown = Null THEN NoCars ELSE a.shown.cars

\* Seeded fault: rows that were not touched are left out.
RebasedAlone(cars, pending) == pending

\* rebaseCars before the comparison with what the room holds.
Rebased(cars, pending) ==
  [r \in Rows |-> IF pending[r] = Null THEN cars[r] ELSE pending[r]]

--------------------------------------------------------------------------------
(* main.ts.                                                                    *)

\* A session that ends takes what was known of the room with it.
SessionOver(a) ==
  IF a.replayed THEN [a EXCEPT !.replayed = FALSE, !.triple = Null] ELSE a

\* Seeded fault: the page goes on as if the session were replayed.
ToldStatusOnly(a, l) == IF l.status = link.status THEN a ELSE [a EXCEPT !.conn = l.status]
\* client.onConnection, non-terminal: told only when the status changes.
Told(a, l) ==
  IF l.status = link.status THEN a ELSE [SessionOver(a) EXCEPT !.conn = l.status]

\* connectTo
Entered(a, form) ==
  [a EXCEPT !.pending = NothingPending, !.form = form, !.screen = "console",
            !.shown = Null, !.triple = Null]

EnterRoom(a, form) ==
  \E slot \in Free(link) :
    /\ link' = Connect(link, form, slot)
    /\ app' = Told(Entered(a, form), link')

\* Seeded fault: a gesture sends its triple twice.
SendCarsTwice(a, next, row) ==
  /\ Call
  /\ link' = IF a.replayed THEN Send(Send(link, Issued("cars")), Issued("cars")) ELSE link
  /\ app' = [a EXCEPT !.optimistic = next]

\* sendCars
SendCars(a, next, row) ==
  LET touched == [a EXCEPT !.optimistic = next]
  IN  IF a.replayed
      THEN /\ Call
           /\ link' = Send(link, Issued("cars"))
           /\ app' = [touched EXCEPT !.triple = next]
      ELSE /\ app' = [touched EXCEPT !.pending[row] = next[row]]
           /\ UNCHANGED <<link, calls>>

\* Seeded fault: the rows are rebased on what was shown before the drop.
RebaseShown(a, cars) ==
  LET base == IF a.shown = Null THEN NoCars ELSE a.shown.cars
  IN  IF ~a.replayed /\ Rebased(base, a.pending) # cars THEN Rebased(base, a.pending) ELSE Null

\* client.onState: what the page becomes, and the triple it sends from the
\* listener, if any.
Rebase(a, cars) ==
  IF ~a.replayed /\ Rebased(cars, a.pending) # cars THEN Rebased(cars, a.pending) ELSE Null

\* Seeded fault: the collision retry stays armed.
OnStateArmed(a, room, cars) ==
  LET next == Rebase(a, cars)
      seen == [a EXCEPT !.replayed = TRUE, !.shown = [room |-> room, cars |-> cars],
                        !.pending = IF a.replayed THEN @ ELSE NothingPending]
  IN  IF next = Null THEN seen ELSE [seen EXCEPT !.optimistic = next, !.triple = next]

OnState(a, room, cars) ==
  LET next  == Rebase(a, cars)
      seen  == [a EXCEPT !.replayed = TRUE, !.retry = FALSE,
                         !.shown = [room |-> room, cars |-> cars],
                         !.pending = IF a.replayed THEN @ ELSE NothingPending]
  IN  IF next = Null THEN seen ELSE [seen EXCEPT !.optimistic = next, !.triple = next]

--------------------------------------------------------------------------------
(* The page is loaded, joined, hidden and shown.                               *)

Touch == touches < MaxTouches /\ touches' = touches + 1

\* A stored room whose session is current is joined at once; otherwise the page
\* offers a new room, under the stored name.  Either way it may be in the background.
Load ==
  /\ app.screen = "loading"
  /\ \E form \in Forms, hidden \in BOOLEAN :
       LET page == [app EXCEPT !.form = form, !.client = form.name, !.hidden = hidden]
       IN  \/ /\ app' = [page EXCEPT !.screen = "join", !.joinMode = "new"]
              /\ UNCHANGED <<link, calls>>
           \/ /\ Call
              /\ EnterRoom([page EXCEPT !.joinMode = "existing"], form)
  /\ UNCHANGED <<faults, touches>>

OnJoinScreen == app.screen = "join" /\ ~app.hidden
OnConsole == app.screen = "console" /\ ~app.hidden

\* The name and, for an existing room, its code are typed in; join-new draws
\* another code.
EditForm ==
  /\ OnJoinScreen /\ Touch
  /\ \/ \E form \in Forms :
          /\ app.joinMode = "new" => form.room = app.form.room
          /\ app' = [app EXCEPT !.form = form]
     \/ app' = [app EXCEPT !.joinMode = "existing"]
     \/ \E room \in Rooms : app' = [app EXCEPT !.joinMode = "new", !.form.room = room]
  /\ UNCHANGED <<link, calls, faults>>

Join ==
  /\ OnJoinScreen /\ app.joinMode = "existing" /\ Call
  /\ EnterRoom([app EXCEPT !.retry = FALSE], app.form)
  /\ UNCHANGED <<faults, touches>>

Start ==
  /\ OnJoinScreen /\ app.joinMode = "new" /\ Call
  /\ EnterRoom([app EXCEPT !.retry = TRUE], app.form)
  /\ UNCHANGED <<faults, touches>>

\* onVisibilityChange
Hide ==
  /\ ~app.hidden /\ app.screen # "loading"
  /\ IF app.screen = "console"
     THEN /\ Call
          /\ link' = Disconnect(link)
          /\ app' = Told([app EXCEPT !.hidden = TRUE], link')
     ELSE app' = [app EXCEPT !.hidden = TRUE] /\ UNCHANGED <<link, calls>>
  /\ UNCHANGED <<faults, touches>>

ResumeLink(a) ==
  IF a.screen = "console" /\ ~a.hidden
  THEN /\ Call
       /\ \E slot \in Free(link) : link' = Connect(link, a.form, slot)
       /\ app' = Told(a, link')
  ELSE app' = a /\ UNCHANGED <<link, calls>>

Show ==
  /\ app.hidden
  /\ ResumeLink([app EXCEPT !.hidden = FALSE])
  /\ UNCHANGED <<faults, touches>>

\* The online event, and pageshow of a page that is visible again.
Online ==
  /\ OnConsole
  /\ ResumeLink(app)
  /\ UNCHANGED <<faults, touches>>

--------------------------------------------------------------------------------
(* The console.                                                                *)

\* tapLane and sendMessage
TapLaneOrMessage ==
  /\ OnConsole /\ Touch /\ Call
  /\ \E kind \in {"lane", "msg"} : link' = Send(link, Issued(kind))
  /\ UNCHANGED <<faults, app>>

KeyFader ==
  /\ OnConsole /\ Touch
  /\ \E row \in Rows : \E level \in Levels \ {SelectedCars(app)[row]} :
       SendCars(app, WithRow(SelectedCars(app), row, level), row)
  /\ UNCHANGED faults

\* pointerdown, pointermove, and pointerup or pointercancel anywhere
StartDrag ==
  /\ Drags /\ OnConsole /\ app.drag = Null /\ Touch
  /\ \E row \in Rows, level \in Levels :
       app' = [app EXCEPT !.drag = [row |-> row, base |-> SelectedCars(app), level |-> level]]
  /\ UNCHANGED <<link, calls, faults>>

MoveDrag ==
  /\ app.drag # Null
  /\ \E level \in Levels \ {app.drag.level} : app' = [app EXCEPT !.drag.level = level]
  /\ UNCHANGED <<link, calls, faults, touches>>

EndDrag ==
  /\ app.drag # Null
  /\ LET ended == app.drag
         released == [app EXCEPT !.drag = Null]
     IN  IF ended.level = ended.base[ended.row]
         THEN app' = released /\ UNCHANGED <<link, calls>>
         ELSE SendCars(released, WithRow(ended.base, ended.row, ended.level), ended.row)
  /\ UNCHANGED <<faults, touches>>

\* OPTIMISTIC_LANE_MS are over and something redraws the page: a timer of its
\* own, or the interval that does so every PING_INTERVAL_MS.
OptimismEnds ==
  /\ app.optimistic # Null
  /\ app' = [app EXCEPT !.optimistic = Null]
  /\ UNCHANGED <<link, calls, faults, touches>>

--------------------------------------------------------------------------------
(* What the client tells the page.                                             *)

\* The events of RoomClient after which the page is at most told of a status.
Transport ==
  /\ \/ \E s \in Slots : Opens(s) \/ Dies(s)
     \/ PingTimer \/ ConnectTimer \/ RetryTimer
     \/ Tick /\ (app.optimistic = Null \/ Freezes)
  /\ app' = Told(app, link')
  /\ UNCHANGED touches

Accepts(s, seq) == link.socket = s /\ seq > link.lastSeen

\* A frame that is no new state of the current session is not passed on.
FrameArrives(s, seq) ==
  /\ link.wires[s] # Null /\ link.wires[s].phase = "open"
  /\ LET heard == [link EXCEPT !.wires[s].spoke = TRUE, !.wires[s].synced = @ \/ seq > 0]
     IN  IF Accepts(s, seq)
         THEN \E cars \in Triples :
                /\ app' = OnState(app, link.wires[s].url.room, cars)
                /\ IF Rebase(app, cars) = Null
                   THEN link' = HandleMessage(heard, s, seq, Null) /\ UNCHANGED calls
                   ELSE Call /\ link' = HandleMessage(heard, s, seq, Issued("cars"))
         ELSE /\ link' = HandleMessage(heard, s, seq, Null)
              /\ UNCHANGED <<calls, app>>
  /\ UNCHANGED <<faults, touches>>

\* Seeded fault: the console waits for a client that will not reconnect.
TurnedAwayWaiting(l, auth) ==
  /\ link' = Closed(l, TRUE)
  /\ app' = [SessionOver(app) EXCEPT !.conn = "closed"]

\* client.onConnection, terminal: the client is told to leave, then either
\* another code is tried or the page returns to the join screen.
TurnedAway(l, auth) ==
  LET left == Disconnect(Closed(l, TRUE))
      over == [SessionOver(app) EXCEPT !.pending = NothingPending, !.conn = "closed"]
  IN  IF auth /\ app.retry
      THEN \E room \in Rooms \ {app.form.room}, slot \in Free(l) :
             LET form == [app.form EXCEPT !.room = room]
             IN  /\ link' = Connect(left, form, slot)
                 /\ app' = [Entered([over EXCEPT !.retry = FALSE], form) EXCEPT
                              !.conn = "connecting"]
      ELSE /\ link' = left
           /\ app' = [over EXCEPT !.screen = "join", !.shown = Null]

SocketCloses(s) ==
  /\ link.wires[s] # Null
  /\ IF link.wires[s].closed THEN UNCHANGED faults
     ELSE link.wires[s].phase # "dead" /\ Fault
  /\ LET gone == Gone(link, s)
     IN  \/ /\ link' \in HandleClose(gone, s, FALSE, s)
            /\ app' = Told(app, link')
         \/ /\ link.socket = s /\ link.wires[s].phase = "open"
            /\ \E auth \in BOOLEAN : TurnedAway(gone, auth)
  /\ UNCHANGED <<calls, touches>>

SpotterInit ==
  /\ Init
  /\ \E form \in Forms :
       app = [screen |-> "loading", joinMode |-> "new", hidden |-> FALSE, form |-> form,
              client |-> form.name, conn |-> "closed", shown |-> Null, replayed |-> FALSE,
              pending |-> NothingPending, optimistic |-> Null, drag |-> Null,
              retry |-> FALSE, triple |-> Null]
  /\ touches = 0

SpotterNext ==
  \/ Load
  \/ EditForm
  \/ Join
  \/ Start
  \/ Hide
  \/ Show
  \/ Online
  \/ TapLaneOrMessage
  \/ KeyFader
  \/ StartDrag
  \/ MoveDrag
  \/ EndDrag
  \/ OptimismEnds
  \/ Transport
  \/ \E s \in Slots, seq \in 0 .. MaxSeq : FrameArrives(s, seq)
  \/ \E s \in Slots : SocketCloses(s)

SpotterSpec == SpotterInit /\ [][SpotterNext]_spotterVars

--------------------------------------------------------------------------------
(* Properties.                                                                 *)

\* The page keeps the fields that Model and main.ts can hold.
SpotterTypeOK ==
  /\ app \in Pages
  /\ touches \in 0 .. MaxTouches

\* The page and the client agree on the connection and on whether the session
\* has replayed the room: no triple is ever built for a session the client does
\* not have, and none waits in the client.
SessionsAgree ==
  /\ app.conn = link.status
  /\ app.replayed = (link.socket # Null /\ link.replayed)
  /\ link.cars = Null

\* A console on a visible page is never dead: it is bound to the room it names
\* and has a socket or an armed retry, whatever was closed, lost or hidden.  The
\* join screen never has a session behind it.
NoDeadConsole ==
  /\ OnConsole => link.url = app.form /\ (link.socket # Null \/ link.retry # Null)
  /\ app.screen # "console" => link.url = Null

\* The code of a room that the spotter has seen live is never changed under the
\* console: the collision retry is over once a state arrived.
SeenRoomStays ==
  [][app.screen = "console" /\ app'.screen = "console" /\ app.shown # Null
       => app'.form = app.form]_spotterVars

\* The first state of a session settles the rows that waited for it: the room
\* holds them already, or one triple is written to the socket that has them and,
\* in every other row, what the room replayed.
WaitingRowsAreRebased ==
  [][~app.replayed /\ app'.replayed =>
       /\ app'.pending = NothingPending
       /\ \A r \in Rows :
            LET level == IF app.pending[r] = Null THEN app'.shown.cars[r] ELSE app.pending[r]
            IN  IF app'.triple = Null THEN level = app'.shown.cars[r]
                ELSE app'.triple[r] = level
       /\ app'.triple # Null =>
            \E h \in Elements(link'.handed) :
              h.intent.kind = "cars" /\ h.intent.id = calls' /\ calls' # calls]_spotterVars

\* The page does to the client what RoomClient says its listeners may do, so
\* what holds of the client holds of the spotter's.
UsesClient == Spec

\* main.ts: a hello repeats the name in the url of its socket.
HelloRepeatsUrl == link.socket # Null => link.url.name = app.client

================================================================================

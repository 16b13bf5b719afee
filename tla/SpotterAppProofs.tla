---------------------------- MODULE SpotterAppProofs ----------------------------
(* For every set of rooms, rows and levels, any number of gestures and any     *)
(* network: the page uses the client as RoomClient assumes, agrees with it     *)
(* about the session, and never leaves a console without a way back.           *)
EXTENDS SpotterApp, RoomClientProofs

--------------------------------------------------------------------------------
(* The inductive invariant.                                                    *)

\* The page a and the client l tell the same story.
Fits(a, l) ==
  /\ a.conn = l.status /\ a.replayed = l.replayed
  /\ ~a.replayed => a.triple = Null
  /\ a.retry => a.shown = Null
  /\ l.cars = Null
  /\ l.url # Null => ~l.rejected
  /\ a.screen # "console" => l.url = Null
  /\ a.screen = "console" => l.url \in {Null, a.form}
  /\ a.screen = "console" /\ ~a.hidden => l.url = a.form

\* The page as the client last told it of itself.
Agrees(a, l) ==
  a.conn = l.status /\ a.replayed = l.replayed /\ (~a.replayed => a.triple = Null)

\* A client that replays nothing on the way from l to r.
Quietly(l, r) == r.replayed => l.replayed /\ r.status = l.status

\* t is the page a, told of the client r.
Follows(a, r, t) ==
  /\ t \in Pages /\ Agrees(t, r)
  /\ t.retry = a.retry /\ t.shown = a.shown /\ t.screen = a.screen
  /\ t.form = a.form /\ t.hidden = a.hidden /\ t.pending = a.pending

\* A page that is about to bind the client l to the room of its console.
Binds(a, l) ==
  /\ Agrees(a, l) /\ a.screen = "console"
  /\ a.retry => a.shown = Null
  /\ l.cars = Null
  /\ l.url # Null => ~l.rejected

SpotterInv ==
  /\ ClientInv
  /\ app \in Pages
  /\ Fits(app, link)
  /\ touches \in 0 .. MaxTouches

\* The rows that waited are settled by the first state of a session.
Settles ==
  ~app.replayed /\ app'.replayed =>
    /\ app'.pending = NothingPending
    /\ \A r \in Rows :
         LET level == IF app.pending[r] = Null THEN app'.shown.cars[r] ELSE app.pending[r]
         IN  IF app'.triple = Null THEN level = app'.shown.cars[r]
             ELSE app'.triple[r] = level
    /\ app'.triple # Null =>
         \E h \in Elements(link'.handed) :
           h.intent.kind = "cars" /\ h.intent.id = calls' /\ calls' # calls

\* A room that was seen stays under the console.
Stays(a, b) ==
  a.screen = "console" /\ b.screen = "console" /\ a.shown # Null => b.form = a.form

\* What is to be shown of every step.
Good ==
  /\ [Next]_vars
  /\ app' \in Pages /\ Fits(app', link') /\ touches' \in 0 .. MaxTouches
  /\ Settles /\ Stays(app, app')

--------------------------------------------------------------------------------
(* What the steps of the client leave of it.                                   *)

\* A bound client that has a socket was not turned away.
LEMMA NotTurnedAway ==
  ASSUME NEW l, Sound(l), l.url # Null, l.status # "closed"
  PROVE  l.rejected = FALSE
<1>1. l.socket # Null
  BY DEF Sound, Stable, Watched, LinkStates
<1> QED
  BY <1>1 DEF Sound, Stable, Stranded, LinkStates

\* A client that says the same status as before has replayed as much.
LEMMA SameStatus ==
  ASSUME NEW l, NEW r, Sound(l), Sound(r), Shows(ViewOf(l), ViewOf(r)),
         r.replayed => l.replayed, r.status = l.status
  PROVE  r.replayed = l.replayed
<1>1. /\ l.replayed \in BOOLEAN /\ r.replayed \in BOOLEAN
      /\ l.status \in {"connecting", "open", "closed"}
  BY DEF Sound, Stable, LinkStates
<1>2. CASE l.status # "open"
  BY <1>1, <1>2 DEF Sound, Watched
<1>3. CASE l.status = "open" /\ l.replayed
  <2>1. /\ ViewOf(l).status = "open" /\ ViewOf(r).status = "open"
        /\ ViewOf(l).replayed = l.replayed /\ ViewOf(r).replayed = r.replayed
    BY <1>3 DEF ViewOf
  <2>2. ViewOf(l) = [status |-> l.status, replayed |-> l.replayed, heard |-> l.heard,
                     retry |-> l.retry # Null]
    BY DEF ViewOf
  <2> DEFINE v == ViewOf(l)
             w == ViewOf(r)
             q == l.retry # Null
  <2>3. v = [status |-> l.status, replayed |-> l.replayed, heard |-> l.heard, retry |-> q]
    BY <2>2
  <2> HIDE DEF v, w, q
  <2>4. w.replayed = v.replayed
    <3>1. v.status = "open" /\ w.status = "open" /\ v.replayed = TRUE /\ Shows(v, w)
      BY <1>1, <1>3, <2>1 DEF v, w
    <3>2. CASE w = v
      BY <3>2
    <3>3. w # View!Connecting(v) /\ w \notin View!Dropped(v) /\ w # View!NoSession
      BY <3>1 DEF View!Connecting, View!Dropped, View!NoSession
    <3>4. CASE w \in {View!Heard(v), View!Replayed(v)}
      BY <2>3, <3>1, <3>4 DEF View!Heard, View!Replayed
    <3>5. CASE w = View!Aged(v)
      BY <2>3, <3>1, <3>5 DEF View!Aged
    <3> QED
      BY <3>1, <3>2, <3>3, <3>4, <3>5 DEF Shows
  <2> QED
    BY <2>1, <2>4 DEF v, w
<1>4. CASE l.status = "open" /\ ~l.replayed
  BY <1>1, <1>4
<1> QED
  BY <1>1, <1>2, <1>3, <1>4

\* The page follows the status of the client.
LEMMA ToldFits ==
  ASSUME NEW a \in Pages, NEW r, Sound(link), Sound(r), Shows(ViewOf(link), ViewOf(r)),
         Agrees(a, link), Quietly(link, r)
  PROVE  Follows(a, r, Told(a, r))
<1>0. /\ r.replayed => link.replayed /\ r.status = link.status
      /\ a.conn = link.status /\ a.replayed = link.replayed
      /\ ~a.replayed => a.triple = Null
  BY DEF Agrees, Quietly
<1>1. /\ r.replayed \in BOOLEAN /\ link.replayed \in BOOLEAN
      /\ r.status \in {"connecting", "open", "closed"}
  BY DEF Sound, Stable, LinkStates
<1>2. CASE r.status = link.status
  <2>1. r.replayed = link.replayed
    BY <1>0, <1>2, SameStatus
  <2>2. Told(a, r) = a
    BY <1>2 DEF Told
  <2> QED
    BY <1>0, <1>2, <2>1, <2>2 DEF Follows, Agrees
<1>3. CASE r.status # link.status
  <2>1. r.replayed = FALSE
    BY <1>0, <1>1, <1>3
  <2> DEFINE o == SessionOver(a)
             f == FALSE
             n == [a EXCEPT !.replayed = f, !.triple = Null]
  <2>2. f \in BOOLEAN /\ ~f
    OBVIOUS
  <2>3. o = IF a.replayed THEN n ELSE a
    BY DEF SessionOver
  <2> HIDE DEF f, o
  <2>4. /\ n \in Pages /\ n.replayed = f /\ n.triple = Null
        /\ n.retry = a.retry /\ n.shown = a.shown /\ n.screen = a.screen
        /\ n.form = a.form /\ n.hidden = a.hidden /\ n.pending = a.pending
    BY <2>2 DEF Pages
  <2> HIDE DEF n
  <2>5. /\ o \in Pages /\ ~o.replayed /\ o.triple = Null
        /\ o.retry = a.retry /\ o.shown = a.shown /\ o.screen = a.screen
        /\ o.form = a.form /\ o.hidden = a.hidden /\ o.pending = a.pending
    BY <1>0, <2>2, <2>3, <2>4
  <2>6. Told(a, r) = [o EXCEPT !.conn = r.status]
    BY <1>3 DEF Told, o
  <2>7. o.replayed = r.replayed
    BY <2>1, <2>5 DEF Pages
  <2> QED
    BY <1>1, <2>5, <2>6, <2>7 DEF Pages, Follows, Agrees
<1> QED
  BY <1>2, <1>3

\* What an event of the transport or a timer does to a client.
Moved(l, r) ==
  /\ Sound(r) /\ Shows(ViewOf(l), ViewOf(r)) /\ Keeps(l, r)
  /\ r.url = l.url /\ (r.rejected => l.rejected)

\* Only an open client has replayed a room.
LEMMA ReplayedIsOpen ==
  ASSUME NEW l, NEW r, Sound(l), Sound(r), r.replayed => l.replayed
  PROVE  Quietly(l, r)
<1>1. /\ l.status \in {"connecting", "open", "closed"}
      /\ r.status \in {"connecting", "open", "closed"}
  BY DEF Sound, Stable, LinkStates
<1> QED
  BY <1>1 DEF Sound, Watched, Quietly

LEMMA OpensMoves ==
  ASSUME Sound(link), NEW s \in Slots, Opens(s)
  PROVE  Moved(link, link')
<1> DEFINE w == [link.wires EXCEPT ![s].phase = "open"]
           g == [link EXCEPT !.wires = w]
<1>1. link \in LinkStates
  BY DEF Sound, Stable
<1>2. link' = HandleOpen(g, s)
  BY DEF Opens
<1> HIDE DEF w
<1>3. g.url = link.url /\ g.rejected = link.rejected
  BY <1>1 DEF LinkStates
<1>4. DOMAIN g = DOMAIN link
  OBVIOUS
<1> HIDE DEF g
<1>5. link'.url = g.url /\ link'.rejected = g.rejected
  BY <1>2 DEF HandleOpen
<1> QED
  BY <1>3, <1>5, OpensSound DEF Moved

LEMMA DiesMoves ==
  ASSUME Sound(link), NEW s \in Slots, Dies(s)
  PROVE  Moved(link, link')
<1>1. link \in LinkStates
  BY DEF Sound, Stable
<1>2. link'.url = link.url /\ link'.rejected = link.rejected
  BY <1>1 DEF Dies, LinkStates
<1> QED
  BY <1>2, DiesSound DEF Moved

\* A socket that is given up leaves the client in its room.
LEMMA DropStays ==
  ASSUME NEW l \in LinkStates, OneInUse(l), l.socket # Null => l.wires[l.socket] # Null,
         NEW s, NEW r \in DropDeadSocket(l, s)
  PROVE  r.url = l.url /\ r.rejected = l.rejected
<1>1. CASE l.socket # s
  BY <1>1 DEF DropDeadSocket
<1>2. CASE l.socket = s
  <2> DEFINE q == [l EXCEPT !.connect = Null, !.ping = Null]
             t == Retire(q)
             d == [t EXCEPT !.replayed = FALSE, !.heard = Null, !.status = "closed"]
  <2>1. PICK delay \in Delays(l.backoff) : r = ScheduleReconnect(d, delay)
    BY <1>2 DEF DropDeadSocket
  <2>2. /\ q \in LinkStates /\ q.url = l.url /\ q.rejected = l.rejected
        /\ q.wires = l.wires /\ q.socket = l.socket
    BY DEF LinkStates
  <2>3. OneInUse(q) /\ (q.socket # Null => q.wires[q.socket] # Null)
    BY <2>2 DEF OneInUse
  <2> HIDE DEF q
  <2>4. t \in LinkStates /\ t.url = l.url /\ t.rejected = l.rejected
    BY <2>2, <2>3, RetireFields
  <2> HIDE DEF t
  <2>5. d.url = l.url /\ d.rejected = l.rejected
    BY <2>4 DEF LinkStates
  <2> HIDE DEF d
  <2> QED
    BY <2>1, <2>5 DEF ScheduleReconnect
<1> QED
  BY <1>1, <1>2

LEMMA PingTimerMoves ==
  ASSUME Sound(link), PingTimer
  PROVE  Moved(link, link')
<1> DEFINE t == [link.ping EXCEPT !.in = PING_INTERVAL_MS]
           p == [link EXCEPT !.ping = t]
           s == link.ping.socket
<1>1. link \in LinkStates /\ link.ping \in Timers(PING_INTERVAL_MS)
  BY DEF PingTimer, Sound, Stable, LinkStates
<1>2. t \in Timers(PING_INTERVAL_MS)
  BY <1>1, ClientAssumption DEF Timers
<1>3. link' \in SendPing(p, s)
  BY DEF PingTimer
<1> HIDE DEF t
<1>4. /\ p \in LinkStates /\ p.url = link.url /\ p.rejected = link.rejected
      /\ p.wires = link.wires /\ p.socket = link.socket
  BY <1>1, <1>2 DEF LinkStates
<1> HIDE DEF p, s
<1>5. OneInUse(p) /\ (p.socket # Null => p.wires[p.socket] # Null)
  BY <1>4 DEF Sound, Stable, OneInUse, InUse
<1>6. link'.url = p.url /\ link'.rejected = p.rejected
  BY <1>3, <1>4, <1>5, DropStays DEF SendPing
<1> QED
  BY <1>4, <1>6, PingTimerSound DEF Moved

LEMMA ConnectTimerMoves ==
  ASSUME Sound(link), ConnectTimer
  PROVE  Moved(link, link')
<1> DEFINE c == [link EXCEPT !.connect = Null]
<1>1. link \in LinkStates
  BY DEF Sound, Stable
<1>2. link' \in DropDeadSocket(c, link.connect.socket)
  BY DEF ConnectTimer
<1>3. /\ c \in LinkStates /\ c.url = link.url /\ c.rejected = link.rejected
      /\ c.wires = link.wires /\ c.socket = link.socket
  BY <1>1 DEF LinkStates
<1> HIDE DEF c
<1>4. OneInUse(c) /\ (c.socket # Null => c.wires[c.socket] # Null)
  BY <1>3 DEF Sound, Stable, OneInUse, InUse
<1>5. link'.url = c.url /\ link'.rejected = c.rejected
  BY <1>2, <1>3, <1>4, DropStays
<1> QED
  BY <1>3, <1>5, ConnectTimerSound DEF Moved

LEMMA RetryTimerMoves ==
  ASSUME Sound(link), RetryTimer
  PROVE  Moved(link, link')
<1> DEFINE r == [link EXCEPT !.retry = Null]
<1>1. link \in LinkStates
  BY DEF Sound, Stable
<1>2. PICK slot \in Slots : link' = OpenSocket(r, slot)
  BY DEF RetryTimer, Free
<1>3. r \in LinkStates /\ r.url = link.url /\ r.rejected = link.rejected
  BY <1>1 DEF LinkStates
<1> HIDE DEF r
<1>4. link'.url = r.url /\ (link'.rejected => r.rejected)
  <2>1. CASE r.url = Null
    BY <1>2, <2>1 DEF OpenSocket
  <2>2. CASE r.url # Null
    BY <1>2, <1>3, <2>2 DEF OpenSocket, LinkStates
  <2> QED
    BY <2>1, <2>2
<1> QED
  BY <1>3, <1>4, RetryTimerSound DEF Moved

LEMMA TickMoves ==
  ASSUME Sound(link), Tick
  PROVE  Moved(link, link')
<1>1. link \in LinkStates
  BY DEF Sound, Stable
<1>2. link'.url = link.url /\ link'.rejected = link.rejected
  BY <1>1 DEF Tick, OneTickLater, LinkStates
<1> QED
  BY <1>2, TickSound DEF Moved

\* Whatever the client does by itself, the page that is told of it fits it.
LEMMA MovedFits ==
  ASSUME NEW a \in Pages, Sound(link), Fits(a, link), Moved(link, link')
  PROVE  LET t == Told(a, link')
         IN  /\ t \in Pages /\ Fits(t, link')
             /\ t.replayed => a.replayed
             /\ Stays(a, t)
<1> DEFINE t == Told(a, link')
<1>1. /\ Sound(link') /\ Shows(ViewOf(link), ViewOf(link')) /\ Keeps(link, link')
      /\ link'.url = link.url /\ (link'.rejected => link.rejected)
      /\ link'.replayed => link.replayed
  BY DEF Moved, Keeps
<1>2. Quietly(link, link')
  BY <1>1, ReplayedIsOpen
<1>3. Agrees(a, link)
  BY DEF Fits, Agrees
<1>4. Follows(a, link', t)
  BY <1>1, <1>2, <1>3, ToldFits
<1> HIDE DEF t
<1>5. link'.cars = Null
  BY <1>1 DEF Keeps, SameQueue, NoQueue, Fits
<1>6. Fits(t, link')
  BY <1>1, <1>4, <1>5 DEF Fits, Follows, Agrees
<1>7. Stays(a, t)
  BY <1>4 DEF Stays, Follows
<1>8. t \in Pages /\ (t.replayed => a.replayed)
  BY <1>1, <1>3, <1>4 DEF Follows, Agrees
<1> QED
  BY <1>6, <1>7, <1>8 DEF t

LEMMA TransportGood ==
  ASSUME SpotterInv, Transport
  PROVE  Good
<1>1. Sound(link) /\ app \in Pages /\ Fits(app, link) /\ touches \in 0 .. MaxTouches
  BY DEF SpotterInv, ClientInv
<1>2. Moved(link, link') /\ Next
  <2>1. ASSUME NEW s \in Slots, Opens(s)
        PROVE  Moved(link, link') /\ Next
    BY <1>1, <2>1, OpensMoves DEF Next
  <2>2. ASSUME NEW s \in Slots, Dies(s)
        PROVE  Moved(link, link') /\ Next
    BY <1>1, <2>2, DiesMoves DEF Next
  <2>3. CASE PingTimer
    BY <1>1, <2>3, PingTimerMoves DEF Next
  <2>4. CASE ConnectTimer
    BY <1>1, <2>4, ConnectTimerMoves DEF Next
  <2>5. CASE RetryTimer
    BY <1>1, <2>5, RetryTimerMoves DEF Next
  <2>6. CASE Tick
    BY <1>1, <2>6, TickMoves DEF Next
  <2> QED
    BY <2>1, <2>2, <2>3, <2>4, <2>5, <2>6 DEF Transport
<1>3. app' = Told(app, link') /\ touches' = touches
  BY DEF Transport
<1>4. /\ app' \in Pages /\ Fits(app', link') /\ Stays(app, app')
      /\ app'.replayed => app.replayed
  BY <1>1, <1>2, <1>3, MovedFits
<1>5. Settles
  BY <1>4 DEF Settles
<1> QED
  BY <1>1, <1>2, <1>3, <1>4, <1>5 DEF Good

--------------------------------------------------------------------------------
(* The page is loaded, joined, hidden and shown.                               *)

LEMMA TouchCounts ==
  ASSUME touches \in 0 .. MaxTouches, Touch
  PROVE  touches' \in 0 .. MaxTouches
BY SpotterAssumption DEF Touch

\* A step of the page alone.
LEMMA PageGood ==
  ASSUME SpotterInv, app' \in Pages, UNCHANGED <<link, calls, faults>>,
         touches' \in 0 .. MaxTouches,
         app'.conn = app.conn, app'.replayed = app.replayed, app'.triple = app.triple,
         app'.retry = app.retry, app'.shown = app.shown,
         app'.screen = "console" <=> app.screen = "console",
         app.screen = "console" => app'.form = app.form /\ app'.hidden = app.hidden
  PROVE  Good
<1>1. [Next]_vars
  BY DEF vars
<1>2. Fits(app, link) /\ app' \in Pages
  BY DEF SpotterInv
<1>3. Fits(app', link')
  BY <1>2 DEF Fits
<1>4. Settles /\ Stays(app, app')
  BY DEF Settles, Stays
<1> QED
  BY <1>1, <1>3, <1>4 DEF Good

\* The page binds the client to the room of its console.
LEMMA ConnectFits ==
  ASSUME Sound(link), NEW a \in Pages, NEW slot \in Slots, Binds(a, link),
         link' = Connect(link, a.form, slot)
  PROVE  /\ Follows(a, link', Told(a, link')) /\ Fits(Told(a, link'), link')
         /\ link'.replayed => link.replayed
<1> DEFINE t == Told(a, link')
<1>1. a.form \in Urls
  BY SpotterAssumption DEF Pages
<1>2. /\ Sound(link') /\ (link' = link \/ \A v : ViewOf(link') = View!Connecting(v))
      /\ link'.replayed => link' = link
      /\ link'.url = a.form
      /\ SameQueue(link, link') \/ NoQueue(link, link')
  BY <1>1, ConnectSound
<1>3. Shows(ViewOf(link), ViewOf(link'))
  BY <1>2 DEF Shows
<1>4. Quietly(link, link')
  BY <1>2 DEF Quietly
<1>5. Follows(a, link', t)
  BY <1>2, <1>3, <1>4, ToldFits DEF Binds
<1> HIDE DEF t
<1>6. link'.cars = Null
  BY <1>2 DEF SameQueue, NoQueue, Binds
<1>7. a.form # Null
  BY <1>1, NullAssumption
<1>8. ~link'.rejected
  <2>1. CASE link' = link
    BY <1>2, <1>7, <2>1 DEF Binds
  <2>2. CASE \A v : ViewOf(link') = View!Connecting(v)
    <3>1. ViewOf(link') = View!Connecting(ViewOf(link))
      BY <2>2
    <3>2. link'.status = "connecting"
      BY <3>1 DEF ViewOf, View!Connecting
    <3> QED
      BY <1>2, <1>7, <3>2, NotTurnedAway
  <2> QED
    BY <1>2, <2>1, <2>2
<1>9. Fits(t, link')
  BY <1>2, <1>5, <1>6, <1>7, <1>8 DEF Fits, Follows, Agrees, Binds
<1> QED
  BY <1>4, <1>5, <1>9 DEF t, Quietly

\* An unbound client has no session.
LEMMA UnboundIsClosed ==
  ASSUME NEW l, Sound(l), l.url = Null
  PROVE  l.replayed = FALSE
<1>1. l.socket = Null /\ l.replayed \in BOOLEAN /\ l.status \in {"connecting", "open", "closed"}
  BY DEF Sound, Stable, Stranded, LinkStates
<1> QED
  BY <1>1 DEF Sound, Watched

LEMMA EnterGood ==
  ASSUME SpotterInv, app.screen # "console", touches' \in 0 .. MaxTouches,
         NEW a \in Pages, a.conn = app.conn, a.replayed = app.replayed,
         NEW form \in Forms, Call, EnterRoom(a, form), UNCHANGED faults
  PROVE  Good
<1>1. Sound(link) /\ Fits(app, link)
  BY DEF SpotterInv, ClientInv
<1>2. PICK slot \in Slots : /\ slot \in Free(link) /\ link' = Connect(link, form, slot)
                          /\ app' = Told(Entered(a, form), link')
  BY DEF EnterRoom, Free
<1>3. link.url = Null /\ link.replayed = FALSE /\ form \in Urls
  BY <1>1, UnboundIsClosed, SpotterAssumption DEF Fits
<1> DEFINE e == Entered(a, form)
           n == NothingPending
<1>4. n \in [Rows -> Levels \union {Null}]
  BY DEF NothingPending
<1> HIDE DEF n
<1>5. e = [a EXCEPT !.pending = n, !.form = form, !.screen = "console",
                    !.shown = Null, !.triple = Null]
  BY DEF Entered, n
<1> HIDE DEF e
<1>6. /\ e \in Pages /\ e.conn = a.conn /\ e.replayed = a.replayed /\ e.triple = Null
      /\ e.shown = Null /\ e.screen = "console" /\ e.form = form
  BY <1>4, <1>5 DEF Pages
<1>7. Binds(e, link) /\ app.replayed = link.replayed
  BY <1>1, <1>3, <1>6 DEF Fits, Binds, Agrees
<1>8. link' = Connect(link, e.form, slot) /\ app' = Told(e, link')
  BY <1>2, <1>6 DEF e
<1>9. Follows(e, link', app') /\ Fits(app', link') /\ (link'.replayed => link.replayed)
  BY <1>1, <1>6, <1>7, <1>8, ConnectFits
<1>10. app' \in Pages /\ Settles /\ Stays(app, app')
  BY <1>3, <1>9 DEF Settles, Stays, Follows, Agrees
<1>11. Next
  BY <1>2, <1>3 DEF Next, CallConnect
<1> QED
  BY <1>9, <1>10, <1>11 DEF Good

LEMMA LoadGood ==
  ASSUME SpotterInv, Load
  PROVE  Good
<1>1. app \in Pages /\ app.screen = "loading" /\ touches' = touches /\ faults' = faults
      /\ touches' \in 0 .. MaxTouches
  BY DEF SpotterInv, Load
<1>2. PICK form \in Forms, hidden \in BOOLEAN :
        LET page == [app EXCEPT !.form = form, !.client = form.name, !.hidden = hidden]
        IN  \/ /\ app' = [page EXCEPT !.screen = "join", !.joinMode = "new"]
               /\ UNCHANGED <<link, calls>>
            \/ /\ Call
               /\ EnterRoom([page EXCEPT !.joinMode = "existing"], form)
  BY DEF Load
<1> DEFINE page == [app EXCEPT !.form = form, !.client = form.name, !.hidden = hidden]
           j == [page EXCEPT !.screen = "join", !.joinMode = "new"]
           e == [page EXCEPT !.joinMode = "existing"]
<1>3. /\ page \in Pages /\ page.conn = app.conn /\ page.replayed = app.replayed
      /\ page.triple = app.triple /\ page.retry = app.retry /\ page.shown = app.shown
  BY <1>1 DEF Pages, Forms
<1>4. \/ app' = j /\ UNCHANGED <<link, calls>>
      \/ Call /\ EnterRoom(e, form)
  BY <1>2
<1> HIDE DEF page
<1>5. /\ j \in Pages /\ j.conn = app.conn /\ j.replayed = app.replayed
      /\ j.triple = app.triple /\ j.retry = app.retry /\ j.shown = app.shown
      /\ j.screen = "join"
  BY <1>3 DEF Pages
<1>6. e \in Pages /\ e.conn = app.conn /\ e.replayed = app.replayed
  BY <1>3 DEF Pages
<1> HIDE DEF j, e
<1>7. CASE app' = j /\ UNCHANGED <<link, calls>>
  BY <1>1, <1>5, <1>7, PageGood
<1>8. CASE Call /\ EnterRoom(e, form)
  BY <1>1, <1>6, <1>8, EnterGood
<1> QED
  BY <1>4, <1>7, <1>8

LEMMA EditFormGood ==
  ASSUME SpotterInv, EditForm
  PROVE  Good
<1>1. app \in Pages /\ app.screen = "join" /\ touches' \in 0 .. MaxTouches
      /\ UNCHANGED <<link, calls, faults>>
  BY TouchCounts DEF SpotterInv, EditForm, OnJoinScreen
<1> DEFINE OnlyForm == /\ app' \in Pages /\ app'.conn = app.conn
                       /\ app'.replayed = app.replayed /\ app'.triple = app.triple
                       /\ app'.retry = app.retry /\ app'.shown = app.shown
                       /\ app'.screen = app.screen
<1>2. OnlyForm
  <2>1. ASSUME NEW form \in Forms, app' = [app EXCEPT !.form = form]
        PROVE  OnlyForm
    BY <1>1, <2>1 DEF Pages
  <2>2. CASE app' = [app EXCEPT !.joinMode = "existing"]
    BY <1>1, <2>2 DEF Pages
  <2>3. ASSUME NEW room \in Rooms, app' = [app EXCEPT !.joinMode = "new", !.form.room = room]
        PROVE  OnlyForm
    <3> DEFINE form == [app.form EXCEPT !.room = room]
    <3>1. form \in Forms
      BY <1>1 DEF Pages, Forms
    <3>2. app' = [app EXCEPT !.joinMode = "new", !.form = form]
      BY <2>3
    <3> HIDE DEF form
    <3> QED
      BY <1>1, <3>1, <3>2 DEF Pages
  <2> QED
    BY <2>1, <2>2, <2>3 DEF EditForm
<1> QED
  BY <1>1, <1>2, PageGood

LEMMA JoinGood ==
  ASSUME SpotterInv, Join \/ Start
  PROVE  Good
<1>1. /\ app \in Pages /\ app.screen = "join" /\ touches' \in 0 .. MaxTouches
      /\ faults' = faults /\ Call /\ app.form \in Forms
  BY DEF SpotterInv, Join, Start, OnJoinScreen, Pages
<1>2. PICK retry \in BOOLEAN : EnterRoom([app EXCEPT !.retry = retry], app.form)
  BY DEF Join, Start
<1> DEFINE a == [app EXCEPT !.retry = retry]
<1>3. a \in Pages /\ a.conn = app.conn /\ a.replayed = app.replayed
  BY <1>1 DEF Pages
<1>4. EnterRoom(a, app.form)
  BY <1>2
<1> HIDE DEF a
<1> QED
  BY <1>1, <1>3, <1>4, EnterGood

LEMMA HideGood ==
  ASSUME SpotterInv, Hide
  PROVE  Good
<1> DEFINE h == TRUE
           a == [app EXCEPT !.hidden = h]
<1>1. /\ app \in Pages /\ touches' = touches /\ touches' \in 0 .. MaxTouches
      /\ faults' = faults /\ Sound(link) /\ Fits(app, link) /\ h \in BOOLEAN /\ h
  BY DEF SpotterInv, ClientInv, Hide
<1>2. IF app.screen = "console"
      THEN Call /\ link' = Disconnect(link) /\ app' = Told(a, link')
      ELSE app' = a /\ UNCHANGED <<link, calls>>
  BY DEF Hide
<1> HIDE DEF h
<1>3. /\ a \in Pages /\ a.conn = app.conn /\ a.replayed = app.replayed
      /\ a.triple = app.triple /\ a.retry = app.retry /\ a.shown = app.shown
      /\ a.screen = app.screen /\ a.form = app.form /\ a.hidden
  BY <1>1 DEF Pages
<1> HIDE DEF a
<1>4. CASE app.screen = "console"
  <2>1. CallDisconnect /\ link' = Disconnect(link)
    BY <1>1, <1>2, <1>4 DEF CallDisconnect
  <2>2. Sound(link') /\ Shows(ViewOf(link), ViewOf(link')) /\ Keeps(link, link')
    BY <1>1, <2>1, CallDisconnectSound
  <2>3. link \in LinkStates /\ OneInUse(link) /\ HandedToRoom(link)
        /\ (link.socket # Null => link.wires[link.socket] # Null)
    BY <1>1 DEF Sound, Stable, InUse
  <2>4. link'.url = Null /\ link'.replayed = FALSE /\ NoQueue(link, link')
    BY <2>1, <2>3, DisconnectSound
  <2>5. Agrees(a, link) /\ Quietly(link, link')
    BY <1>1, <1>3, <2>4 DEF Fits, Agrees, Quietly
  <2>6. app' = Told(a, link') /\ Follows(a, link', app')
    BY <1>1, <1>2, <1>3, <1>4, <2>2, <2>5, ToldFits
  <2>7. Fits(app', link') /\ app' \in Pages
    BY <1>1, <1>3, <2>4, <2>6 DEF Fits, NoQueue, Follows, Agrees
  <2>8. Settles /\ Stays(app, app')
    BY <1>3, <2>4, <2>6 DEF Settles, Stays, Follows, Agrees
  <2> QED
    BY <1>1, <2>1, <2>7, <2>8 DEF Good, Next
<1>5. CASE app.screen # "console"
  BY <1>1, <1>2, <1>3, <1>5, PageGood
<1> QED
  BY <1>4, <1>5

LEMMA ResumeGood ==
  ASSUME SpotterInv, touches' \in 0 .. MaxTouches, UNCHANGED faults,
         NEW hidden \in BOOLEAN, app.screen = "console" => ~hidden,
         ResumeLink([app EXCEPT !.hidden = hidden])
  PROVE  Good
<1> DEFINE a == [app EXCEPT !.hidden = hidden]
<1>1. app \in Pages /\ Sound(link) /\ Fits(app, link)
  BY DEF SpotterInv, ClientInv
<1>2. ResumeLink(a)
  OBVIOUS
<1>3. /\ a \in Pages /\ a.conn = app.conn /\ a.replayed = app.replayed
      /\ a.triple = app.triple /\ a.retry = app.retry /\ a.shown = app.shown
      /\ a.screen = app.screen /\ a.form = app.form /\ a.hidden = hidden
      /\ a.form \in Urls
  BY <1>1, SpotterAssumption DEF Pages
<1> HIDE DEF a
<1>4. CASE app.screen = "console"
  <2>1. Call /\ app' = Told(a, link')
    BY <1>2, <1>3, <1>4 DEF ResumeLink
  <2>2. PICK slot \in Slots : slot \in Free(link) /\ link' = Connect(link, a.form, slot)
    BY <1>2, <1>3, <1>4 DEF ResumeLink, Free
  <2>3. Binds(a, link) /\ app.replayed = link.replayed
    BY <1>1, <1>3, <1>4 DEF Fits, Binds, Agrees
  <2>4. Follows(a, link', app') /\ Fits(app', link') /\ (link'.replayed => link.replayed)
    BY <1>1, <1>3, <2>1, <2>2, <2>3, ConnectFits
  <2>5. app' \in Pages /\ Settles /\ Stays(app, app')
    BY <1>3, <2>3, <2>4 DEF Settles, Stays, Follows, Agrees
  <2>6. Next
    BY <1>3, <2>1, <2>2 DEF Next, CallConnect
  <2> QED
    BY <2>4, <2>5, <2>6 DEF Good
<1>5. CASE app.screen # "console"
  <2>1. app' = a /\ UNCHANGED <<link, calls>>
    BY <1>2, <1>3, <1>5 DEF ResumeLink
  <2> QED
    BY <1>3, <1>5, <2>1, PageGood
<1> QED
  BY <1>4, <1>5

LEMMA ShowGood ==
  ASSUME SpotterInv, Show
  PROVE  Good
<1>1. /\ touches' \in 0 .. MaxTouches /\ faults' = faults
      /\ ResumeLink([app EXCEPT !.hidden = FALSE])
  BY DEF SpotterInv, Show
<1> QED
  BY <1>1, ResumeGood

LEMMA OnlineGood ==
  ASSUME SpotterInv, Online
  PROVE  Good
<1>1. /\ touches' \in 0 .. MaxTouches /\ faults' = faults /\ app \in Pages
      /\ ResumeLink(app) /\ ~app.hidden
  BY DEF SpotterInv, Online, OnConsole
<1>2. app = [app EXCEPT !.hidden = app.hidden] /\ app.hidden \in BOOLEAN
  BY <1>1 DEF Pages
<1> QED
  BY <1>1, <1>2, ResumeGood

--------------------------------------------------------------------------------
(* The console.                                                                *)

LEMMA RowIsTriple ==
  ASSUME NEW cars \in Triples, NEW row \in Rows, NEW level \in Levels
  PROVE  WithRow(cars, row, level) \in Triples
BY DEF WithRow, Triples

LEMMA SelectedIsTriple ==
  ASSUME NEW a \in Pages
  PROVE  SelectedCars(a) \in Triples
<1>1. NoCars \in Triples
  BY SpotterAssumption DEF NoCars, Triples
<1>2. CASE a.drag # Null
  <2>1. a.drag.base \in Triples /\ a.drag.row \in Rows /\ a.drag.level \in Levels
    BY <1>2 DEF Pages
  <2> QED
    BY <1>2, <2>1, RowIsTriple DEF SelectedCars
<1>3. CASE a.drag = Null
  <2>1. a.optimistic \in Triples \union {Null}
    BY DEF Pages
  <2>2. a.shown # Null => a.shown.cars \in Triples
    BY DEF Pages
  <2> QED
    BY <1>1, <1>3, <2>1, <2>2 DEF SelectedCars
<1> QED
  BY <1>2, <1>3

\* What a page knows of its session and its room.
SameStory(a, b) ==
  /\ b.conn = a.conn /\ b.replayed = a.replayed /\ b.triple = a.triple
  /\ b.retry = a.retry /\ b.shown = a.shown /\ b.screen = a.screen
  /\ b.form = a.form /\ b.hidden = a.hidden

LEMMA StoryGood ==
  ASSUME SpotterInv, app' \in Pages, SameStory(app, app'),
         UNCHANGED <<link, calls, faults>>, touches' \in 0 .. MaxTouches
  PROVE  Good
BY PageGood DEF SameStory

LEMMA SendCarsGood ==
  ASSUME SpotterInv, NEW a \in Pages, SameStory(app, a), NEW next \in Triples,
         NEW row \in Rows, SendCars(a, next, row), UNCHANGED faults,
         touches' \in 0 .. MaxTouches
  PROVE  Good
<1> DEFINE t == [a EXCEPT !.optimistic = next]
<1>1. /\ Sound(link) /\ Fits(app, link) /\ calls \in Nat
      /\ a.replayed = app.replayed /\ app.replayed = link.replayed
  BY DEF SpotterInv, ClientInv, SameStory, Fits
<1>2. t \in Pages /\ SameStory(a, t) /\ t.pending = a.pending
  BY DEF Pages, SameStory
<1>3. IF a.replayed
      THEN /\ Call
           /\ link' = Send(link, Issued("cars"))
           /\ app' = [t EXCEPT !.triple = next]
      ELSE /\ app' = [t EXCEPT !.pending[row] = next[row]]
           /\ UNCHANGED <<link, calls>>
  BY DEF SendCars
<1> HIDE DEF t
<1>4. CASE a.replayed
  <2>1. CallSend
    BY <1>3, <1>4 DEF CallSend, Kinds
  <2>2. Sound(link') /\ Spoken(link, link') /\ SameLink(link, link')
    BY <1>1, <2>1, CallSendSound
  <2>3. link'.cars = Null
    BY <1>1, <1>4, <2>2 DEF Spoken, SameQueue, Fits
  <2>4. /\ app' \in Pages /\ app'.conn = t.conn /\ app'.replayed = t.replayed
        /\ app'.retry = t.retry /\ app'.shown = t.shown /\ app'.screen = t.screen
        /\ app'.form = t.form /\ app'.hidden = t.hidden
    BY <1>2, <1>3, <1>4 DEF Pages
  <2>5. /\ app'.conn = app.conn /\ app'.replayed = app.replayed
        /\ app'.retry = app.retry /\ app'.shown = app.shown /\ app'.screen = app.screen
        /\ app'.form = app.form /\ app'.hidden = app.hidden
    BY <1>2, <2>4 DEF SameStory
  <2>6. Fits(app', link')
    BY <1>1, <1>4, <2>2, <2>3, <2>5 DEF Fits, SameLink
  <2>7. Settles /\ Stays(app, app')
    BY <2>5 DEF Settles, Stays
  <2> QED
    BY <2>1, <2>4, <2>6, <2>7 DEF Good, Next
<1>5. CASE ~a.replayed
  <2> DEFINE p == [t.pending EXCEPT ![row] = next[row]]
  <2>1. p \in [Rows -> Levels \union {Null}]
    BY <1>2 DEF Pages, Triples
  <2>2. app' = [t EXCEPT !.pending = p] /\ UNCHANGED <<link, calls>>
    BY <1>3, <1>5
  <2> HIDE DEF p
  <2>3. app' \in Pages /\ SameStory(t, app')
    BY <1>2, <2>1, <2>2 DEF Pages, SameStory
  <2>4. SameStory(app, app')
    BY <1>2, <2>3 DEF SameStory
  <2> QED
    BY <2>2, <2>3, <2>4, StoryGood
<1> QED
  BY <1>4, <1>5

LEMMA TapLaneOrMessageGood ==
  ASSUME SpotterInv, TapLaneOrMessage
  PROVE  Good
<1>1. /\ Sound(link) /\ Fits(app, link) /\ calls \in Nat /\ app \in Pages
      /\ app' = app /\ faults' = faults /\ Call /\ touches' \in 0 .. MaxTouches
  BY TouchCounts DEF SpotterInv, ClientInv, TapLaneOrMessage
<1>2. PICK kind \in {"lane", "msg"} : link' = Send(link, Issued(kind))
  BY DEF TapLaneOrMessage
<1>3. CallSend
  BY <1>1, <1>2 DEF CallSend, Kinds
<1>4. Sound(link') /\ Spoken(link, link') /\ SameLink(link, link')
  BY <1>1, <1>3, CallSendSound
<1>5. link'.cars = Null
  <2>1. CASE link.replayed
    BY <1>1, <1>4, <2>1 DEF Spoken, SameQueue, Fits
  <2>2. CASE ~link.replayed
    <3>1. Issued(kind) \in Intents /\ Issued(kind).kind = kind
      BY <1>1, IssuedIntent DEF Kinds
    <3>2. link' = Queue(link, Issued(kind))
      BY <1>2, <2>2, <3>1 DEF Send
    <3>3. Queued(link, link', Issued(kind))
      BY <1>1, <3>1, <3>2, QueueFields DEF Sound, Stable
    <3> QED
      BY <1>1, <3>1, <3>3 DEF Queued, Fits
  <2> QED
    BY <2>1, <2>2
<1>6. Fits(app', link')
  BY <1>1, <1>4, <1>5 DEF Fits, SameLink
<1>7. Settles /\ Stays(app, app')
  BY <1>1 DEF Settles, Stays
<1> QED
  BY <1>1, <1>3, <1>6, <1>7 DEF Good, Next

LEMMA KeyFaderGood ==
  ASSUME SpotterInv, KeyFader
  PROVE  Good
<1>1. app \in Pages /\ faults' = faults /\ touches' \in 0 .. MaxTouches
  BY TouchCounts DEF SpotterInv, KeyFader
<1>2. PICK row \in Rows, level \in Levels :
        SendCars(app, WithRow(SelectedCars(app), row, level), row)
  BY DEF KeyFader
<1>3. WithRow(SelectedCars(app), row, level) \in Triples
  BY <1>1, RowIsTriple, SelectedIsTriple
<1>4. SameStory(app, app)
  BY DEF SameStory
<1> QED
  BY <1>1, <1>2, <1>3, <1>4, SendCarsGood

LEMMA DragGood ==
  ASSUME SpotterInv, StartDrag \/ MoveDrag
  PROVE  Good
<1>1. /\ app \in Pages /\ UNCHANGED <<link, calls, faults>>
      /\ touches' \in 0 .. MaxTouches
  BY TouchCounts DEF SpotterInv, StartDrag, MoveDrag
<1>2. PICK d \in [row : Rows, base : Triples, level : Levels] :
        app' = [app EXCEPT !.drag = d]
  <2>1. CASE StartDrag
    BY <1>1, <2>1, SelectedIsTriple DEF StartDrag
  <2>2. CASE MoveDrag
    <3>1. PICK level \in Levels : app' = [app EXCEPT !.drag.level = level]
      BY <2>2 DEF MoveDrag
    <3>2. app.drag \in [row : Rows, base : Triples, level : Levels]
      BY <1>1, <2>2 DEF MoveDrag, Pages
    <3> DEFINE e == [app.drag EXCEPT !.level = level]
    <3>3. e \in [row : Rows, base : Triples, level : Levels]
      BY <3>2
    <3>4. app' = [app EXCEPT !.drag = e]
      BY <3>1
    <3> QED
      BY <3>3, <3>4
  <2> QED
    BY <2>1, <2>2
<1>3. app' \in Pages /\ SameStory(app, app')
  BY <1>1, <1>2 DEF Pages, SameStory
<1> QED
  BY <1>1, <1>3, StoryGood

LEMMA EndDragGood ==
  ASSUME SpotterInv, EndDrag
  PROVE  Good
<1> DEFINE d == app.drag
           a == [app EXCEPT !.drag = Null]
<1>1. /\ app \in Pages /\ faults' = faults /\ touches' = touches
      /\ touches' \in 0 .. MaxTouches /\ d # Null
  BY DEF SpotterInv, EndDrag
<1>2. d.base \in Triples /\ d.row \in Rows /\ d.level \in Levels
  BY <1>1 DEF Pages
<1>3. IF d.level = d.base[d.row]
      THEN app' = a /\ UNCHANGED <<link, calls>>
      ELSE SendCars(a, WithRow(d.base, d.row, d.level), d.row)
  BY DEF EndDrag
<1> HIDE DEF d
<1>4. a \in Pages /\ SameStory(app, a)
  BY <1>1 DEF Pages, SameStory
<1> HIDE DEF a
<1>5. CASE d.level = d.base[d.row]
  BY <1>1, <1>3, <1>4, <1>5, StoryGood
<1>6. CASE d.level # d.base[d.row]
  BY <1>1, <1>2, <1>3, <1>4, <1>6, RowIsTriple, SendCarsGood
<1> QED
  BY <1>5, <1>6

LEMMA OptimismEndsGood ==
  ASSUME SpotterInv, OptimismEnds
  PROVE  Good
<1>1. /\ app \in Pages /\ UNCHANGED <<link, calls, faults>>
      /\ touches' \in 0 .. MaxTouches /\ app' = [app EXCEPT !.optimistic = Null]
  BY DEF SpotterInv, OptimismEnds
<1>2. app' \in Pages /\ SameStory(app, app')
  BY <1>1 DEF Pages, SameStory
<1> QED
  BY <1>1, <1>2, StoryGood

--------------------------------------------------------------------------------
(* What the client tells the page.                                             *)

LEMMA RebasedIsTriple ==
  ASSUME NEW a \in Pages, NEW cars \in Triples
  PROVE  /\ Rebased(cars, a.pending) \in Triples /\ Rebased(cars, a.pending) # Null
         /\ Rebase(a, cars) \in Triples \union {Null}
<1>1. a.pending \in [Rows -> Levels \union {Null}]
  BY DEF Pages
<1>2. Rebased(cars, a.pending) \in Triples
  BY <1>1 DEF Rebased, Triples
<1>3. Null \notin Triples
  BY SpotterAssumption DEF Triples
<1> QED
  BY <1>2, <1>3 DEF Rebase

\* b is the page a after it was shown the cars of a room.
Seen(a, room, cars, b) ==
  /\ b \in Pages /\ b.replayed /\ ~b.retry
  /\ b.shown.cars = cars
  /\ b.pending = (IF a.replayed THEN a.pending ELSE NothingPending)
  /\ b.triple = (IF Rebase(a, cars) = Null THEN a.triple ELSE Rebase(a, cars))
  /\ b.conn = a.conn /\ b.screen = a.screen /\ b.form = a.form /\ b.hidden = a.hidden

LEMMA OnStateSeen ==
  ASSUME NEW a \in Pages, NEW room \in Rooms, NEW cars \in Triples
  PROVE  Seen(a, room, cars, OnState(a, room, cars))
<1> DEFINE t == TRUE
           f == FALSE
           shown == [room |-> room, cars |-> cars]
           pending == IF a.replayed THEN a.pending ELSE NothingPending
           next == Rebase(a, cars)
           seen == [a EXCEPT !.replayed = t, !.retry = f, !.shown = shown,
                             !.pending = pending]
           sent == [seen EXCEPT !.optimistic = next, !.triple = next]
           b == OnState(a, room, cars)
<1>1. t \in BOOLEAN /\ t /\ f \in BOOLEAN /\ ~f
  OBVIOUS
<1>2. shown \in [room : Rooms, cars : Triples] /\ shown.cars = cars
  OBVIOUS
<1>3. pending \in [Rows -> Levels \union {Null}]
  BY DEF Pages, NothingPending
<1>4. next \in Triples \union {Null}
  BY RebasedIsTriple
<1>5. b = IF next = Null THEN seen ELSE sent
  BY DEF OnState
<1> HIDE DEF t, f, shown, pending, next, b
<1>6. /\ seen \in Pages /\ seen.replayed = t /\ seen.retry = f /\ seen.shown = shown
      /\ seen.pending = pending /\ seen.triple = a.triple
      /\ seen.conn = a.conn /\ seen.screen = a.screen /\ seen.form = a.form
      /\ seen.hidden = a.hidden
  BY <1>1, <1>2, <1>3 DEF Pages
<1> HIDE DEF seen
<1>7. /\ sent \in Pages /\ sent.replayed = t /\ sent.retry = f /\ sent.shown = shown
      /\ sent.pending = pending /\ sent.triple = next
      /\ sent.conn = a.conn /\ sent.screen = a.screen /\ sent.form = a.form
      /\ sent.hidden = a.hidden
  BY <1>4, <1>6 DEF Pages
<1> HIDE DEF sent
<1>8. /\ b \in Pages /\ b.replayed /\ ~b.retry
      /\ b.shown.cars = cars /\ b.pending = pending
      /\ b.triple = (IF next = Null THEN a.triple ELSE next)
      /\ b.conn = a.conn /\ b.screen = a.screen /\ b.form = a.form
      /\ b.hidden = a.hidden
  BY <1>1, <1>2, <1>5, <1>6, <1>7
<1> QED
  BY <1>8 DEF Seen, b, pending, next

\* The rebased triple goes out with the flush of what was pending.
LEMMA RebasedIsSent ==
  ASSUME Sound(link), calls \in Nat, NEW z \in LinkStates, Flushed(z, link'),
         link' \in LinkStates, Queued(link, z, Issued("cars"))
  PROVE  \E h \in Elements(link'.handed) :
           h.intent.kind = "cars" /\ h.intent.id = calls + 1
<1> DEFINE i == Issued("cars")
           p == Pending(z)
<1>1. i \in Intents /\ i # Null /\ i.kind = "cars" /\ i.id = calls + 1
  BY IssuedIntent DEF Kinds
<1>2. z.cars = i
  BY <1>1 DEF Queued
<1> HIDE DEF i
<1>3. p \in Seq(Intents) /\ i \in Elements(p)
  BY <1>1, <1>2, PendingElements
<1> HIDE DEF p
<1>4. PICK k \in 1 .. Len(p) : p[k] = i
  BY <1>3, ElementsOf
<1>5. PICK w \in Seq(Handed) : /\ link'.handed = z.handed \o w
                               /\ Len(w) = Len(p)
                               /\ \A n \in 1 .. Len(p) : w[n].intent = p[n]
  BY DEF Flushed, SentAll, p
<1>6. w[k].intent = i /\ w[k] \in Elements(w)
  BY <1>4, <1>5, ElementsOf
<1>7. z.handed \in Seq(Handed)
  BY DEF LinkStates
<1>8. Elements(link'.handed) = Elements(z.handed) \union Elements(w)
  BY <1>5, <1>7, ElementsOfConcat
<1> QED
  BY <1>1, <1>6, <1>8

\* A frame that is passed on is one the client may be given.
LEMMA FrameIsDelivered ==
  ASSUME SpotterInv, NEW s \in Slots, NEW seq \in 0 .. MaxSeq, FrameArrives(s, seq)
  PROVE  /\ Delivers(s, seq)
         /\ Accepts(s, seq) => \E cars \in Triples :
              /\ app' = OnState(app, link.wires[s].url.room, cars)
              /\ Rebase(app, cars) # Null => calls' = calls + 1
<1> DEFINE heard == [link EXCEPT !.wires[s].spoke = TRUE, !.wires[s].synced = @ \/ seq > 0]
           c == Issued("cars")
<1>1. /\ Sound(link) /\ Fits(app, link) /\ calls \in Nat /\ app \in Pages
      /\ link.replayed \in BOOLEAN /\ app.replayed \in BOOLEAN
  BY DEF SpotterInv, ClientInv, Sound, Stable, LinkStates, Pages
<1>2. /\ link.wires[s] # Null /\ link.wires[s].phase = "open" /\ faults' = faults
      /\ IF Accepts(s, seq)
         THEN \E cars \in Triples :
                /\ app' = OnState(app, link.wires[s].url.room, cars)
                /\ IF Rebase(app, cars) = Null
                   THEN link' = HandleMessage(heard, s, seq, Null) /\ UNCHANGED calls
                   ELSE Call /\ link' = HandleMessage(heard, s, seq, c)
         ELSE link' = HandleMessage(heard, s, seq, Null) /\ UNCHANGED <<calls, app>>
  BY DEF FrameArrives
<1>3. c # Null
  BY <1>1, IssuedIntent DEF Kinds
<1>4. Null \in Said(s, seq)
  BY DEF Said
<1>5. calls < MaxCalls /\ Accepts(s, seq) /\ ~link.replayed => c \in Said(s, seq)
  BY DEF Said, Accepts
<1>6. ASSUME NEW said \in Said(s, seq), link' = HandleMessage(heard, s, seq, said),
             calls' = IF said = Null THEN calls ELSE calls + 1
      PROVE  Delivers(s, seq)
  BY <1>2, <1>6 DEF Delivers
<1> HIDE DEF heard, c
<1>7. CASE ~Accepts(s, seq)
  BY <1>2, <1>4, <1>6, <1>7
<1>8. CASE Accepts(s, seq)
  <2>1. PICK cars \in Triples :
          /\ app' = OnState(app, link.wires[s].url.room, cars)
          /\ IF Rebase(app, cars) = Null
             THEN link' = HandleMessage(heard, s, seq, Null) /\ UNCHANGED calls
             ELSE Call /\ link' = HandleMessage(heard, s, seq, c)
    BY <1>2, <1>8
  <2>2. CASE Rebase(app, cars) = Null
    BY <1>4, <1>6, <2>1, <2>2
  <2>3. CASE Rebase(app, cars) # Null
    <3>1. ~link.replayed
      BY <1>1, <2>3 DEF Rebase, Fits
    <3>2. calls < MaxCalls /\ calls' = calls + 1 /\ link' = HandleMessage(heard, s, seq, c)
      BY <2>1, <2>3 DEF Call
    <3> QED
      BY <1>3, <1>5, <1>6, <1>8, <2>1, <3>1, <3>2
  <2> QED
    BY <2>2, <2>3
<1> QED
  BY <1>7, <1>8

LEMMA FrameGood ==
  ASSUME SpotterInv, NEW s \in Slots, NEW seq \in 0 .. MaxSeq, FrameArrives(s, seq)
  PROVE  Good
<1>1. /\ Sound(link) /\ Fits(app, link) /\ calls \in Nat /\ app \in Pages
      /\ link \in LinkStates /\ link.wires[s] \in Wires \union {Null}
      /\ touches' = touches /\ touches' \in 0 .. MaxTouches
  BY DEF SpotterInv, ClientInv, Sound, Stable, LinkStates, FrameArrives
<1>2. Delivers(s, seq) /\ Next
  BY FrameIsDelivered DEF Next
<1>3. /\ Sound(link') /\ Delivered(link, link')
      /\ link'.url = link.url /\ link'.rejected = link.rejected
      /\ IF Accepts(s, seq) THEN link'.replayed = TRUE ELSE link'.replayed = link.replayed
  BY <1>1, <1>2, DeliversSound DEF Accepts
<1>4. link'.cars = Null
  BY <1>1, <1>3 DEF Delivered, SameQueue, Flushed, Fits
<1>5. CASE ~Accepts(s, seq)
  <2> DEFINE x == [link.wires[s] EXCEPT !.spoke = TRUE, !.synced = @ \/ seq > 0]
             g == [link EXCEPT !.wires[s] = x]
  <2>1. app' = app /\ link' = HandleMessage(g, s, seq, Null)
    BY <1>5 DEF FrameArrives
  <2> HIDE DEF x
  <2>2. /\ g.socket = link.socket /\ g.lastSeen = link.lastSeen /\ g.status = link.status
        /\ "status" \in DOMAIN g
    BY <1>1 DEF LinkStates
  <2>3. link.lastSeen \in Nat /\ seq \in Nat
    BY <1>1 DEF LinkStates
  <2> HIDE DEF g
  <2>4. link'.status = link.status
    BY <1>5, <2>1, <2>2, <2>3 DEF Accepts, HandleMessage
  <2>5. Fits(app', link')
    BY <1>1, <1>3, <1>4, <1>5, <2>1, <2>4 DEF Fits
  <2>6. Settles /\ Stays(app, app')
    BY <2>1 DEF Settles, Stays
  <2> QED
    BY <1>1, <1>2, <2>1, <2>5, <2>6 DEF Good
<1>6. CASE Accepts(s, seq)
  <2>1. PICK cars \in Triples :
          /\ app' = OnState(app, link.wires[s].url.room, cars)
          /\ Rebase(app, cars) # Null => calls' = calls + 1
    BY <1>6, FrameIsDelivered
  <2>2. link.wires[s].url.room \in Rooms
    BY <1>1, <1>2, SpotterAssumption DEF Delivers, Wires, Forms
  <2>3. Seen(app, link.wires[s].url.room, cars, app')
    BY <1>1, <2>1, <2>2, OnStateSeen
  <2>4. /\ app' \in Pages /\ app'.replayed /\ ~app'.retry /\ app'.shown.cars = cars
        /\ app'.conn = app.conn /\ app'.screen = app.screen /\ app'.form = app.form
        /\ app'.hidden = app.hidden /\ app'.replayed \in BOOLEAN
    BY <2>3 DEF Seen, Pages
  <2>5. link.status = "open"
    <3>1. link.socket # Null /\ link.wires[link.socket].phase = "open"
      BY <1>2, <1>6, NullAssumption DEF Accepts, Delivers
    <3> QED
      BY <1>1, <3>1 DEF Sound, Stable, InUse
  <2>6. link'.status = "open" /\ link'.replayed = TRUE
    <3>1. link'.replayed = TRUE /\ link'.status \in {"connecting", "open", "closed"}
      BY <1>3, <1>6 DEF Sound, Stable, LinkStates
    <3> QED
      BY <1>3, <3>1 DEF Sound, Watched
  <2>7. Fits(app', link')
    BY <1>1, <1>3, <1>4, <2>4, <2>5, <2>6 DEF Fits
  <2>8. Stays(app, app')
    BY <2>4 DEF Stays
  <2>9. Settles
    <3> SUFFICES ASSUME ~app.replayed
                 PROVE  Settles
      BY DEF Settles
    <3> DEFINE next == Rebase(app, cars)
               rebased == Rebased(cars, app.pending)
    <3>1. rebased \in Triples /\ rebased # Null /\ cars \in Triples
      BY <1>1, RebasedIsTriple
    <3>2. next = IF rebased # cars THEN rebased ELSE Null
      BY DEF Rebase
    <3>3. \A r \in Rows :
            rebased[r] = IF app.pending[r] = Null THEN cars[r] ELSE app.pending[r]
      BY DEF Rebased
    <3>4. next # Null => calls' = calls + 1
      BY <2>1
    <3>5. app'.pending = NothingPending /\ app'.triple = next
      BY <1>1, <2>3 DEF Seen, Fits
    <3> HIDE DEF next, rebased
    <3>6. \A r \in Rows :
            LET level == IF app.pending[r] = Null THEN app'.shown.cars[r] ELSE app.pending[r]
            IN  IF app'.triple = Null THEN level = app'.shown.cars[r]
                ELSE app'.triple[r] = level
      BY <2>4, <3>1, <3>2, <3>3, <3>5
    <3>7. ASSUME next # Null
          PROVE  \E h \in Elements(link'.handed) :
                   h.intent.kind = "cars" /\ h.intent.id = calls' /\ calls' # calls
      <4>1. calls' = calls + 1 /\ calls' # calls
        BY <1>1, <3>4, <3>7
      <4>2. PICK z \in LinkStates : Flushed(z, link') /\ Queued(link, z, Issued("cars"))
        BY <1>3, <4>1 DEF Delivered
      <4>3. link' \in LinkStates
        BY <1>3 DEF Sound, Stable
      <4>4. \E h \in Elements(link'.handed) :
              h.intent.kind = "cars" /\ h.intent.id = calls + 1
        BY <1>1, <4>2, <4>3, RebasedIsSent
      <4> QED
        BY <4>1, <4>4
    <3> QED
      BY <3>5, <3>6, <3>7 DEF Settles
  <2> QED
    BY <1>1, <1>2, <2>4, <2>7, <2>8, <2>9 DEF Good
<1> QED
  BY <1>5, <1>6

--------------------------------------------------------------------------------
(* A socket closes.                                                            *)

\* A close that is not terminal, or of a socket the client gave up.
LEMMA ClosesMoves ==
  ASSUME Sound(link), NEW s \in Slots, link.wires[s] # Null,
         NEW r \in HandleClose(Gone(link, s), s, FALSE, s)
  PROVE  Moved(link, r)
<1>1. link \in LinkStates
  BY DEF Sound, Stable
<1> DEFINE g == Gone(link, s)
           f == FALSE
<1>2. f \in BOOLEAN /\ ~f
  OBVIOUS
<1>3. r \in HandleClose(g, s, f, s)
  OBVIOUS
<1>4. Sound(r) /\ Shows(ViewOf(link), ViewOf(r)) /\ Keeps(link, r)
  BY CloseSound
<1>5. g.url = link.url /\ g.rejected = link.rejected /\ g.socket = link.socket
      /\ g \in LinkStates
  BY <1>1 DEF Gone, LinkStates
<1> HIDE DEF f, g
<1>6. r.url = link.url /\ (r.rejected => link.rejected)
  <2>1. CASE g.socket # s
    BY <1>3, <1>5, <2>1 DEF HandleClose
  <2>2. CASE g.socket = s
    <3> DEFINE c == Closed(g, f)
    <3>1. PICK delay \in Delays(g.backoff) : r = ScheduleReconnect(c, delay)
      BY <1>2, <1>3, <2>2 DEF HandleClose, f
    <3>2. c.url = g.url /\ c.rejected = f
      BY <1>2, <1>5 DEF Closed, LinkStates
    <3> HIDE DEF c
    <3> QED
      BY <1>2, <1>5, <3>1, <3>2 DEF ScheduleReconnect
  <2> QED
    BY <2>1, <2>2
<1> QED
  BY <1>4, <1>6 DEF Moved

\* The session of a page that is turned away is over, and nothing waits.
LEMMA OverIsBare ==
  ASSUME NEW a \in Pages, ~a.replayed => a.triple = Null
  PROVE  LET o == [SessionOver(a) EXCEPT !.pending = NothingPending, !.conn = "closed"]
         IN  /\ o \in Pages /\ ~o.replayed /\ o.triple = Null /\ o.conn = "closed"
             /\ o.shown = a.shown /\ o.form = a.form /\ o.screen = a.screen
             /\ o.hidden = a.hidden /\ o.retry = a.retry
<1> DEFINE f == FALSE
           p == NothingPending
           n == [a EXCEPT !.replayed = f, !.triple = Null]
           k == "closed"
           e == SessionOver(a)
           q == [e EXCEPT !.pending = p]
           o == [q EXCEPT !.conn = k]
<1>1. /\ f \in BOOLEAN /\ ~f /\ p \in [Rows -> Levels \union {Null}]
      /\ k \in {"connecting", "open", "closed"}
  BY DEF NothingPending
<1>2. e = IF a.replayed THEN n ELSE a
  BY DEF SessionOver
<1> HIDE DEF f, p, k, e
<1>3. /\ n \in Pages /\ n.replayed = f /\ n.triple = Null
      /\ n.shown = a.shown /\ n.form = a.form /\ n.screen = a.screen
      /\ n.hidden = a.hidden /\ n.retry = a.retry
  BY <1>1 DEF Pages
<1> HIDE DEF n
<1>4. /\ e \in Pages /\ ~e.replayed /\ e.triple = Null
      /\ e.shown = a.shown /\ e.form = a.form /\ e.screen = a.screen
      /\ e.hidden = a.hidden /\ e.retry = a.retry
  BY <1>1, <1>2, <1>3
<1>5. /\ q \in Pages /\ q.replayed = e.replayed /\ q.triple = e.triple
      /\ q.shown = e.shown /\ q.form = e.form /\ q.screen = e.screen
      /\ q.hidden = e.hidden /\ q.retry = e.retry
  BY <1>1, <1>4 DEF Pages
<1> HIDE DEF q
<1>6. /\ o \in Pages /\ o.replayed = q.replayed /\ o.triple = q.triple /\ o.conn = k
      /\ o.shown = q.shown /\ o.form = q.form /\ o.screen = q.screen
      /\ o.hidden = q.hidden /\ o.retry = q.retry
  BY <1>1, <1>5 DEF Pages
<1>7. o = [SessionOver(a) EXCEPT !.pending = NothingPending, !.conn = "closed"]
  BY DEF o, q, e, p, k
<1> HIDE DEF o
<1>8. /\ o \in Pages /\ ~o.replayed /\ o.triple = Null /\ o.conn = "closed"
      /\ o.shown = a.shown /\ o.form = a.form /\ o.screen = a.screen
      /\ o.hidden = a.hidden /\ o.retry = a.retry
  BY <1>4, <1>5, <1>6 DEF k
<1> QED
  BY <1>7, <1>8

\* A page that is turned away has left the room, or is entering another one.
LEMMA TurnedAwayGood ==
  ASSUME SpotterInv, NEW s \in Slots, link.socket = s, NEW auth \in BOOLEAN,
         TurnedAway(Gone(link, s), auth)
  PROVE  /\ app' \in Pages /\ Fits(app', link') /\ Stays(app, app') /\ ~app'.replayed
         /\ \E slot \in Free(Gone(link, s)) :
              link' \in HandleClose(Gone(link, s), s, TRUE, slot)
<1> DEFINE t == TRUE
           g == Gone(link, s)
           c == Closed(g, t)
           left == Disconnect(c)
           over == [SessionOver(app) EXCEPT !.pending = NothingPending, !.conn = "closed"]
<1>1. /\ Sound(link) /\ Fits(app, link) /\ app \in Pages /\ link \in LinkStates
      /\ (~app.replayed => app.triple = Null) /\ app.form \in Forms
  BY DEF SpotterInv, ClientInv, Sound, Stable, Fits, Pages
<1>2. /\ over \in Pages /\ ~over.replayed /\ over.triple = Null /\ over.conn = "closed"
      /\ over.shown = app.shown /\ over.form = app.form /\ over.screen = app.screen
      /\ over.hidden = app.hidden /\ over.retry = app.retry
  BY <1>1, OverIsBare
<1>3. /\ g.socket = s /\ g.url = link.url /\ s \in Free(g)
      /\ t \in BOOLEAN /\ t
  BY <1>1 DEF Gone, Free, LinkStates
<1>4. /\ Idle(c) /\ PendingOfRoom(c) /\ c.url = link.url /\ c.url # Null
  BY <1>1, <1>3, ClosedIdle
<1>5. /\ Sound(left) /\ NoQueue(c, left) /\ left.url = Null /\ left.replayed = FALSE
      /\ left.socket = Null /\ ViewOf(left) = View!NoSession
  <2>1. c \in LinkStates /\ HandedToRoom(c) /\ c.socket = Null /\ OneInUse(c)
    BY <1>4 DEF Idle, Unplugged, OneInUse
  <2> QED
    BY <2>1, DisconnectSound
<1>6. left.status = "closed" /\ left.cars = Null
  <2>1. ViewOf(left).status = left.status
    BY DEF ViewOf
  <2> HIDE DEF left
  <2> QED
    BY <1>5, <2>1 DEF NoQueue, View!NoSession
<1>7. \A slot : HandleClose(g, s, TRUE, slot) = Reactions(c, slot)
  BY <1>3 DEF HandleClose
<1>8. \/ \E room \in Rooms \ {app.form.room}, slot \in Free(g) :
           LET form == [app.form EXCEPT !.room = room]
           IN  /\ auth /\ app.retry
               /\ link' = Connect(left, form, slot)
               /\ app' = [Entered([over EXCEPT !.retry = FALSE], form) EXCEPT
                            !.conn = "connecting"]
      \/ link' = left /\ app' = [over EXCEPT !.screen = "join", !.shown = Null]
  BY DEF TurnedAway
<1> HIDE DEF g, c, left, over, t
<1>9. CASE link' = left /\ app' = [over EXCEPT !.screen = "join", !.shown = Null]
  <2>1. /\ app' \in Pages /\ ~app'.replayed /\ app'.triple = Null /\ app'.conn = "closed"
        /\ app'.shown = Null /\ app'.screen = "join"
    BY <1>2, <1>9 DEF Pages
  <2>2. app'.replayed = link'.replayed
    BY <1>5, <1>9, <2>1 DEF Pages
  <2>3. Fits(app', link') /\ Stays(app, app')
    BY <1>5, <1>6, <1>9, <2>1, <2>2 DEF Fits, Stays
  <2>4. link' \in HandleClose(g, s, TRUE, s)
    BY <1>7, <1>9 DEF Reactions, left
  <2> QED
    BY <1>3, <2>1, <2>3, <2>4 DEF g
<1>10. ASSUME NEW room \in Rooms \ {app.form.room}, NEW slot \in Free(g),
              app.retry, link' = Connect(left, [app.form EXCEPT !.room = room], slot),
              app' = [Entered([over EXCEPT !.retry = FALSE],
                              [app.form EXCEPT !.room = room]) EXCEPT !.conn = "connecting"]
       PROVE  /\ app' \in Pages /\ Fits(app', link') /\ Stays(app, app') /\ ~app'.replayed
              /\ link' \in HandleClose(g, s, TRUE, slot)
  <2> DEFINE form == [app.form EXCEPT !.room = room]
             f == FALSE
             n == NothingPending
             o == [over EXCEPT !.retry = f]
             e == [o EXCEPT !.pending = n, !.form = form, !.screen = "console",
                            !.shown = Null, !.triple = Null]
  <2>1. form \in Forms /\ form.room # app.form.room /\ form # app.form
    BY <1>1 DEF Forms
  <2>2. form \in Urls /\ form # link.url /\ slot \in Slots /\ form # Null
    <3>1. link.url \in {Null, app.form}
      BY <1>1 DEF Fits
    <3>2. form \in Urls /\ form # Null
      BY <2>1, SpotterAssumption, NullAssumption
    <3> QED
      BY <2>1, <3>1, <3>2 DEF Free
  <2>3. n \in [Rows -> Levels \union {Null}] /\ f \in BOOLEAN /\ ~f
    BY DEF NothingPending
  <2>4. link' = Connect(left, form, slot) /\ app' = [e EXCEPT !.conn = "connecting"]
    BY <1>10 DEF Entered
  <2> HIDE DEF form, n, f
  <2>5. o \in Pages /\ o.replayed = over.replayed /\ o.retry = f
    BY <1>2, <2>3 DEF Pages
  <2> HIDE DEF o
  <2>6. /\ e \in Pages /\ e.replayed = o.replayed /\ e.retry = o.retry /\ e.form = form
        /\ e.screen = "console" /\ e.triple = Null
    BY <2>1, <2>3, <2>5 DEF Pages
  <2> HIDE DEF e
  <2>7. /\ app' \in Pages /\ app'.replayed = e.replayed /\ app'.retry = e.retry
        /\ app'.form = e.form /\ app'.screen = e.screen /\ app'.triple = e.triple
        /\ app'.conn = "connecting"
    BY <2>4, <2>6 DEF Pages
  <2>8. ~app'.replayed /\ ~app'.retry /\ app'.replayed \in BOOLEAN
    BY <1>2, <2>3, <2>5, <2>6, <2>7 DEF Pages
  <2>9. /\ Sound(link') /\ link'.url = form
        /\ SameQueue(left, link') \/ NoQueue(left, link')
        /\ \A v : ViewOf(link') = View!Connecting(v)
    <3>1. ~Healthy(left, form)
      BY <1>5 DEF Healthy
    <3> QED
      BY <1>5, <2>2, <2>4, <3>1, ConnectSound
  <2>10. link'.status = "connecting" /\ link'.replayed = FALSE
    <3>1. ViewOf(link') = View!Connecting(ViewOf(link))
      BY <2>9
    <3> QED
      BY <3>1 DEF ViewOf, View!Connecting
  <2>11. link'.cars = Null /\ ~link'.rejected
    BY <1>6, <2>2, <2>9, <2>10, NotTurnedAway DEF SameQueue, NoQueue
  <2>12. Fits(app', link')
    BY <2>6, <2>7, <2>8, <2>9, <2>10, <2>11 DEF Fits
  <2>13. Stays(app, app')
    BY <1>1, <1>10 DEF Stays, Fits
  <2>14. link' \in HandleClose(g, s, TRUE, slot)
    <3>1. link' = Connect(Disconnect(c), form, slot)
      BY <2>4 DEF left
    <3>2. form \in Urls \ {c.url}
      BY <1>4, <2>2
    <3>3. link' \in Reactions(c, slot)
      BY <3>1, <3>2 DEF Reactions
    <3> QED
      BY <1>7, <3>3
  <2> QED
    BY <2>7, <2>8, <2>12, <2>13, <2>14
<1> QED
  BY <1>8, <1>9, <1>10 DEF g

LEMMA SocketClosesGood ==
  ASSUME SpotterInv, NEW s \in Slots, SocketCloses(s)
  PROVE  Good
<1> DEFINE g == Gone(link, s)
<1>1. /\ Sound(link) /\ Fits(app, link) /\ app \in Pages /\ link \in LinkStates
      /\ touches' = touches /\ touches' \in 0 .. MaxTouches /\ calls' = calls
      /\ link.wires[s] # Null
      /\ IF link.wires[s].closed THEN UNCHANGED faults
         ELSE link.wires[s].phase # "dead" /\ Fault
  BY DEF SpotterInv, ClientInv, Sound, Stable, SocketCloses
<1>2. \/ link' \in HandleClose(g, s, FALSE, s) /\ app' = Told(app, link')
      \/ /\ link.socket = s /\ link.wires[s].phase = "open"
         /\ \E auth \in BOOLEAN : TurnedAway(g, auth)
  BY DEF SocketCloses
<1>3. s \in Free(g)
  BY <1>1 DEF Gone, Free, LinkStates
<1> HIDE DEF g
<1>4. CASE link' \in HandleClose(g, s, FALSE, s) /\ app' = Told(app, link')
  <2>1. Moved(link, link')
    BY <1>1, <1>4, ClosesMoves DEF g
  <2>2. /\ app' \in Pages /\ Fits(app', link') /\ Stays(app, app')
        /\ app'.replayed => app.replayed
    BY <1>1, <1>4, <2>1, MovedFits
  <2>3. Closes(s)
    BY <1>1, <1>3, <1>4 DEF Closes, g
  <2> QED
    BY <1>1, <2>2, <2>3 DEF Good, Settles, Next
<1>5. CASE /\ link.socket = s /\ link.wires[s].phase = "open"
           /\ \E auth \in BOOLEAN : TurnedAway(g, auth)
  <2>1. /\ app' \in Pages /\ Fits(app', link') /\ Stays(app, app') /\ ~app'.replayed
        /\ \E slot \in Free(g) : link' \in HandleClose(g, s, TRUE, slot)
    BY <1>5, TurnedAwayGood DEF g
  <2>2. TRUE \in {FALSE, link.wires[s].phase = "open"}
    BY <1>5
  <2>3. Closes(s)
    BY <1>1, <2>1, <2>2 DEF Closes, g
  <2> QED
    BY <1>1, <2>1, <2>3 DEF Good, Settles, Next
<1> QED
  BY <1>2, <1>4, <1>5

--------------------------------------------------------------------------------
(* Every step of the page.                                                     *)

LEMMA InitSpotter == SpotterInit => SpotterInv
<1> SUFFICES ASSUME SpotterInit
             PROVE  SpotterInv
  OBVIOUS
<1>1. ClientInv /\ ViewOf(link) = View!NoSession /\ link.url = Null /\ link.cars = Null
  BY InitClient DEF SpotterInit, Init
<1>2. link.status = "closed" /\ link.replayed = FALSE
  BY DEF SpotterInit, Init
<1> DEFINE f == FALSE
           n == NothingPending
<1>3. f \in BOOLEAN /\ ~f /\ n \in [Rows -> Levels \union {Null}]
  BY DEF NothingPending
<1>4. PICK form \in Forms :
        app = [screen |-> "loading", joinMode |-> "new", hidden |-> f, form |-> form,
               client |-> form.name, conn |-> "closed", shown |-> Null, replayed |-> f,
               pending |-> n, optimistic |-> Null, drag |-> Null,
               retry |-> f, triple |-> Null]
  BY DEF SpotterInit
<1>5. form.name \in Names
  BY DEF Forms
<1>6. link.replayed = f
  BY <1>2 DEF f
<1> HIDE DEF f, n
<1>7. app \in Pages
  BY <1>3, <1>4, <1>5 DEF Pages
<1>8. Fits(app, link)
  BY <1>1, <1>2, <1>3, <1>4, <1>6 DEF Fits
<1>9. touches \in 0 .. MaxTouches
  BY SpotterAssumption DEF SpotterInit
<1> QED
  BY <1>1, <1>7, <1>8, <1>9 DEF SpotterInv

\* Every handler of the page makes a step of the client, or leaves it alone.
LEMMA EveryHandler ==
  ASSUME SpotterInv, [SpotterNext]_spotterVars
  PROVE  Good /\ SpotterInv'
<1>1. Good
  <2>1. CASE UNCHANGED spotterVars
    <3>1. UNCHANGED <<link, calls, faults>> /\ app' = app /\ touches' = touches
      BY <2>1 DEF spotterVars
    <3>2. SameStory(app, app') /\ app' \in Pages /\ touches' \in 0 .. MaxTouches
      BY <3>1 DEF SameStory, SpotterInv
    <3> QED
      BY <3>1, <3>2, StoryGood
  <2>2. CASE Load
    BY <2>2, LoadGood
  <2>3. CASE EditForm
    BY <2>3, EditFormGood
  <2>4. CASE Join \/ Start
    BY <2>4, JoinGood
  <2>5. CASE Hide
    BY <2>5, HideGood
  <2>6. CASE Show
    BY <2>6, ShowGood
  <2>7. CASE Online
    BY <2>7, OnlineGood
  <2>8. CASE TapLaneOrMessage
    BY <2>8, TapLaneOrMessageGood
  <2>9. CASE KeyFader
    BY <2>9, KeyFaderGood
  <2>10. CASE StartDrag \/ MoveDrag
    BY <2>10, DragGood
  <2>11. CASE EndDrag
    BY <2>11, EndDragGood
  <2>12. CASE OptimismEnds
    BY <2>12, OptimismEndsGood
  <2>13. CASE Transport
    BY <2>13, TransportGood
  <2>14. CASE \E s \in Slots, seq \in 0 .. MaxSeq : FrameArrives(s, seq)
    BY <2>14, FrameGood
  <2>15. CASE \E s \in Slots : SocketCloses(s)
    BY <2>15, SocketClosesGood
  <2> QED
    BY <2>1, <2>2, <2>3, <2>4, <2>5, <2>6, <2>7, <2>8, <2>9, <2>10, <2>11, <2>12,
       <2>13, <2>14, <2>15 DEF SpotterNext
<1>2. ClientInv'
  BY <1>1, EveryStep DEF Good, SpotterInv
<1> QED
  BY <1>1, <1>2 DEF Good, SpotterInv

--------------------------------------------------------------------------------
(* The theorems.                                                               *)

\* The page and its client go on telling the same story.
THEOREM SpotterInvHolds == SpotterSpec => []SpotterInv
<1>1. SpotterInv /\ [SpotterNext]_spotterVars => SpotterInv'
  BY EveryHandler
<1> QED
  BY <1>1, InitSpotter, PTL DEF SpotterSpec

\* The page calls the client, and answers its listeners, as RoomClient assumes:
\* what is proved of the client holds of the spotter's.
THEOREM SpotterUsesClient == SpotterSpec => UsesClient
<1>1. SpotterInv /\ [SpotterNext]_spotterVars => [Next]_vars
  BY EveryHandler DEF Good
<1>2. SpotterInit => Init
  BY DEF SpotterInit
<1> QED
  BY <1>1, <1>2, SpotterInvHolds, PTL DEF SpotterSpec, UsesClient, Spec

\* The page keeps to the screens, forms and triples of Model and main.ts.
THEOREM SpotterTypeCorrect == SpotterSpec => []SpotterTypeOK
<1>1. SpotterInv => SpotterTypeOK
  BY DEF SpotterInv, SpotterTypeOK
<1> QED
  BY <1>1, SpotterInvHolds, PTL

\* The page and the client always agree on the session, so no triple is built
\* for a session the client does not have, and none waits in the client.
THEOREM SpotterAgrees == SpotterSpec => []SessionsAgree
<1>1. ASSUME SpotterInv
      PROVE  SessionsAgree
  <2>1. Sound(link) /\ Fits(app, link) /\ app.replayed \in BOOLEAN
    BY <1>1 DEF SpotterInv, ClientInv, Pages
  <2>2. link.replayed \in BOOLEAN /\ link.status \in {"connecting", "open", "closed"}
    BY <2>1 DEF Sound, Stable, LinkStates
  <2>3. link.replayed => link.socket # Null
    BY <2>1, <2>2 DEF Sound, Watched
  <2> QED
    BY <2>1, <2>2, <2>3 DEF Fits, SessionsAgree
<1> QED
  BY <1>1, SpotterInvHolds, PTL

\* A visible console is bound to its room and is connected to it or about to
\* try again, and the join screen has no session behind it.
THEOREM ConsoleIsAlive == SpotterSpec => []NoDeadConsole
<1>1. ASSUME SpotterInv
      PROVE  NoDeadConsole
  <2>1. Sound(link) /\ Fits(app, link) /\ app.form \in Urls
    BY <1>1, SpotterAssumption DEF SpotterInv, ClientInv, Pages
  <2>2. ASSUME OnConsole
        PROVE  link.url = app.form /\ (link.socket # Null \/ link.retry # Null)
    <3>1. link.url = app.form /\ link.url # Null /\ ~link.rejected
      BY <2>1, <2>2, NullAssumption DEF Fits, OnConsole
    <3> QED
      BY <2>1, <3>1 DEF Sound, Stable, Stranded
  <2> QED
    BY <2>1, <2>2 DEF Fits, NoDeadConsole
<1> QED
  BY <1>1, SpotterInvHolds, PTL

\* The collision retry never changes the code of a room the spotter has seen.
THEOREM SpotterStaysInRoom == SpotterSpec => SeenRoomStays
<1>1. SpotterInv /\ [SpotterNext]_spotterVars =>
        [app.screen = "console" /\ app'.screen = "console" /\ app.shown # Null
           => app'.form = app.form]_spotterVars
  BY EveryHandler DEF Good, Stays
<1> QED
  BY <1>1, SpotterInvHolds, PTL DEF SpotterSpec, SeenRoomStays

\* The rows that waited for a session are settled by its first state.
THEOREM SpotterRebases == SpotterSpec => WaitingRowsAreRebased
<1>1. SpotterInv /\ [SpotterNext]_spotterVars => [Settles]_spotterVars
  BY EveryHandler DEF Good
<1> QED
  BY <1>1, SpotterInvHolds, PTL DEF SpotterSpec, WaitingRowsAreRebased, Settles

================================================================================

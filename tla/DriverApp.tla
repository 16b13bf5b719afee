------------------------------- MODULE DriverApp -------------------------------
(* The driver's app on the glasses (apps/glasses/src/driver.ts, app.ts,        *)
(* link.ts, msg-blink.ts, input.ts): the last state of the room, the NO LINK   *)
(* watchdog, messages that blink, clear themselves and are acked, and what of  *)
(* it all was pushed to the render queue.  Every handler is an operator from   *)
(* the app to the app after it, in the order of its calls; the client is the   *)
(* view ClientView gives of it, and the relay is the messages of its rooms     *)
(* with the frames that are under way from the one the client is bound to.     *)
(*                                                                             *)
(* Lane, cars and the S of the strip are drawn as they come and are left out;  *)
(* a state is its message.                                                     *)
EXTENDS ClientView, Integers, Sequences

CONSTANTS DRIVER_NO_LINK_MS, LINK_CHECK_MS, STATUS_BLINK_MS, FOREGROUND_DEBOUNCE_MS,
          MSG_AUTO_ACK_MS, MSG_BLINK_MS,
          SOCKET_HEALTHY_MS,   \* SOCKET_SILENT_MS - PING_INTERVAL_MS
          Phases,        \* MSG_BLINK_PHASES.length
          RoomCodes,     \* the rooms the companion may save
          MaxMessages,   \* bound of the messages the spotter sends
          MaxFrames      \* bound of the frames under way

ASSUME DriverAssumption ==
  /\ DRIVER_NO_LINK_MS \in Nat
  /\ {LINK_CHECK_MS, STATUS_BLINK_MS, MSG_AUTO_ACK_MS, MSG_BLINK_MS} \subseteq Nat \ {0}
  /\ FOREGROUND_DEBOUNCE_MS \in Nat /\ SOCKET_HEALTHY_MS \in Nat
  /\ Phases \in Nat \ {0, 1}
  /\ MaxMessages \in Nat /\ MaxFrames \in Nat \ {0}
  /\ HeardMax > DRIVER_NO_LINK_MS

VARIABLES driver,   \* the app
          relay     \* the rooms, and what is under way to the app

driverVars == <<driver, relay, view>>

\* An id is a new one whatever the room.
Ids == [room : RoomCodes, n : 1 .. MaxMessages]
Messages == [id : Ids, acked : BOOLEAN]
Ids0 == Ids \union {Null}

Frames == [t : {"state"}, msg : Messages \union {Null}] \union [t : {"error"}]
StateFrame(msg) == [t |-> "state", msg |-> msg]
ErrorFrame == [t |-> "error"]

\* The messages of the rooms and the room of the client's url; last numbers the
\* messages, closing is a terminal close to come, dead a connection that neither
\* side knows is gone.
Relays == [msgs : [RoomCodes -> Messages \union {Null}], room : RoomCodes,
           last : 0 .. MaxMessages, joined : BOOLEAN,
           closing : BOOLEAN, dead : BOOLEAN, frames : Seq(Frames)]

Strips == {"ROOM ?", "TERMINAL", "CONNECTING", "L", ""}
Huds == [linkOk : BOOLEAN, message : Ids0, visible : BOOLEAN]

\* The last state, the message on the screen, its auto-clear and its blink.
States == [msg : Messages \union {Null}]
Showns == [id : Ids, age : 0 .. MSG_AUTO_ACK_MS]
Clears == [id : Ids, in : 0 .. MSG_AUTO_ACK_MS]
Blinks == [id : Ids, phase : 0 .. Phases - 1, in : 0 .. MSG_BLINK_MS \union {Null}]
Tolds  == [id : Ids, age : 0 .. MSG_AUTO_ACK_MS]

\* undefined and null are no objects.
ASSUME NullAssumption ==
  Null \notin RoomCodes \union Ids \union Messages \union Huds \union States \union Showns \union Clears
                \union Blinks \union Tolds

\* from, told, lag and handed are history: the room of the last state; the message
\* that was first on the screen at an age that does not start again while the
\* states are of one room; how long the HUD has been showing a link that is gone;
\* and the acks written in this session.
Drivers ==
  [state : States \union {Null},
   connection : {"connecting", "open", "closed"},
   terminal : BOOLEAN, linkOk : BOOLEAN, everLinked : BOOLEAN, hasRoom : BOOLEAN,
   blinkOn : BOOLEAN, blinkTimer : 0 .. STATUS_BLINK_MS \union {Null},
   hidden : Ids0, blinkHidden : Ids0,
   lastHud : Huds \union {Null}, lastStatus : Strips,
   shown : Showns \union {Null}, msgTimer : Clears \union {Null},
   settled : Ids0, pendingAck : Ids0, retryTimer : BOOLEAN,
   blink : Blinks \union {Null},
   ackGuard : Ids0, foreground : 0 .. FOREGROUND_DEBOUNCE_MS,
   check : 0 .. LINK_CHECK_MS,
   from : RoomCodes \union {Null}, told : Tolds \union {Null}, lag : 0 .. LINK_CHECK_MS + 1, handed : SUBSET Ids]

--------------------------------------------------------------------------------
(* app.ts and link.ts.                                                         *)

UnackedMessageId(d) ==
  IF d.state = Null \/ d.state.msg = Null THEN Null
  ELSE IF d.state.msg.acked \/ d.state.msg.id = d.hidden THEN Null
  ELSE d.state.msg.id

StatusLine(d) ==
  IF ~d.hasRoom THEN "ROOM ?"
  ELSE IF d.terminal THEN "TERMINAL"
  ELSE IF d.linkOk THEN "L"
  ELSE IF ~d.everLinked /\ d.connection # "closed" THEN "CONNECTING"
  ELSE IF d.blinkOn THEN "L" ELSE ""

StatusBlinks(d) ==
  /\ d.hasRoom /\ ~d.terminal /\ ~d.linkOk
  /\ d.everLinked \/ d.connection = "closed"

Hud(d) ==
  LET message == UnackedMessageId(d)
  IN  [linkOk |-> d.linkOk, message |-> message,
       visible |-> message = Null \/ message # d.blinkHidden]

\* render: what changed since the last one is pushed to the queue.
Render(d) ==
  [d EXCEPT !.lastHud = Hud(d), !.lastStatus = StatusLine(d),
            !.lag = IF d.linkOk THEN @ ELSE 0]

SetConnection(d, connection, terminal) ==
  Render([d EXCEPT !.connection = connection,
                   !.terminal = connection = "closed" /\ terminal])

SetLinkOk(d, linkOk, render) ==
  LET next == [d EXCEPT !.linkOk = linkOk, !.everLinked = @ \/ linkOk]
  IN  IF render THEN Render(next) ELSE next

SetMessageVisible(d, id, visible, render) ==
  LET next == [d EXCEPT !.blinkHidden = IF ~visible THEN id
                                        ELSE IF @ = id THEN Null ELSE @]
  IN  IF render THEN Render(next) ELSE next

ResetBlink(d) == IF d.blinkOn THEN d ELSE Render([d EXCEPT !.blinkOn = TRUE])

HideMessage(d, id) == IF d.hidden = id THEN d ELSE Render([d EXCEPT !.hidden = id])

\* The client sends an ack, or drops it when its session is not replayed.
Ack(d, v, id) == IF v.replayed THEN [d EXCEPT !.handed = @ \union {id}] ELSE d

IsLinkOk(v) == v.heard # Null /\ v.heard <= DRIVER_NO_LINK_MS

\* The watchdog speaks up only when its verdict changes.
Check(d, v, render) ==
  IF IsLinkOk(v) = d.linkOk THEN d ELSE SetLinkOk(d, IsLinkOk(v), render)

--------------------------------------------------------------------------------
(* msg-blink.ts and the timers of driver.ts.                                   *)

StartBlink(d, id) ==
  [SetMessageVisible(d, id, TRUE, FALSE) EXCEPT
     !.blink = [id |-> id, phase |-> 0, in |-> MSG_BLINK_MS]]

CancelBlink(d) ==
  IF d.blink = Null THEN d
  ELSE [SetMessageVisible(d, d.blink.id, TRUE, FALSE) EXCEPT !.blink = Null]

SyncBlink(d) ==
  IF StatusBlinks(d)
  THEN [d EXCEPT !.blinkTimer = IF @ = Null THEN STATUS_BLINK_MS ELSE @]
  ELSE ResetBlink([d EXCEPT !.blinkTimer = Null])

\* The timer is armed for what is left of the message's life on the screen.
Armed(d, id) ==
  IF id = d.settled THEN [d EXCEPT !.msgTimer = Null]
  ELSE IF d.msgTimer # Null /\ d.msgTimer.id = id THEN d
  ELSE [d EXCEPT !.msgTimer = [id |-> id, in |-> MSG_AUTO_ACK_MS - d.shown.age]]

\* Seeded fault: every state buys the message another five seconds.
SyncMessageTimerAnew(d) ==
  LET id == UnackedMessageId(d)
      first == [d EXCEPT !.shown = [id |-> id, age |-> 0],
                         !.told = IF @ # Null /\ @.id = id THEN @
                                  ELSE [id |-> id, age |-> 0]]
  IN  IF id = Null
      THEN [CancelBlink([d EXCEPT !.msgTimer = Null]) EXCEPT !.shown = Null]
      ELSE Armed([StartBlink(first, id) EXCEPT !.msgTimer = Null], id)

SyncMessageTimer(d) ==
  LET id == UnackedMessageId(d)
      first == [d EXCEPT !.shown = [id |-> id, age |-> 0],
                         !.told = IF @ # Null /\ @.id = id THEN @
                                  ELSE [id |-> id, age |-> 0]]
  IN  IF id = Null
      THEN [CancelBlink([d EXCEPT !.msgTimer = Null]) EXCEPT !.shown = Null]
      ELSE IF d.shown # Null /\ d.shown.id = id THEN Armed(d, id)
      ELSE Armed(StartBlink(first, id), id)

\* An ack is pending until a state confirms it; it is sent again one turn later,
\* when the client has marked the session replayed.
RetryPendingAck(d) ==
  IF d.pendingAck = Null THEN d
  ELSE IF d.state.msg = Null \/ d.state.msg # [id |-> d.pendingAck, acked |-> FALSE]
  THEN [d EXCEPT !.pendingAck = Null, !.retryTimer = FALSE]
  ELSE [d EXCEPT !.retryTimer = TRUE]

--------------------------------------------------------------------------------
(* The listeners of driver.ts.                                                 *)

OnState(d, v, msg) ==
  LET checked == Check(d, v, FALSE)
      applied == Render([checked EXCEPT !.state = [msg |-> msg], !.everLinked = TRUE])
      synced  == SyncMessageTimer(SyncBlink(applied))
  IN  [RetryPendingAck(synced) EXCEPT !.ackGuard = Null]

OnConnection(d, v, terminal) ==
  LET told == SyncBlink(Check(SetConnection(d, v.status, terminal), v, TRUE))
  IN  IF v.status = "open" THEN told
      ELSE SyncMessageTimer([told EXCEPT !.ackGuard = Null, !.settled = Null,
                                         !.handed = {}])

\* The client tells its listeners only of a status that changes.
Told(d, v, terminal) ==
  IF v.status = view.status THEN d ELSE OnConnection(d, v, terminal)

\* The errors the relay closes on; others are not shown.
OnError(d) == SyncBlink(Render([d EXCEPT !.terminal = TRUE]))

--------------------------------------------------------------------------------
(* The client: its socket and what arrives on it.                              *)

HeardNow == [driver EXCEPT !.lag = 0]

\* A state of another room than the last one was of begins another stay.
Stays(d, room) ==
  [d EXCEPT !.from = room, !.told = IF d.from = room THEN @ ELSE Null]

NoSocket(r) ==
  [r EXCEPT !.joined = FALSE, !.closing = FALSE, !.dead = FALSE, !.frames = <<>>]

RetryConnects ==
  /\ view.retry
  /\ view' = Connecting(view)
  /\ driver' = Told(driver, view', FALSE)
  /\ relay' = NoSocket(relay)

SocketOpens ==
  /\ view.status = "connecting" /\ ~relay.dead
  /\ view' = Opened(view)
  /\ driver' = Told(driver, view', FALSE)
  /\ UNCHANGED relay

StateArrives ==
  /\ view.status = "open" /\ relay.frames # <<>> /\ Head(relay.frames).t = "state"
  /\ view' = Replayed(view)
  /\ driver' = OnState(Stays(HeardNow, relay.room), Heard(view), Head(relay.frames).msg)
  /\ relay' = [relay EXCEPT !.frames = Tail(@)]

\* bad_frame is not shown, the other errors are.
ErrorArrives ==
  /\ view.status = "open" /\ relay.frames # <<>> /\ Head(relay.frames).t = "error"
  /\ view' = Heard(view)
  /\ driver' \in {OnError(HeardNow), HeardNow}
  /\ relay' = [relay EXCEPT !.frames = Tail(@)]

PongArrives ==
  /\ view.replayed /\ relay.joined /\ ~relay.dead
  /\ view' = Heard(view)
  /\ driver' = HeardNow
  /\ UNCHANGED relay

SocketDrops ==
  /\ view.status # "closed"
  /\ view' \in Dropped(view)
  /\ driver' = Told(driver, view', FALSE)
  /\ relay' = NoSocket(relay)

TerminalClose ==
  /\ view.status = "open" /\ relay.closing /\ relay.frames = <<>> /\ ~relay.dead
  /\ view' = NoSession
  /\ driver' = Told(driver, NoSession, TRUE)
  /\ relay' = NoSocket(relay)

\* Half-open: nothing arrives any more, either way.
SocketDies ==
  /\ view.status # "closed" /\ ~relay.dead
  /\ relay' = [NoSocket(relay) EXCEPT !.dead = TRUE]
  /\ UNCHANGED <<driver, view>>

--------------------------------------------------------------------------------
(* The relay and the spotter behind it.                                        *)

RelayJoins ==
  /\ view.status = "open" /\ ~relay.joined /\ ~relay.closing /\ ~relay.dead
  /\ relay' = [relay EXCEPT !.joined = TRUE,
                            !.frames = <<StateFrame(relay.msgs[relay.room])>>]
  /\ UNCHANGED <<driver, view>>

\* A hello that is refused, or a driver that is replaced: an error, then a close.
RelayRefuses ==
  /\ view.status = "open" /\ ~relay.closing /\ ~relay.dead
  /\ Len(relay.frames) < MaxFrames
  /\ relay' = [relay EXCEPT !.joined = FALSE, !.closing = TRUE,
                            !.frames = Append(@, ErrorFrame)]
  /\ UNCHANGED <<driver, view>>

\* The driver is there to hear of a change of the room.
Present == relay.joined /\ ~relay.dead

\* A change of the room.  What happens in another one is seen when the client has
\* joined it, and is taken to happen between its connect and that join.
Broadcast(msg, last) ==
  /\ Present => Len(relay.frames) < MaxFrames
  /\ relay' = [relay EXCEPT
       !.msgs[relay.room] = msg, !.last = last,
       !.frames = IF Present THEN Append(@, StateFrame(msg)) ELSE @]
  /\ UNCHANGED <<driver, view>>

RoomChanges ==
  \/ relay.msgs[relay.room] # Null /\ Broadcast(Null, relay.last)
  \/ Present /\ Broadcast(relay.msgs[relay.room], relay.last)

NewMessage ==
  LET id == [room |-> relay.room, n |-> relay.last + 1]
  IN  relay.last < MaxMessages /\ Broadcast([id |-> id, acked |-> FALSE], id.n)

\* An ack of the room's message; others change nothing.
AckArrives ==
  LET msg == relay.msgs[relay.room]
  IN  /\ Present /\ view.replayed
      /\ msg # Null /\ ~msg.acked /\ msg.id \in driver.handed
      /\ Broadcast([msg EXCEPT !.acked = TRUE], relay.last)

--------------------------------------------------------------------------------
(* Timers.                                                                     *)

\* Seeded fault: the interval only looks after the blink.
BlinkCheck ==
  /\ driver.check = 0
  /\ driver' = SyncBlink([driver EXCEPT !.check = LINK_CHECK_MS])
  /\ UNCHANGED <<relay, view>>

LinkCheck ==
  /\ driver.check = 0
  /\ driver' = SyncBlink(Check([driver EXCEPT !.check = LINK_CHECK_MS], view, TRUE))
  /\ UNCHANGED <<relay, view>>

TickBlink ==
  /\ driver.blinkTimer = 0
  /\ driver' = Render([driver EXCEPT !.blinkTimer = STATUS_BLINK_MS, !.blinkOn = ~@])
  /\ UNCHANGED <<relay, view>>

\* Seeded fault: the message is acked but not kept until a state confirms it.
ExpireOnce ==
  LET id == driver.msgTimer.id
      off == HideMessage(CancelBlink([driver EXCEPT !.msgTimer = Null, !.settled = id]), id)
  IN  /\ driver.msgTimer # Null /\ driver.msgTimer.in = 0
      /\ driver' = IF UnackedMessageId(driver) = id THEN Ack(off, view, id) ELSE off
      /\ UNCHANGED <<relay, view>>

MessageExpires ==
  LET id == driver.msgTimer.id
      off == HideMessage(CancelBlink([driver EXCEPT !.msgTimer = Null, !.settled = id]), id)
  IN  /\ driver.msgTimer # Null /\ driver.msgTimer.in = 0
      /\ driver' = IF UnackedMessageId(driver) = id
                   THEN Ack([off EXCEPT !.pendingAck = id], view, id) ELSE off
      /\ UNCHANGED <<relay, view>>

\* Seeded fault: the last phase is not the end.
BlinkOn ==
  LET phase == driver.blink.phase + 1
      next  == SetMessageVisible(driver, driver.blink.id, phase % 2 = 0, TRUE)
  IN  /\ driver.blink # Null /\ driver.blink.in = 0
      /\ driver' = [next EXCEPT !.blink.phase = phase, !.blink.in = MSG_BLINK_MS]
      /\ UNCHANGED <<relay, view>>

\* MSG_BLINK_PHASES: visible, hidden, visible ...
BlinkPhase ==
  LET phase == driver.blink.phase + 1
      next  == SetMessageVisible(driver, driver.blink.id, phase % 2 = 0, TRUE)
  IN  /\ driver.blink # Null /\ driver.blink.in = 0
      /\ driver' = [next EXCEPT !.blink.phase = phase,
                                !.blink.in = IF phase < Phases - 1 THEN MSG_BLINK_MS ELSE Null]
      /\ UNCHANGED <<relay, view>>

AckRetry ==
  LET fired == [driver EXCEPT !.retryTimer = FALSE]
  IN  /\ driver.retryTimer
      /\ driver' = IF driver.pendingAck = Null THEN fired
                   ELSE Ack(fired, view, driver.pendingAck)
      /\ UNCHANGED <<relay, view>>

Due ==
  \/ driver.check = 0
  \/ driver.blinkTimer = 0
  \/ driver.msgTimer # Null /\ driver.msgTimer.in = 0
  \/ driver.blink # Null /\ driver.blink.in = 0
  \/ driver.retryTimer

Down(n) == IF n = Null THEN Null ELSE n - 1
Capped(n, max) == IF n < max THEN n + 1 ELSE max
In(timer) == IF timer = Null THEN Null ELSE [timer EXCEPT !.in = Down(@)]
OlderBy(shown, max) == IF shown = Null THEN Null ELSE [shown EXCEPT !.age = Capped(@, max)]

\* Timers fire on time.
Tick ==
  /\ ~Due
  /\ view' = Aged(view)
  /\ driver' = [driver EXCEPT
       !.check = Down(@), !.blinkTimer = Down(@), !.msgTimer = In(@), !.blink = In(@),
       !.foreground = Capped(@, FOREGROUND_DEBOUNCE_MS),
       !.shown = OlderBy(@, MSG_AUTO_ACK_MS), !.told = OlderBy(@, MSG_AUTO_ACK_MS),
       !.lag = IF driver.lastHud.linkOk /\ ~IsLinkOk(view')
               THEN Capped(@, LINK_CHECK_MS + 1) ELSE 0]
  /\ UNCHANGED relay

--------------------------------------------------------------------------------
(* The driver's taps, the host's events and the companion.                     *)

Tap ==
  LET id == UnackedMessageId(driver)
      tapped == [driver EXCEPT !.ackGuard = id, !.settled = id, !.msgTimer = Null]
  IN  /\ id # Null /\ id # driver.ackGuard
      /\ driver' = Ack(tapped, view, id)
      /\ UNCHANGED <<relay, view>>

\* connect() of main.ts: a healthy session of the same url is left alone.
Healthy == view.replayed /\ view.heard # Null /\ view.heard <= SOCKET_HEALTHY_MS

Connects(d, room) ==
  LET told == Told(d, Connecting(view), FALSE)
  IN  /\ view' = Connecting(view)
      /\ driver' = Render(told)
      /\ relay' = [NoSocket(relay) EXCEPT !.room = room]

EnterForeground ==
  LET entered == [driver EXCEPT !.foreground = 0]
  IN  /\ driver.foreground >= FOREGROUND_DEBOUNCE_MS
      /\ IF driver.hasRoom /\ ~Healthy THEN Connects(entered, relay.room)
         ELSE driver' = Render(entered) /\ UNCHANGED <<relay, view>>

Exit ==
  /\ view' = NoSession
  /\ driver' = Told(driver, NoSession, FALSE)
  /\ relay' = NoSocket(relay)

\* applySettings: another room, or a new PIN or name, is another url; an invalid
\* code connects to nothing and leaves the session of the last one alone.
SaveSettings ==
  \E code \in RoomCodes \union {Null} :
    LET saved == Render([driver EXCEPT !.hasRoom = code # Null])
    IN  \/ code # Null /\ Connects(saved, code)
        \/ /\ code = Null \/ (code = relay.room /\ Healthy)
           /\ driver' = saved
           /\ UNCHANGED <<relay, view>>

--------------------------------------------------------------------------------

\* The HUD before the first render; the page was created with the first strip.
Started(hasRoom) ==
  [state |-> Null, connection |-> "connecting", terminal |-> FALSE, linkOk |-> FALSE,
   everLinked |-> FALSE, hasRoom |-> hasRoom, blinkOn |-> TRUE, blinkTimer |-> Null,
   hidden |-> Null, blinkHidden |-> Null, lastHud |-> Null,
   lastStatus |-> IF hasRoom THEN "CONNECTING" ELSE "ROOM ?",
   shown |-> Null, msgTimer |-> Null, settled |-> Null, pendingAck |-> Null,
   retryTimer |-> FALSE, blink |-> Null, ackGuard |-> Null,
   foreground |-> FOREGROUND_DEBOUNCE_MS, check |-> LINK_CHECK_MS,
   from |-> Null, told |-> Null, lag |-> 0, handed |-> {}]

\* main.ts starts the driver and connects; without a room it only shows ROOM ?.
DriverInit ==
  /\ \E room \in RoomCodes :
       relay = [msgs |-> [code \in RoomCodes |-> Null], room |-> room, last |-> 0,
                joined |-> FALSE, closing |-> FALSE, dead |-> FALSE, frames |-> <<>>]
  /\ \E hasRoom \in BOOLEAN :
       LET started == SyncBlink(Render(Started(hasRoom)))
       IN  IF hasRoom
           THEN view = Connecting(NoSession) /\ driver = OnConnection(started, view, FALSE)
           ELSE view = NoSession /\ driver = started

DriverNext ==
  \/ RetryConnects
  \/ SocketOpens
  \/ StateArrives
  \/ ErrorArrives
  \/ PongArrives
  \/ SocketDrops
  \/ TerminalClose
  \/ SocketDies
  \/ RelayJoins
  \/ RelayRefuses
  \/ RoomChanges
  \/ NewMessage
  \/ AckArrives
  \/ LinkCheck
  \/ TickBlink
  \/ MessageExpires
  \/ BlinkPhase
  \/ AckRetry
  \/ Tick
  \/ Tap
  \/ EnterForeground
  \/ Exit
  \/ SaveSettings

DriverSpec == DriverInit /\ [][DriverNext]_driverVars

--------------------------------------------------------------------------------
(* Properties.                                                                 *)

\* The app keeps what driver.ts, app.ts and msg-blink.ts can hold.
DriverTypeOK ==
  /\ driver \in Drivers
  /\ view \in Views
  /\ relay \in Relays

\* Constitution 1: old data is never shown as live.  The HUD shows no link a
\* check after DRIVER_NO_LINK_MS of silence at the latest, and at once while a
\* new session has not been heard of.
StaleIsNeverLive ==
  driver.lastHud.linkOk =>
    /\ driver.lag <= LINK_CHECK_MS
    /\ view.status # "closed" => view.heard # Null

\* A message is on the screen for MSG_AUTO_ACK_MS from the first time it was
\* drawn, whatever states, drops and replays of its room come in between, unless
\* the driver taps it away: its timer is due when told says so, which only a state
\* of another room starts again (driver.ts 193-196 forgets what was shown).
MessageLeavesInTime ==
  LET id == UnackedMessageId(driver)
  IN  id # Null =>
        /\ driver.told # Null /\ driver.told.id = id
        /\ driver.told.age >= MSG_AUTO_ACK_MS =>
             driver.settled = id \/ driver.msgTimer = [id |-> id, in |-> 0]

\* A message the app took off the screen by itself is acked until the relay
\* confirms it: while the last state still shows it unacked, its ack is pending.
\* It holds for the message told of last: a state of another room, which drops the
\* pending ack (driver.ts 145-152), makes told forget it too.
HiddenIsAcked ==
  driver.state # Null /\ driver.state.msg # Null /\ ~driver.state.msg.acked
    /\ driver.state.msg.id = driver.hidden
    /\ driver.told # Null /\ driver.told.id = driver.hidden
    => driver.pendingAck = driver.hidden

================================================================================

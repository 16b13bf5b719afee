------------------------------- MODULE RoomClient -------------------------------
(* The client both apps share (packages/protocol/src/client.ts): one WebSocket *)
(* at a time, its watchdogs, the backoff, and what is kept for the replay of   *)
(* the next session.  Every method and handler is an operator from the state   *)
(* of the link to the next one, so that the apps can call them in a row; the   *)
(* actions are the events of the transport and of the timers, and the calls.   *)
(*                                                                             *)
(* An intent is known by its number, in the order the user issued them.  A     *)
(* server frame is the seq of the state it holds, 0 for any other frame.       *)
EXTENDS Integers, Sequences

CONSTANTS Null,
          Slots,        \* sockets that can exist at once, retired ones included
          Urls,
          PING_INTERVAL_MS, SOCKET_SILENT_MS, CONNECT_TIMEOUT_MS,
          RECONNECT_MIN_MS, RECONNECT_MAX_MS,
          MaxSeq,       \* bound of seq
          MaxCalls,     \* bound of the calls of the app
          MaxFaults,    \* bound of the closes and losses of sockets
          Freezes       \* whether the page may be suspended

ASSUME ClientAssumption ==
  /\ PING_INTERVAL_MS \in Nat \ {0}
  /\ SOCKET_SILENT_MS \in Nat
  /\ PING_INTERVAL_MS <= SOCKET_SILENT_MS
  /\ CONNECT_TIMEOUT_MS \in Nat \ {0}
  /\ RECONNECT_MIN_MS \in Nat \ {0}
  /\ RECONNECT_MAX_MS \in Nat
  /\ RECONNECT_MIN_MS <= RECONNECT_MAX_MS
  /\ MaxSeq \in Nat /\ MaxCalls \in Nat /\ MaxFaults \in Nat
  /\ Freezes \in BOOLEAN

ASSUME NullAssumption ==
  Null \notin Slots \union Urls \union Int

VARIABLES link,    \* the client and its sockets
          calls,   \* how many calls the app has made
          faults   \* how many sockets were closed or lost under the client

vars == <<link, calls, faults>>

Kinds == {"lane", "cars", "msg", "ack"}

\* room says where an intent was issued: the url the client was bound to.
Intents == [kind : Kinds, id : Nat, room : Urls \union {Null}]

\* An intent that was written to a socket: the socket's url, and whether the
\* relay had replayed the room on it.
Handed == [intent : Intents, to : Urls, synced : BOOLEAN]

\* closed: the client called close().  spoke, synced: a frame, a state arrived.
Wires == [phase : {"connecting", "open", "dead"}, url : Urls, closed : BOOLEAN,
          spoke : BOOLEAN, synced : BOOLEAN]

NewWire(url) == [phase |-> "connecting", url |-> url, closed |-> FALSE,
                 spoke |-> FALSE, synced |-> FALSE]

\* A timer's callback keeps the socket it was armed for.
Timers(max) == [in : 0 .. max, socket : Slots]
Timer(ms, socket) == [in |-> ms, socket |-> socket]

ASSUME NoSocketAssumption == Null \notin Intents \union Wires
ASSUME NoTimerAssumption ==
  Null \notin Timers(PING_INTERVAL_MS) \union Timers(CONNECT_TIMEOUT_MS)

\* Silence is not told apart beyond the moment it has been noticed.
QuietMax == SOCKET_SILENT_MS + PING_INTERVAL_MS + 1
Ages == 0 .. QuietMax

LinkStates ==
  [url      : Urls \union {Null},
   socket   : Slots \union {Null},
   status   : {"connecting", "open", "closed"},
   replayed : BOOLEAN,
   lastSeen : 0 .. MaxSeq,
   heard    : Ages \union {Null},     \* now - lastFrameAt, Null when undefined
   openAge  : Ages,                   \* now - openedAt, 0 where it is not read
   ping     : Timers(PING_INTERVAL_MS) \union {Null},
   connect  : Timers(CONNECT_TIMEOUT_MS) \union {Null},
   retry    : 0 .. RECONNECT_MAX_MS \union {Null},
   backoff  : RECONNECT_MIN_MS .. RECONNECT_MAX_MS,
   lane     : Intents \union {Null},
   cars     : Intents \union {Null},
   messages : Seq(Intents),
   wires    : [Slots -> Wires \union {Null}],
   rejected : BOOLEAN,                \* history: the last close was terminal
   handed   : Seq(Handed)]            \* history: everything written to a socket

--------------------------------------------------------------------------------
(* Timers, the socket and what is pending.                                     *)

ClearTimers(l) == [l EXCEPT !.retry = Null, !.connect = Null, !.ping = Null]

\* retireSocket
Retire(l) ==
  IF l.socket = Null THEN l
  ELSE [l EXCEPT !.socket = Null, !.openAge = 0, !.wires[l.socket].closed = TRUE]

ClearPending(l) == [l EXCEPT !.lane = Null, !.cars = Null, !.messages = <<>>]

\* Seeded fault: nothing watches a socket that does not open.
OpenWithoutTimeout(l, slot) ==
  IF l.url = Null THEN l
  ELSE [l EXCEPT !.ping = Null, !.replayed = FALSE, !.lastSeen = 0, !.heard = Null,
                 !.status = "connecting", !.socket = slot,
                 !.wires[slot] = NewWire(l.url), !.rejected = FALSE]

\* Seeded fault: the age of the last frame survives into the new session.
OpenKeepingHeard(l, slot) ==
  IF l.url = Null THEN l
  ELSE [l EXCEPT !.ping = Null, !.replayed = FALSE, !.lastSeen = 0,
                 !.status = "connecting", !.socket = slot,
                 !.wires[slot] = NewWire(l.url), !.rejected = FALSE,
                 !.connect = Timer(CONNECT_TIMEOUT_MS, slot)]

OpenSocket(l, slot) ==
  IF l.url = Null THEN l
  ELSE [l EXCEPT !.ping = Null, !.replayed = FALSE, !.lastSeen = 0, !.heard = Null,
                 !.status = "connecting", !.socket = slot,
                 !.wires[slot] = NewWire(l.url), !.rejected = FALSE,
                 !.connect = Timer(CONNECT_TIMEOUT_MS, slot)]

\* A same-url connect leaves alone a session that is replayed and not quiet.
Healthy(l, url) ==
  /\ l.url = url /\ l.socket # Null /\ l.replayed
  /\ l.heard # Null
  /\ l.heard <= SOCKET_SILENT_MS - PING_INTERVAL_MS

\* Seeded fault: what is pending goes along to another room.
ConnectKeeping(l, url, slot) ==
  IF Healthy(l, url) THEN l
  ELSE OpenSocket(Retire(ClearTimers([l EXCEPT !.url = url])), slot)

Connect(l, url, slot) ==
  IF Healthy(l, url) THEN l
  ELSE LET bound == Retire(ClearTimers([l EXCEPT !.url = url]))
       IN  OpenSocket(IF l.url \in {Null, url} THEN bound ELSE ClearPending(bound), slot)

Disconnect(l) ==
  [ClearPending(Retire(ClearTimers(l))) EXCEPT
     !.url = Null, !.replayed = FALSE, !.heard = Null, !.status = "closed",
     !.rejected = FALSE]

--------------------------------------------------------------------------------
(* Sending.                                                                    *)

\* sendFrame
Transmit(l, intents) ==
  IF l.socket = Null THEN l
  ELSE LET wire == l.wires[l.socket]
       IN  [l EXCEPT !.handed = @ \o [i \in DOMAIN intents |->
              [intent |-> intents[i], to |-> wire.url, synced |-> wire.synced]]]

\* Seeded fault: the newest message goes first.
QueueNewestFirst(l, intent) ==
  IF intent.kind = "lane" THEN [l EXCEPT !.lane = intent]
  ELSE IF intent.kind = "cars" THEN [l EXCEPT !.cars = intent]
  ELSE [l EXCEPT !.messages = <<intent>> \o @]

\* Only the latest lane and cars are kept, messages in the order they were made.
Queue(l, intent) ==
  IF intent.kind = "lane" THEN [l EXCEPT !.lane = intent]
  ELSE IF intent.kind = "cars" THEN [l EXCEPT !.cars = intent]
  ELSE [l EXCEPT !.messages = Append(@, intent)]

\* An ack is never kept: it must not acknowledge a later message.
Send(l, intent) ==
  IF l.socket # Null /\ l.replayed THEN Transmit(l, <<intent>>)
  ELSE IF intent.kind = "ack" THEN l ELSE Queue(l, intent)

Pending(l) ==
  (IF l.lane = Null THEN <<>> ELSE <<l.lane>>) \o
  (IF l.cars = Null THEN <<>> ELSE <<l.cars>>) \o l.messages

\* Seeded fault: only the last message is sent.
FlushLatest(l) ==
  Transmit(ClearPending(l),
           IF l.messages = <<>> THEN Pending(l)
           ELSE Pending([l EXCEPT !.messages = <<l.messages[Len(l.messages)]>>]))

FlushPending(l) == Transmit(ClearPending(l), Pending(l))

--------------------------------------------------------------------------------
(* The backoff is kept as the base delay of the next retry, which is           *)
(* RECONNECT_MIN_MS * 2 ** reconnectAttempt, at most RECONNECT_MAX_MS.          *)

Least(a, b) == IF a < b THEN a ELSE b
Greatest(a, b) == IF a < b THEN b ELSE a

\* Seeded fault: the jitter is not clamped.
DelaysUnclamped(base) == (base + 1) \div 2 .. (3 * base) \div 2

\* Math.round(baseDelay * (0.5 + random())), clamped.
Delays(base) ==
  {Greatest(RECONNECT_MIN_MS, Least(RECONNECT_MAX_MS, delay)) :
     delay \in (base + 1) \div 2 .. (3 * base) \div 2}

\* Seeded fault: a retry is not armed when the first attempts failed.
ScheduleFirst(l, delay) ==
  IF l.url = Null \/ l.retry # Null \/ l.backoff > RECONNECT_MIN_MS THEN l
  ELSE [l EXCEPT !.backoff = Least(RECONNECT_MAX_MS, 2 * @), !.retry = delay]

\* scheduleReconnect
ScheduleReconnect(l, delay) ==
  IF l.url = Null \/ l.retry # Null THEN l
  ELSE [l EXCEPT !.backoff = Least(RECONNECT_MAX_MS, 2 * @), !.retry = delay]

--------------------------------------------------------------------------------
(* Events of a socket and of its timers.  Those of a socket that is no longer  *)
(* the current one are ignored.                                                *)

\* Seeded fault: an open socket gets no ping timer.
OpenUnwatched(l, s) ==
  IF l.socket # s \/ l.url = Null THEN l
  ELSE [l EXCEPT !.connect = Null, !.lastSeen = 0, !.replayed = FALSE,
                 !.openAge = 0, !.status = "open"]

\* hello is sent before anything else, so it is not told apart from the opening.
HandleOpen(l, s) ==
  IF l.socket # s \/ l.url = Null THEN l
  ELSE [l EXCEPT !.connect = Null, !.lastSeen = 0, !.replayed = FALSE,
                 !.openAge = 0, !.status = "open",
                 !.ping = Timer(PING_INTERVAL_MS, s)]

\* said is what a state listener sends while it is told of the state.
HandleMessage(l, s, seq, said) ==
  IF l.socket # s THEN l
  ELSE IF seq <= l.lastSeen THEN [l EXCEPT !.heard = 0, !.openAge = 0]
  ELSE LET seen  == [l EXCEPT !.heard = 0, !.openAge = 0, !.lastSeen = seq]
           shown == IF said = Null THEN seen ELSE Send(seen, said)
       IN  IF l.replayed THEN shown
           ELSE FlushPending([shown EXCEPT !.replayed = TRUE, !.backoff = RECONNECT_MIN_MS])

\* What the app does when it is told of a terminal close: nothing, leave the
\* room, or leave it and enter another one.
Reactions(l, slot) ==
  {l, Disconnect(l)} \union
  {Connect(Disconnect(l), url, slot) : url \in Urls \ {l.url}}

\* A session that is over; nothing of it, or for it, outlives a terminal close.
Closed(l, terminal) ==
  LET down == [l EXCEPT !.socket = Null, !.replayed = FALSE, !.connect = Null,
                        !.ping = Null, !.openAge = 0, !.status = "closed",
                        !.rejected = terminal]
  IN  IF terminal THEN [ClearPending(down) EXCEPT !.heard = Null] ELSE down

\* Seeded fault: the close of a retired socket ends the session.
HandleAnyClose(l, s, terminal, slot) ==
  IF terminal THEN Reactions(Closed(l, TRUE), slot)
  ELSE {ScheduleReconnect(Closed(l, FALSE), delay) : delay \in Delays(l.backoff)}

\* handleClose: the listeners are told before the retry is armed.
HandleClose(l, s, terminal, slot) ==
  IF l.socket # s THEN {l}
  ELSE IF terminal THEN Reactions(Closed(l, TRUE), slot)
  ELSE {ScheduleReconnect(Closed(l, FALSE), delay) : delay \in Delays(l.backoff)}

DropDeadSocket(l, s) ==
  IF l.socket # s THEN {l}
  ELSE LET down == [Retire([l EXCEPT !.connect = Null, !.ping = Null]) EXCEPT
                      !.replayed = FALSE, !.heard = Null, !.status = "closed"]
       IN  {ScheduleReconnect(down, delay) : delay \in Delays(l.backoff)}

Quiet(l) == IF l.heard = Null THEN l.openAge ELSE l.heard

\* The relay answers every ping, so a silent socket is a dead one.
SendPing(l, s) ==
  IF l.socket # s THEN {l}
  ELSE IF Quiet(l) > SOCKET_SILENT_MS THEN DropDeadSocket(l, s)
  ELSE {l}

--------------------------------------------------------------------------------
(* The transport and the relay behind it.                                      *)

Free(l) == {s \in Slots : l.wires[s] = Null}

Fault == faults < MaxFaults /\ faults' = faults + 1

Opens(s) ==
  /\ link.wires[s] # Null /\ link.wires[s].phase = "connecting"
  /\ link' = HandleOpen([link EXCEPT !.wires[s].phase = "open"], s)
  /\ UNCHANGED <<calls, faults>>

\* An intent the app issues now.
Issued(kind) == [kind |-> kind, id |-> calls + 1, room |-> link.url]

\* The spotter may answer the first state of a session with rebased cars.
Said(s, seq) ==
  {Null} \union {Issued(kind) : kind \in
    IF calls < MaxCalls /\ link.socket = s /\ ~link.replayed /\ seq > link.lastSeen
    THEN {"cars"} ELSE {}}

Delivers(s, seq) ==
  /\ link.wires[s] # Null /\ link.wires[s].phase = "open"
  /\ \E said \in Said(s, seq) :
       /\ link' = HandleMessage([link EXCEPT !.wires[s].spoke = TRUE,
                                             !.wires[s].synced = @ \/ seq > 0],
                                s, seq, said)
       /\ calls' = IF said = Null THEN calls ELSE calls + 1
  /\ UNCHANGED faults

\* A socket the client closed goes away; the others may be closed under it,
\* by the relay with a terminal code only once they are open.
Gone(l, s) == [l EXCEPT !.wires[s] = Null]

Closes(s) ==
  /\ link.wires[s] # Null
  /\ IF link.wires[s].closed THEN UNCHANGED faults
     ELSE link.wires[s].phase # "dead" /\ Fault
  /\ \E terminal \in {FALSE, link.wires[s].phase = "open"} :
     \E slot \in Free(Gone(link, s)) :
       link' \in HandleClose(Gone(link, s), s, terminal, slot)
  /\ UNCHANGED calls

\* Half-open: nothing is ever heard of it again.
Dies(s) ==
  /\ link.wires[s] # Null /\ link.wires[s].phase # "dead" /\ ~link.wires[s].closed
  /\ Fault
  /\ link' = [link EXCEPT !.wires[s].phase = "dead"]
  /\ UNCHANGED calls

--------------------------------------------------------------------------------
(* The timers and the clock.                                                   *)

PingTimer ==
  /\ link.ping # Null /\ link.ping.in = 0
  /\ link' \in SendPing([link EXCEPT !.ping.in = PING_INTERVAL_MS], link.ping.socket)
  /\ UNCHANGED <<calls, faults>>

ConnectTimer ==
  /\ link.connect # Null /\ link.connect.in = 0
  /\ link' \in DropDeadSocket([link EXCEPT !.connect = Null], link.connect.socket)
  /\ UNCHANGED <<calls, faults>>

RetryTimer ==
  /\ link.retry = 0
  /\ \E slot \in Free(link) : link' = OpenSocket([link EXCEPT !.retry = Null], slot)
  /\ UNCHANGED <<calls, faults>>

Due == \/ link.ping # Null /\ link.ping.in = 0
       \/ link.connect # Null /\ link.connect.in = 0
       \/ link.retry = 0

Down(n) == IF n = 0 THEN 0 ELSE n - 1
Older(age) == IF age = QuietMax THEN age ELSE age + 1

OneTickLater(l) ==
  [l EXCEPT !.heard = IF @ = Null THEN Null ELSE Older(@),
            !.openAge = IF l.status = "open" /\ l.heard = Null THEN Older(@) ELSE @,
            !.ping = IF @ = Null THEN Null ELSE Timer(Down(@.in), @.socket),
            !.connect = IF @ = Null THEN Null ELSE Timer(Down(@.in), @.socket),
            !.retry = IF @ = Null THEN Null ELSE Down(@)]

\* Timers fire on time, unless the page is suspended.
Tick ==
  /\ ~Due \/ Freezes
  /\ link' = OneTickLater(link)
  /\ UNCHANGED <<calls, faults>>

--------------------------------------------------------------------------------
(* The app's calls.                                                            *)

Call == calls < MaxCalls /\ calls' = calls + 1

CallConnect ==
  /\ Call
  /\ \E url \in Urls : \E slot \in Free(link) : link' = Connect(link, url, slot)
  /\ UNCHANGED faults

CallDisconnect ==
  /\ Call
  /\ link' = Disconnect(link)
  /\ UNCHANGED faults

CallSend ==
  /\ Call
  /\ \E kind \in Kinds : link' = Send(link, Issued(kind))
  /\ UNCHANGED faults

Init ==
  /\ link = [url |-> Null, socket |-> Null, status |-> "closed", replayed |-> FALSE,
             lastSeen |-> 0, heard |-> Null, openAge |-> 0,
             ping |-> Null, connect |-> Null, retry |-> Null, backoff |-> RECONNECT_MIN_MS,
             lane |-> Null, cars |-> Null, messages |-> <<>>,
             wires |-> [s \in Slots |-> Null], rejected |-> FALSE, handed |-> <<>>]
  /\ calls = 0
  /\ faults = 0

Next ==
  \/ \E s \in Slots :
       \/ Opens(s)
       \/ \E seq \in 0 .. MaxSeq : Delivers(s, seq)
       \/ Closes(s)
       \/ Dies(s)
  \/ PingTimer
  \/ ConnectTimer
  \/ RetryTimer
  \/ Tick
  \/ CallConnect
  \/ CallDisconnect
  \/ CallSend

Spec == Init /\ [][Next]_vars

CurrentOpens == \E s \in Slots : s = link.socket /\ Opens(s)

CurrentReplays ==
  \E s \in Slots, seq \in 1 .. MaxSeq : s = link.socket /\ Delivers(s, seq)

RetiredGoes(s) == link.wires[s] # Null /\ link.wires[s].closed /\ Closes(s)

\* Timers run and fire, a closed socket goes away, and the network does not
\* defeat every one of endlessly many attempts.
Fairness ==
  /\ WF_vars(Tick) /\ WF_vars(PingTimer)
  /\ WF_vars(ConnectTimer) /\ WF_vars(RetryTimer)
  /\ \A s \in Slots : WF_vars(RetiredGoes(s))
  /\ SF_vars(CurrentOpens) /\ SF_vars(CurrentReplays)

FairSpec == Spec /\ Fairness

--------------------------------------------------------------------------------
(* Properties.                                                                 *)

\* The link stays a client with the timers, ages and frames the code can hold.
TypeOK ==
  /\ link \in LinkStates
  /\ calls \in 0 .. MaxCalls
  /\ faults \in 0 .. MaxFaults

\* Every socket but the current one has been closed: no retry, no second
\* connect and no watchdog leaves a session behind that keeps the role in the
\* room, or evicts its successor.
OneSocketInUse ==
  \A s \in Slots :
    link.wires[s] # Null /\ ~link.wires[s].closed => s = link.socket

\* While the client is bound to a room exactly one of three things is so: it has
\* a socket, a retry is armed, or the relay turned it away for good.
NeverStranded ==
  link.url # Null =>
    IF link.socket # Null THEN link.retry = Null /\ ~link.rejected
    ELSE (link.retry # Null) = ~link.rejected

\* The current socket always has a watchdog of its own: the connect timer until
\* it opens, the ping timer from then on.  A timer armed for an earlier socket
\* would do nothing, and a half-open socket would never be noticed.
WatchedSocket ==
  /\ link.status = "connecting" =>
       /\ link.socket # Null /\ link.ping = Null
       /\ link.connect # Null /\ link.connect.socket = link.socket
  /\ link.status = "open" =>
       /\ link.socket # Null /\ link.connect = Null
       /\ link.ping # Null /\ link.ping.socket = link.socket
  /\ link.status = "closed" =>
       link.socket = Null /\ link.ping = Null /\ link.connect = Null

Elements(seq) == {seq[i] : i \in DOMAIN seq}

\* What was issued for one room is sent only to a session of that room, and only
\* after the relay has replayed the room on it.
IntentsStayInTheirRoom ==
  \A h \in Elements(link.handed) : h.intent.room \in {Null, h.to} /\ h.synced

\* Intents of a kind reach the relay in the order they were issued and never
\* twice, whatever was flushed and whatever went straight to a socket.
IntentsInOrder ==
  LET all == [i \in DOMAIN link.handed |-> link.handed[i].intent] \o Pending(link)
  IN  \A i, j \in DOMAIN all :
        i < j /\ all[i].kind = all[j].kind => all[i].id < all[j].id

\* A pending intent goes only by being sent, by giving way to a later call of its
\* kind, by leaving the room, or by a terminal close.
NoIntentIsLost ==
  [][\A p \in Elements(Pending(link)) :
       \/ \E q \in Elements(Pending(link') \o [i \in DOMAIN link'.handed |->
                                                link'.handed[i].intent]) :
            \/ q = p
            \/ p.kind \in {"lane", "cars"} /\ q.kind = p.kind /\ q.id > p.id
       \/ link'.url # link.url \/ link'.url = Null
       \/ link'.rejected /\ ~link.rejected]_vars

\* Whatever was dropped, closed or lost, a client that is bound to a room and was
\* not turned away is replayed again.
LinkComesBack ==
  (link.url # Null /\ ~link.rejected)
    ~> (link.replayed \/ link.url = Null \/ link.rejected)

\* An app sees no more of the client than ClientView says: the states
\* its listeners are told, and what they may rely on when they are, whatever the
\* sockets, timers and queues do behind them.
View == INSTANCE ClientView WITH
  HeardMax <- QuietMax,
  view <- [status |-> link.status, replayed |-> link.replayed,
           heard |-> link.heard, retry |-> link.retry # Null]
ShowsView == View!ViewSpec
================================================================================

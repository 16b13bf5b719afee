---------------------------- MODULE RoomClientProofs ----------------------------
(* For every set of sockets and rooms, all timings and any number of calls and *)
(* faults: the client's sockets, timers and pending intents are sound, and it  *)
(* shows its listeners what ClientView says.                                   *)
EXTENDS RoomClient, SequenceTheorems, TLAPS

--------------------------------------------------------------------------------
(* The inductive invariant, as predicates of a link.                           *)

\* Whatever is not the current socket has been closed.
OneInUse(l) == \A s \in Slots : l.wires[s] # Null /\ ~l.wires[s].closed => s = l.socket

\* The current socket is one of the room the client is bound to, it has told of
\* its opening, and a session is replayed only after a state arrived on it.
InUse(l) ==
  l.socket # Null =>
    LET wire == l.wires[l.socket]
    IN  /\ wire # Null /\ ~wire.closed /\ wire.url = l.url
        /\ wire.phase = "connecting" => l.status = "connecting"
        /\ wire.phase = "open" => l.status = "open"
        /\ l.replayed => wire.synced

\* A bound client has a socket, a retry or a refusal; an unbound one has nothing.
Stranded(l) ==
  /\ l.url # Null /\ l.socket # Null => l.retry = Null /\ ~l.rejected
  /\ l.url # Null /\ l.socket = Null => (l.retry # Null) = ~l.rejected
  /\ l.url = Null => l.socket = Null /\ l.retry = Null

\* The timers are those of the current socket.
Watched(l) ==
  /\ l.status = "connecting" =>
       /\ l.socket # Null /\ l.ping = Null /\ ~l.replayed
       /\ l.connect # Null /\ l.connect.socket = l.socket
  /\ l.status = "open" =>
       /\ l.socket # Null /\ l.connect = Null
       /\ l.ping # Null /\ l.ping.socket = l.socket
  /\ l.status = "closed" =>
       l.socket = Null /\ l.ping = Null /\ l.connect = Null /\ ~l.replayed

\* What is pending was issued for this room or for none.
PendingOfRoom(l) ==
  /\ l.lane # Null => l.lane.room \in {Null, l.url}
  /\ l.cars # Null => l.cars.room \in {Null, l.url}
  /\ \A i \in 1 .. Len(l.messages) : l.messages[i].room \in {Null, l.url}

HandedToRoom(l) ==
  \A i \in 1 .. Len(l.handed) :
    l.handed[i].intent.room \in {Null, l.handed[i].to} /\ l.handed[i].synced

Stable(l) ==
  /\ l \in LinkStates
  /\ OneInUse(l) /\ InUse(l) /\ Stranded(l)
  /\ PendingOfRoom(l) /\ HandedToRoom(l)

Sound(l) == Stable(l) /\ Watched(l)

ClientInv ==
  /\ Sound(link)
  /\ calls \in 0 .. MaxCalls
  /\ faults \in 0 .. MaxFaults

\* A link without a socket: what is left between two sessions.
Unplugged(l) ==
  /\ l \in LinkStates
  /\ l.socket = Null /\ l.retry = Null
  /\ \A s \in Slots : l.wires[s] # Null => l.wires[s].closed
  /\ HandedToRoom(l)

\* The session is over, and the retry not armed yet.
Idle(l) ==
  /\ Unplugged(l)
  /\ l.status = "closed" /\ l.replayed = FALSE /\ l.ping = Null /\ l.connect = Null

\* What the apps see of a link, and how it may change from v to w.
ViewOf(l) == [status |-> l.status, replayed |-> l.replayed, heard |-> l.heard,
              retry |-> l.retry # Null]

Shows(v, w) ==
  \/ w = v
  \/ w = View!Connecting(v)
  \/ v.status = "connecting" /\ w = View!Opened(v)
  \/ v.status = "open" /\ w \in {View!Heard(v), View!Replayed(v)}
  \/ v.status # "closed" /\ w \in View!Dropped(v)
  \/ w = View!NoSession
  \/ w = View!Aged(v)

SameQueue(l, r) ==
  /\ r.lane = l.lane /\ r.cars = l.cars /\ r.messages = l.messages
  /\ r.handed = l.handed

NoQueue(l, r) ==
  r.lane = Null /\ r.cars = Null /\ r.messages = <<>> /\ r.handed = l.handed

\* r differs from l in what is pending and what was sent.
SameLink(l, r) ==
  /\ r.url = l.url /\ r.socket = l.socket /\ r.status = l.status /\ r.replayed = l.replayed
  /\ r.lastSeen = l.lastSeen /\ r.heard = l.heard /\ r.openAge = l.openAge
  /\ r.ping = l.ping /\ r.connect = l.connect /\ r.retry = l.retry
  /\ r.backoff = l.backoff /\ r.wires = l.wires /\ r.rejected = l.rejected

Queued(l, r, intent) ==
  /\ r.handed = l.handed
  /\ r.lane = IF intent.kind = "lane" THEN intent ELSE l.lane
  /\ r.cars = IF intent.kind = "cars" THEN intent ELSE l.cars
  /\ r.messages = IF intent.kind \in {"lane", "cars"} THEN l.messages
                  ELSE Append(l.messages, intent)

SentAll(l, r, intents) ==
  \E w \in Seq(Handed) :
    /\ r.handed = l.handed \o w
    /\ Len(w) = Len(intents)
    /\ \A i \in 1 .. Len(intents) : w[i].intent = intents[i]

\* All that was pending, and is with z, is sent.
Flushed(z, r) ==
  /\ r.lane = Null /\ r.cars = Null /\ r.messages = <<>>
  /\ SentAll(z, r, Pending(z))

\* Nothing is sent or issued, and what is pending is kept, or given up for good.
Keeps(l, r) ==
  /\ r.handed = l.handed
  /\ r.replayed => l.replayed
  /\ \/ SameQueue(l, r)
     \/ /\ NoQueue(l, r)
        /\ r.url # l.url \/ r.url = Null \/ (r.rejected /\ ~l.rejected)

--------------------------------------------------------------------------------
(* What the operators leave of a link.                                         *)

LEMMA Wires1 ==
  ASSUME NEW url \in Urls
  PROVE  /\ NewWire(url) \in Wires /\ NewWire(url) # Null
         /\ NewWire(url).url = url /\ ~NewWire(url).closed
         /\ NewWire(url).phase = "connecting"
<1>1. NewWire(url) \in Wires
  BY DEF NewWire, Wires
<1> QED
  BY <1>1, NoSocketAssumption DEF NewWire

LEMMA TimerTypes ==
  ASSUME NEW s \in Slots
  PROVE  /\ Timer(PING_INTERVAL_MS, s) \in Timers(PING_INTERVAL_MS)
         /\ Timer(CONNECT_TIMEOUT_MS, s) \in Timers(CONNECT_TIMEOUT_MS)
         /\ Timer(PING_INTERVAL_MS, s) # Null /\ Timer(CONNECT_TIMEOUT_MS, s) # Null
         /\ Timer(PING_INTERVAL_MS, s).socket = s
         /\ Timer(CONNECT_TIMEOUT_MS, s).socket = s
<1>1. /\ Timer(PING_INTERVAL_MS, s) \in Timers(PING_INTERVAL_MS)
      /\ Timer(CONNECT_TIMEOUT_MS, s) \in Timers(CONNECT_TIMEOUT_MS)
  BY ClientAssumption DEF Timer, Timers
<1> QED
  BY <1>1, NoTimerAssumption DEF Timer

LEMMA AgesOK == 0 \in Ages /\ QuietMax \in Nat
BY ClientAssumption DEF Ages, QuietMax

LEMMA ClearTimersFields ==
  ASSUME NEW l \in LinkStates
  PROVE  LET c == ClearTimers(l)
         IN  /\ c \in LinkStates
             /\ c.retry = Null /\ c.connect = Null /\ c.ping = Null
             /\ c.url = l.url /\ c.socket = l.socket /\ c.wires = l.wires
             /\ c.lane = l.lane /\ c.cars = l.cars /\ c.messages = l.messages
             /\ c.handed = l.handed
BY DEF ClearTimers, LinkStates

LEMMA ClearPendingFields ==
  ASSUME NEW l \in LinkStates
  PROVE  LET c == ClearPending(l)
         IN  /\ c \in LinkStates
             /\ c.lane = Null /\ c.cars = Null /\ c.messages = <<>>
             /\ c.url = l.url /\ c.socket = l.socket /\ c.wires = l.wires
             /\ c.status = l.status /\ c.replayed = l.replayed /\ c.heard = l.heard
             /\ c.ping = l.ping /\ c.connect = l.connect /\ c.retry = l.retry
             /\ c.rejected = l.rejected /\ c.handed = l.handed /\ c.lastSeen = l.lastSeen
             /\ c.openAge = l.openAge /\ c.backoff = l.backoff
<1>1. <<>> \in Seq(Intents)
  OBVIOUS
<1> QED
  BY <1>1 DEF ClearPending, LinkStates

LEMMA RetireFields ==
  ASSUME NEW l \in LinkStates, OneInUse(l), l.socket # Null => l.wires[l.socket] # Null
  PROVE  LET r == Retire(l)
         IN  /\ r \in LinkStates
             /\ r.socket = Null
             /\ \A s \in Slots : r.wires[s] # Null => r.wires[s].closed
             /\ r.url = l.url /\ r.status = l.status /\ r.replayed = l.replayed
             /\ r.heard = l.heard /\ r.ping = l.ping /\ r.connect = l.connect
             /\ r.retry = l.retry /\ r.rejected = l.rejected /\ r.backoff = l.backoff
             /\ r.lane = l.lane /\ r.cars = l.cars /\ r.messages = l.messages
             /\ r.handed = l.handed
<1>1. CASE l.socket = Null
  BY <1>1, NullAssumption DEF Retire, OneInUse
<1>2. CASE l.socket # Null
  <2> DEFINE w == [l.wires EXCEPT ![l.socket] = [@ EXCEPT !.closed = TRUE]]
  <2>1. l.socket \in Slots /\ l.wires \in [Slots -> Wires \union {Null}]
    BY <1>2 DEF LinkStates
  <2>2. l.wires[l.socket] \in Wires
    BY <1>2, <2>1
  <2>3. [l.wires[l.socket] EXCEPT !.closed = TRUE] \in Wires
    BY <2>2 DEF Wires
  <2>4. [l.wires[l.socket] EXCEPT !.closed = TRUE].closed
    BY <2>2 DEF Wires
  <2>5. w \in [Slots -> Wires \union {Null}]
    BY <2>1, <2>3
  <2>6. \A s \in Slots : w[s] # Null => w[s].closed
    BY <2>1, <2>4 DEF OneInUse
  <2>7. Retire(l) = [l EXCEPT !.socket = Null, !.openAge = 0, !.wires = w]
    BY <1>2 DEF Retire, LinkStates
  <2> HIDE DEF w
  <2>8. Retire(l) \in LinkStates
    BY <2>5, <2>7, AgesOK DEF LinkStates
  <2> QED
    BY <2>6, <2>7, <2>8 DEF LinkStates
<1> QED
  BY <1>1, <1>2

LEMMA OpenedIsLink ==
  ASSUME NEW l \in LinkStates, NEW s \in Slots, NEW w \in [Slots -> Wires \union {Null}],
         NEW t \in Timers(CONNECT_TIMEOUT_MS)
  PROVE  [l EXCEPT !.ping = Null, !.replayed = FALSE, !.lastSeen = 0, !.heard = Null,
                   !.status = "connecting", !.socket = s, !.wires = w,
                   !.rejected = FALSE, !.connect = t] \in LinkStates
<1>1. 0 \in 0 .. MaxSeq
  BY ClientAssumption
<1> QED
  BY <1>1, ZenonT(60) DEF LinkStates

\* A socket is opened for a link that has none.
LEMMA OpenSocketSound ==
  ASSUME NEW l, Unplugged(l), l.url \in Urls, PendingOfRoom(l),
         NEW slot \in Slots
  PROVE  LET o == OpenSocket(l, slot)
         IN  /\ Sound(o)
             /\ \A v : ViewOf(o) = View!Connecting(v)
             /\ SameQueue(l, o) /\ o.url = l.url /\ o.replayed = FALSE
<1> DEFINE w == [l.wires EXCEPT ![slot] = NewWire(l.url)]
           o == OpenSocket(l, slot)
<1>1. /\ l \in LinkStates /\ l.wires \in [Slots -> Wires \union {Null}]
      /\ slot # Null /\ l.url # Null /\ l.retry = Null
  BY NullAssumption DEF Unplugged, LinkStates
<1>2. NewWire(l.url) \in Wires /\ NewWire(l.url) # Null /\ NewWire(l.url).url = l.url
      /\ ~NewWire(l.url).closed /\ NewWire(l.url).phase = "connecting"
  BY Wires1
<1>3. /\ w \in [Slots -> Wires \union {Null}] /\ w[slot] = NewWire(l.url)
      /\ \A s \in Slots : s # slot => w[s] = l.wires[s]
  BY <1>1, <1>2
<1>4. o = [l EXCEPT !.ping = Null, !.replayed = FALSE, !.lastSeen = 0, !.heard = Null,
                    !.status = "connecting", !.socket = slot, !.wires = w,
                    !.rejected = FALSE, !.connect = Timer(CONNECT_TIMEOUT_MS, slot)]
  BY <1>1 DEF OpenSocket, LinkStates
<1>5. /\ Timer(CONNECT_TIMEOUT_MS, slot) \in Timers(CONNECT_TIMEOUT_MS)
      /\ Timer(CONNECT_TIMEOUT_MS, slot) # Null
      /\ Timer(CONNECT_TIMEOUT_MS, slot).socket = slot
  BY TimerTypes
<1> HIDE DEF w, o
<1>6. o \in LinkStates
  BY <1>1, <1>3, <1>4, <1>5, OpenedIsLink
<1>7. /\ o.url = l.url /\ o.socket = slot /\ o.status = "connecting" /\ ~o.replayed
      /\ o.replayed = FALSE /\ o.heard = Null /\ o.ping = Null /\ o.retry = Null /\ ~o.rejected
      /\ o.connect = Timer(CONNECT_TIMEOUT_MS, slot) /\ o.wires = w
      /\ o.lane = l.lane /\ o.cars = l.cars /\ o.messages = l.messages /\ o.handed = l.handed
  BY <1>1, <1>4 DEF LinkStates
<1>8. OneInUse(o)
  BY <1>3, <1>7 DEF OneInUse, Unplugged
<1>9. InUse(o)
  BY <1>2, <1>3, <1>7 DEF InUse
<1>10. Stranded(o)
  BY <1>1, <1>7 DEF Stranded
<1>11. Watched(o)
  BY <1>1, <1>5, <1>7 DEF Watched
<1>12. PendingOfRoom(o) /\ HandedToRoom(o)
  BY <1>7 DEF PendingOfRoom, HandedToRoom, Unplugged
<1>13. Sound(o)
  BY <1>6, <1>8, <1>9, <1>10, <1>11, <1>12 DEF Sound, Stable
<1>14. \A v : ViewOf(o) = View!Connecting(v)
  BY <1>7 DEF ViewOf, View!Connecting
<1>15. SameQueue(l, o) /\ o.url = l.url /\ o.replayed = FALSE
  BY <1>7 DEF SameQueue
<1> QED
  BY <1>13, <1>14, <1>15 DEF o

\* The app leaves: nothing is left of the session or for the next one.
LEMMA DisconnectSound ==
  ASSUME NEW l \in LinkStates, OneInUse(l), l.socket # Null => l.wires[l.socket] # Null,
         HandedToRoom(l)
  PROVE  LET d == Disconnect(l)
         IN  /\ Sound(d) /\ ViewOf(d) = View!NoSession
             /\ NoQueue(l, d) /\ d.url = Null /\ d.replayed = FALSE /\ d.socket = Null
<1> DEFINE c == ClearTimers(l)
           r == Retire(c)
           p == ClearPending(r)
           d == Disconnect(l)
<1>1. /\ c \in LinkStates /\ c.socket = l.socket /\ c.wires = l.wires
      /\ c.retry = Null /\ c.connect = Null /\ c.ping = Null /\ c.handed = l.handed
  BY ClearTimersFields
<1>2. OneInUse(c) /\ (c.socket # Null => c.wires[c.socket] # Null)
  BY <1>1 DEF OneInUse
<1>3. /\ r \in LinkStates /\ r.socket = Null
      /\ \A s \in Slots : r.wires[s] # Null => r.wires[s].closed
      /\ r.ping = c.ping /\ r.connect = c.connect /\ r.retry = c.retry
      /\ r.handed = c.handed
  BY <1>1, <1>2, RetireFields
<1>4. /\ p \in LinkStates /\ p.socket = Null /\ p.wires = r.wires
      /\ p.lane = Null /\ p.cars = Null /\ p.messages = <<>>
      /\ p.ping = r.ping /\ p.connect = r.connect /\ p.retry = r.retry
      /\ p.handed = r.handed
  BY <1>3, ClearPendingFields
<1>5. d = [p EXCEPT !.url = Null, !.replayed = FALSE, !.heard = Null,
                    !.status = "closed", !.rejected = FALSE]
  BY DEF Disconnect
<1> HIDE DEF c, r, p, d
<1>6. d \in LinkStates
  BY <1>4, <1>5 DEF LinkStates
<1>7. /\ d.socket = Null /\ d.wires = r.wires /\ d.url = Null /\ d.replayed = FALSE
      /\ d.lane = Null /\ d.cars = Null /\ d.messages = <<>> /\ d.handed = l.handed
      /\ d.ping = Null /\ d.connect = Null /\ d.retry = Null /\ d.heard = Null
      /\ d.status = "closed"
  BY <1>1, <1>3, <1>4, <1>5 DEF LinkStates
<1>8. OneInUse(d) /\ InUse(d) /\ Stranded(d) /\ Watched(d)
  BY <1>3, <1>7 DEF OneInUse, InUse, Stranded, Watched
<1>9. PendingOfRoom(d) /\ HandedToRoom(d)
  BY <1>7 DEF PendingOfRoom, HandedToRoom
<1>10. ViewOf(d) = View!NoSession
  BY <1>7 DEF ViewOf, View!NoSession
<1> QED
  BY <1>6, <1>7, <1>8, <1>9, <1>10 DEF Sound, Stable, NoQueue, d

\* A connect opens a session of the new room, or leaves alone the one there is.
LEMMA ConnectSound ==
  ASSUME NEW l, Sound(l), NEW url \in Urls, NEW slot \in Slots
  PROVE  LET n == Connect(l, url, slot)
         IN  /\ Sound(n)
             /\ n = l \/ \A v : ViewOf(n) = View!Connecting(v)
             /\ n.replayed => n = l
             /\ n.url = url
             /\ SameQueue(l, n) \/ (NoQueue(l, n) /\ l.url # url)
             /\ ~Healthy(l, url) => \A v : ViewOf(n) = View!Connecting(v)
<1> DEFINE b == [l EXCEPT !.url = url]
           c == ClearTimers(b)
           r == Retire(c)
           p == IF l.url \in {Null, url} THEN r ELSE ClearPending(r)
           n == Connect(l, url, slot)
<1>1. CASE Healthy(l, url)
  <2>1. n = l
    BY <1>1 DEF Connect
  <2>2. n.url = url /\ SameQueue(l, n)
    BY <1>1, <2>1 DEF Healthy, SameQueue
  <2> QED
    BY <1>1, <2>1, <2>2
<1>2. CASE ~Healthy(l, url)
  <2>1. l \in LinkStates /\ Stable(l)
    BY DEF Sound, Stable
  <2>2. /\ b \in LinkStates /\ b.url = url /\ b.socket = l.socket /\ b.wires = l.wires
        /\ SameQueue(l, b)
    BY <2>1 DEF LinkStates, SameQueue
  <2> HIDE DEF b
  <2>3. /\ c \in LinkStates /\ c.url = url /\ c.socket = l.socket /\ c.wires = l.wires
        /\ c.retry = Null /\ SameQueue(l, c)
    BY <2>2, ClearTimersFields DEF SameQueue
  <2> HIDE DEF c
  <2>4. OneInUse(c) /\ (c.socket # Null => c.wires[c.socket] # Null)
    BY <2>1, <2>3 DEF Stable, OneInUse, InUse
  <2>5. /\ r \in LinkStates /\ r.socket = Null /\ r.url = url /\ r.retry = Null
        /\ \A s \in Slots : r.wires[s] # Null => r.wires[s].closed
        /\ SameQueue(l, r)
    BY <2>3, <2>4, RetireFields DEF SameQueue
  <2> HIDE DEF r
  <2>6. /\ Unplugged(p) /\ PendingOfRoom(p) /\ p.url = url
        /\ SameQueue(l, p) \/ (NoQueue(l, p) /\ l.url # url)
    <3>1. HandedToRoom(l) /\ PendingOfRoom(l)
      BY <2>1 DEF Stable
    <3>2. CASE l.url \in {Null, url}
      <4>1. p = r
        BY <3>2
      <4>2. PendingOfRoom(r)
        BY <2>5, <3>1, <3>2 DEF SameQueue, PendingOfRoom
      <4>3. Unplugged(r)
        BY <2>5, <3>1 DEF Unplugged, SameQueue, HandedToRoom
      <4> QED
        BY <4>1, <4>2, <4>3, <2>5
    <3>3. CASE l.url \notin {Null, url}
      <4>1. p = ClearPending(r)
        BY <3>3
      <4>2. /\ p \in LinkStates /\ p.socket = Null /\ p.url = url /\ p.retry = Null
            /\ p.wires = r.wires /\ NoQueue(l, p)
        BY <2>5, <4>1, ClearPendingFields DEF SameQueue, NoQueue
      <4> HIDE DEF p
      <4>3. Unplugged(p)
        BY <2>5, <3>1, <4>2 DEF Unplugged, NoQueue, HandedToRoom
      <4>4. PendingOfRoom(p)
        BY <4>2 DEF NoQueue, PendingOfRoom
      <4> QED
        BY <4>2, <4>3, <4>4, <3>3
    <3> QED
      BY <3>2, <3>3
  <2>7. n = OpenSocket(p, slot)
    BY <1>2 DEF Connect, b, c, r
  <2> HIDE DEF p, n
  <2>8. /\ Sound(n) /\ SameQueue(p, n) /\ n.url = url /\ n.replayed = FALSE
        /\ \A v : ViewOf(n) = View!Connecting(v)
    BY <2>6, <2>7, OpenSocketSound
  <2>9. SameQueue(l, n) \/ (NoQueue(l, n) /\ l.url # url)
    BY <2>6, <2>8 DEF SameQueue, NoQueue
  <2> QED
    BY <1>2, <2>8, <2>9 DEF n
<1> QED
  BY <1>1, <1>2

--------------------------------------------------------------------------------
(* The end of a session.                                                       *)

LEMMA DelaysInRange ==
  ASSUME NEW base, NEW delay \in Delays(base)
  PROVE  delay \in 0 .. RECONNECT_MAX_MS
<1>1. PICK d \in (base + 1) \div 2 .. (3 * base) \div 2 :
        delay = Greatest(RECONNECT_MIN_MS, Least(RECONNECT_MAX_MS, d))
  BY DEF Delays
<1>2. d \in Int
  BY <1>1
<1> HIDE DEF Delays
<1> QED
  BY <1>1, <1>2, ClientAssumption DEF Greatest, Least

\* A session that ended gets a retry, unless the client was turned away.
LEMMA RetrySound ==
  ASSUME NEW l, Idle(l), PendingOfRoom(l), l.url # Null, ~l.rejected,
         NEW delay \in 0 .. RECONNECT_MAX_MS
  PROVE  LET r == ScheduleReconnect(l, delay)
         IN  /\ Sound(r) /\ SameQueue(l, r) /\ r.url = l.url /\ r.replayed = FALSE
             /\ ViewOf(r) = [status |-> "closed", replayed |-> FALSE,
                             heard |-> l.heard, retry |-> TRUE]
<1> DEFINE b == Least(RECONNECT_MAX_MS, 2 * l.backoff)
           r == ScheduleReconnect(l, delay)
<1>1. l \in LinkStates /\ l.retry = Null
  BY DEF Idle, Unplugged
<1>2. r = [l EXCEPT !.backoff = b, !.retry = delay]
  BY <1>1 DEF ScheduleReconnect, LinkStates
<1>3. b \in RECONNECT_MIN_MS .. RECONNECT_MAX_MS
  <2>1. l.backoff \in RECONNECT_MIN_MS .. RECONNECT_MAX_MS
    BY <1>1 DEF LinkStates
  <2> QED
    BY <2>1, ClientAssumption DEF Least
<1>4. delay # Null
  BY NullAssumption
<1> HIDE DEF b, r
<1>5. r \in LinkStates
  <2>1. [l EXCEPT !.backoff = b] \in LinkStates
    BY <1>1, <1>3 DEF LinkStates
  <2>2. r = [[l EXCEPT !.backoff = b] EXCEPT !.retry = delay]
    BY <1>1, <1>2 DEF LinkStates
  <2> QED
    BY <2>1, <2>2 DEF LinkStates
<1>6. /\ r.url = l.url /\ r.socket = l.socket /\ r.status = l.status /\ r.replayed = l.replayed
      /\ r.heard = l.heard /\ r.ping = l.ping /\ r.connect = l.connect /\ r.wires = l.wires
      /\ r.retry = delay /\ r.rejected = l.rejected /\ SameQueue(l, r)
  BY <1>1, <1>2 DEF LinkStates, SameQueue
<1>7. OneInUse(r)
  BY <1>6 DEF OneInUse, Idle, Unplugged
<1>8. InUse(r)
  BY <1>6 DEF InUse, Idle, Unplugged
<1>9. Stranded(r)
  BY <1>4, <1>6 DEF Stranded, Idle, Unplugged
<1>10. Watched(r)
  BY <1>6 DEF Watched, Idle, Unplugged
<1>11. PendingOfRoom(r)
  BY <1>6 DEF PendingOfRoom, SameQueue
<1>12. HandedToRoom(r)
  BY <1>6 DEF HandedToRoom, SameQueue, Idle, Unplugged
<1>13. ViewOf(r) = [status |-> "closed", replayed |-> FALSE, heard |-> l.heard, retry |-> TRUE]
  BY <1>4, <1>6 DEF ViewOf, Idle
<1>14. r.replayed = FALSE
  BY <1>6 DEF Idle
<1> QED
  BY <1>5, <1>6, <1>7, <1>8, <1>9, <1>10, <1>11, <1>12, <1>13, <1>14
     DEF Sound, Stable, r

\* A session that ended with no retry to come.
LEMMA RefusedSound ==
  ASSUME NEW l, Idle(l), PendingOfRoom(l), l.url # Null, l.rejected
  PROVE  Sound(l)
<1>1. l \in LinkStates /\ HandedToRoom(l)
  BY DEF Idle, Unplugged
<1>2. OneInUse(l) /\ InUse(l)
  BY DEF OneInUse, InUse, Idle, Unplugged
<1>3. Stranded(l) /\ Watched(l)
  BY DEF Stranded, Watched, Idle, Unplugged
<1> QED
  BY <1>1, <1>2, <1>3 DEF Sound, Stable

\* The transport closes the current socket.
LEMMA ClosedIdle ==
  ASSUME NEW l, Sound(l), NEW s \in Slots, l.socket = s, NEW terminal \in BOOLEAN
  PROVE  LET c == Closed(Gone(l, s), terminal)
         IN  /\ Idle(c) /\ PendingOfRoom(c) /\ c.url = l.url /\ c.url # Null
             /\ c.rejected = terminal /\ ~l.rejected
             /\ c.heard = IF terminal THEN Null ELSE l.heard
             /\ IF terminal THEN NoQueue(l, c) ELSE SameQueue(l, c)
<1> DEFINE w == [l.wires EXCEPT ![s] = Null]
           d == [l EXCEPT !.wires = w, !.socket = Null, !.replayed = FALSE,
                          !.connect = Null, !.ping = Null, !.openAge = 0,
                          !.status = "closed", !.rejected = terminal]
           p == ClearPending(d)
           c == Closed(Gone(l, s), terminal)
<1>1. l \in LinkStates /\ OneInUse(l) /\ PendingOfRoom(l) /\ HandedToRoom(l) /\ Stranded(l)
  BY DEF Sound, Stable
<1>2. s # Null /\ l.wires \in [Slots -> Wires \union {Null}]
  BY <1>1, NullAssumption DEF LinkStates
<1>3. l.url # Null /\ l.retry = Null /\ ~l.rejected
  BY <1>1, <1>2 DEF Stranded
<1>4. /\ w \in [Slots -> Wires \union {Null}]
      /\ \A t \in Slots : w[t] # Null => w[t].closed
  BY <1>1, <1>2 DEF OneInUse
<1>5. c = IF terminal THEN [p EXCEPT !.heard = Null] ELSE d
  BY <1>1 DEF Closed, Gone, LinkStates
<1>6. /\ d.url = l.url /\ d.socket = Null /\ d.status = "closed" /\ d.replayed = FALSE
      /\ d.heard = l.heard /\ d.ping = Null /\ d.connect = Null /\ d.retry = Null
      /\ d.rejected = terminal /\ d.wires = w /\ SameQueue(l, d)
  BY <1>1, <1>3 DEF LinkStates, SameQueue
<1> HIDE DEF w
<1>7. d \in LinkStates
  <2>1. [l EXCEPT !.wires = w, !.socket = Null, !.replayed = FALSE, !.connect = Null]
          \in LinkStates
    BY <1>1, <1>4 DEF LinkStates
  <2>2. d = [[l EXCEPT !.wires = w, !.socket = Null, !.replayed = FALSE, !.connect = Null]
               EXCEPT !.ping = Null, !.openAge = 0, !.status = "closed",
                      !.rejected = terminal]
    BY <1>1 DEF LinkStates
  <2> QED
    BY <2>1, <2>2, AgesOK DEF LinkStates
<1> HIDE DEF d
<1>8. CASE terminal
  <2>1. /\ p \in LinkStates /\ NoQueue(l, p) /\ p.url = d.url /\ p.socket = d.socket
        /\ p.status = d.status /\ p.replayed = d.replayed /\ p.ping = d.ping
        /\ p.connect = d.connect /\ p.retry = d.retry /\ p.rejected = d.rejected
        /\ p.wires = d.wires
    BY <1>6, <1>7, ClearPendingFields DEF NoQueue, SameQueue
  <2> HIDE DEF p
  <2>2. c = [p EXCEPT !.heard = Null]
    BY <1>5, <1>8
  <2> HIDE DEF c
  <2>3. c \in LinkStates
    BY <2>1, <2>2 DEF LinkStates
  <2>4. /\ NoQueue(l, c) /\ c.url = d.url /\ c.socket = d.socket
        /\ c.status = d.status /\ c.replayed = d.replayed /\ c.ping = d.ping
        /\ c.connect = d.connect /\ c.retry = d.retry /\ c.rejected = d.rejected
        /\ c.wires = d.wires /\ c.heard = Null
    BY <2>1, <2>2 DEF LinkStates, NoQueue
  <2>5. Idle(c)
    BY <1>1, <1>4, <1>6, <2>3, <2>4 DEF Idle, Unplugged, HandedToRoom, NoQueue
  <2>6. PendingOfRoom(c)
    BY <2>4 DEF NoQueue, PendingOfRoom
  <2> QED
    BY <1>3, <1>6, <1>8, <2>4, <2>5, <2>6 DEF c
<1>9. CASE ~terminal
  <2>1. c = d
    BY <1>5, <1>9
  <2>2. Idle(d)
    BY <1>1, <1>4, <1>6, <1>7 DEF Idle, Unplugged, HandedToRoom, SameQueue
  <2>3. PendingOfRoom(d)
    BY <1>1, <1>6 DEF SameQueue, PendingOfRoom
  <2> QED
    BY <1>3, <1>6, <1>9, <2>1, <2>2, <2>3
<1> QED
  BY <1>8, <1>9

\* A socket the client no longer uses goes away.
LEMMA GoneSound ==
  ASSUME NEW l, Sound(l), NEW s \in Slots, l.socket # s
  PROVE  /\ Sound(Gone(l, s)) /\ ViewOf(Gone(l, s)) = ViewOf(l) /\ Keeps(l, Gone(l, s))
<1> DEFINE w == [l.wires EXCEPT ![s] = Null]
           g == Gone(l, s)
<1>1. l \in LinkStates /\ l.wires \in [Slots -> Wires \union {Null}] /\ Stable(l)
  BY DEF Sound, Stable, LinkStates
<1>2. /\ w \in [Slots -> Wires \union {Null}] /\ w[s] = Null
      /\ \A t \in Slots : t # s => w[t] = l.wires[t]
  BY <1>1
<1>3. g = [l EXCEPT !.wires = w]
  BY <1>1 DEF Gone, LinkStates
<1> HIDE DEF w, g
<1>4. g \in LinkStates
  <2>1. w \in [Slots -> Wires \union {Null}]
    BY <1>2
  <2> QED
    BY <1>1, <1>3, <2>1 DEF LinkStates
<1>5. /\ g.url = l.url /\ g.socket = l.socket /\ g.status = l.status /\ g.replayed = l.replayed
      /\ g.heard = l.heard /\ g.ping = l.ping /\ g.connect = l.connect /\ g.retry = l.retry
      /\ g.rejected = l.rejected /\ g.wires = w /\ SameQueue(l, g)
  BY <1>1, <1>3 DEF LinkStates, SameQueue
<1>6. OneInUse(g)
  <2>1. OneInUse(l)
    BY <1>1 DEF Stable
  <2> SUFFICES ASSUME NEW t \in Slots, g.wires[t] # Null, ~g.wires[t].closed
               PROVE  t = g.socket
    BY DEF OneInUse
  <2>2. g.wires[t] = w[t]
    BY <1>5
  <2>3. t # s
    BY <1>2, <2>2
  <2>4. w[t] = l.wires[t]
    BY <1>2, <2>3
  <2> QED
    BY <1>5, <2>1, <2>2, <2>4 DEF OneInUse
<1>7. InUse(g)
  <2>1. l.socket # Null => l.socket \in Slots
    BY <1>1 DEF LinkStates
  <2> QED
    BY <1>1, <1>2, <1>5, <2>1 DEF Stable, InUse
<1>8. Stranded(g) /\ Watched(g)
  BY <1>1, <1>5 DEF Sound, Stable, Stranded, Watched
<1>9. PendingOfRoom(g) /\ HandedToRoom(g)
  BY <1>1, <1>5 DEF Stable, PendingOfRoom, HandedToRoom, SameQueue
<1>10. ViewOf(g) = ViewOf(l)
  BY <1>5 DEF ViewOf
<1>11. Keeps(l, g)
  BY <1>5 DEF Keeps, SameQueue
<1> QED
  BY <1>4, <1>6, <1>7, <1>8, <1>9, <1>10, <1>11 DEF Sound, Stable, g

LEMMA CloseSound ==
  ASSUME NEW l, Sound(l), NEW s \in Slots, NEW terminal \in BOOLEAN, NEW slot \in Slots,
         NEW r \in HandleClose(Gone(l, s), s, terminal, slot)
  PROVE  /\ Sound(r) /\ Shows(ViewOf(l), ViewOf(r)) /\ Keeps(l, r)
<1> DEFINE c == Closed(Gone(l, s), terminal)
           d == Disconnect(c)
<1>1. Gone(l, s).socket = l.socket /\ Gone(l, s).url = l.url
  BY DEF Sound, Stable, LinkStates, Gone
<1>2. CASE l.socket # s
  <2>1. r = Gone(l, s)
    BY <1>1, <1>2 DEF HandleClose
  <2> QED
    BY <1>2, <2>1, GoneSound DEF Shows
<1>3. CASE l.socket = s
  <2>1. /\ Idle(c) /\ PendingOfRoom(c) /\ c.url = l.url /\ c.url # Null
        /\ c.rejected = terminal /\ ~l.rejected
        /\ c.heard = IF terminal THEN Null ELSE l.heard
        /\ IF terminal THEN NoQueue(l, c) ELSE SameQueue(l, c)
    BY <1>3, ClosedIdle
  <2>2. c.status = "closed" /\ c.replayed = FALSE /\ c.retry = Null /\ c.socket = Null
        /\ c \in LinkStates /\ HandedToRoom(c) /\ OneInUse(c)
    BY <2>1 DEF Idle, Unplugged, OneInUse
  <2>3. l.status # "closed"
    <3>1. l.socket # Null
      BY <1>3, NullAssumption
    <3> QED
      BY <3>1 DEF Sound, Watched
  <2>4. CASE terminal
    <3>1. r \in Reactions(c, slot)
      BY <1>1, <1>3, <2>4 DEF HandleClose
    <3>2. /\ Sound(d) /\ ViewOf(d) = View!NoSession
          /\ NoQueue(c, d) /\ d.url = Null /\ d.replayed = FALSE /\ d.socket = Null
      BY <2>2, DisconnectSound
    <3>3. NoQueue(l, c) /\ c.rejected /\ ~l.rejected /\ c.heard = Null
      BY <2>1, <2>4
    <3> HIDE DEF c, d
    <3>4. CASE r = c
      <4>1. Sound(c)
        BY <2>1, <2>4, RefusedSound
      <4>2. ViewOf(c) = View!NoSession
        BY <2>2, <3>3 DEF ViewOf, View!NoSession
      <4>3. Keeps(l, c)
        BY <2>2, <3>3 DEF Keeps, NoQueue
      <4> QED
        BY <3>4, <4>1, <4>2, <4>3 DEF Shows
    <3>5. CASE r = d
      <4>1. Keeps(l, d)
        BY <3>2, <3>3 DEF Keeps, NoQueue
      <4> QED
        BY <3>2, <3>5, <4>1 DEF Shows
    <3>6. CASE r \notin {c, d}
      <4>1. PICK url \in Urls \ {c.url} : r = Connect(d, url, slot)
        BY <3>1, <3>6 DEF Reactions, d
      <4>2. ~Healthy(d, url)
        BY <3>2 DEF Healthy
      <4>3. /\ Sound(r) /\ r.url = url /\ (r.replayed => r = d)
            /\ SameQueue(d, r) \/ NoQueue(d, r)
            /\ \A v : ViewOf(r) = View!Connecting(v)
        BY <3>2, <4>1, <4>2, ConnectSound
      <4>4. NoQueue(l, r) /\ ~r.replayed /\ r.url # l.url
        BY <2>1, <3>2, <3>3, <4>1, <4>3 DEF NoQueue, SameQueue
      <4>5. Keeps(l, r)
        BY <4>4 DEF Keeps, NoQueue
      <4> QED
        BY <4>3, <4>5 DEF Shows
    <3> QED
      BY <3>4, <3>5, <3>6
  <2>5. CASE ~terminal
    <3>1. r \in {ScheduleReconnect(c, delay) : delay \in Delays(Gone(l, s).backoff)}
      BY <1>1, <1>3, <2>5 DEF HandleClose
    <3> HIDE DEF c
    <3>2. PICK delay \in Delays(Gone(l, s).backoff) : r = ScheduleReconnect(c, delay)
      BY <3>1
    <3>3. delay \in 0 .. RECONNECT_MAX_MS
      BY DelaysInRange
    <3>4. /\ Sound(r) /\ SameQueue(c, r) /\ r.url = c.url /\ r.replayed = FALSE
          /\ ViewOf(r) = [status |-> "closed", replayed |-> FALSE,
                          heard |-> c.heard, retry |-> TRUE]
      BY <2>1, <2>5, <3>2, <3>3, RetrySound
    <3>5. Keeps(l, r)
      BY <2>1, <2>5, <3>4 DEF Keeps, SameQueue
    <3>6. ViewOf(r) \in View!Dropped(ViewOf(l)) /\ ViewOf(l).status # "closed"
      BY <2>1, <2>3, <2>5, <3>4 DEF ViewOf, View!Dropped
    <3> QED
      BY <3>4, <3>5, <3>6 DEF Shows
  <2> QED
    BY <2>4, <2>5
<1> QED
  BY <1>2, <1>3

\* A watchdog gives the current socket up.
LEMMA DropSound ==
  ASSUME NEW l, Stable(l), NEW s \in Slots, l.socket = s, l.status # "closed",
         NEW r \in DropDeadSocket(l, s)
  PROVE  /\ Sound(r) /\ Shows(ViewOf(l), ViewOf(r)) /\ Keeps(l, r)
<1> DEFINE q == [l EXCEPT !.connect = Null, !.ping = Null]
           t == Retire(q)
           d == [t EXCEPT !.replayed = FALSE, !.heard = Null, !.status = "closed"]
<1>1. l \in LinkStates /\ s # Null
  BY NullAssumption DEF Stable
<1>2. /\ q \in LinkStates /\ q.url = l.url /\ q.socket = l.socket /\ q.wires = l.wires
      /\ q.retry = l.retry /\ q.ping = Null /\ q.connect = Null /\ q.rejected = l.rejected
      /\ SameQueue(l, q)
  BY <1>1 DEF LinkStates, SameQueue
<1> HIDE DEF q
<1>3. OneInUse(q) /\ (q.socket # Null => q.wires[q.socket] # Null)
  BY <1>2 DEF Stable, OneInUse, InUse
<1>4. /\ t \in LinkStates /\ t.socket = Null /\ t.url = l.url /\ t.ping = Null
      /\ t.connect = Null /\ t.retry = l.retry /\ t.rejected = l.rejected
      /\ \A x \in Slots : t.wires[x] # Null => t.wires[x].closed
      /\ SameQueue(l, t)
  BY <1>2, <1>3, RetireFields DEF SameQueue
<1>5. l.url # Null /\ l.retry = Null /\ ~l.rejected
  BY <1>1 DEF Stable, Stranded
<1>6. PICK delay \in Delays(l.backoff) : r = ScheduleReconnect(d, delay)
  BY DEF DropDeadSocket, q
<1> HIDE DEF t
<1>7. /\ d \in LinkStates /\ d.url = t.url /\ d.socket = Null /\ d.status = "closed"
      /\ d.replayed = FALSE /\ d.heard = Null /\ d.ping = t.ping /\ d.connect = t.connect
      /\ d.retry = t.retry /\ d.rejected = t.rejected /\ d.wires = t.wires
      /\ SameQueue(t, d)
  BY <1>4 DEF LinkStates, SameQueue
<1> HIDE DEF d
<1>8. HandedToRoom(d) /\ PendingOfRoom(d)
  BY <1>4, <1>7 DEF Stable, SameQueue, HandedToRoom, PendingOfRoom
<1>9. Idle(d)
  BY <1>4, <1>5, <1>7, <1>8 DEF Idle, Unplugged
<1>10. d.url # Null /\ ~d.rejected
  BY <1>4, <1>5, <1>7
<1>11. delay \in 0 .. RECONNECT_MAX_MS
  BY DelaysInRange
<1>12. /\ Sound(r) /\ SameQueue(d, r) /\ r.replayed = FALSE
       /\ ViewOf(r) = [status |-> "closed", replayed |-> FALSE, heard |-> d.heard,
                       retry |-> TRUE]
  BY <1>6, <1>8, <1>9, <1>10, <1>11, RetrySound
<1>13. Keeps(l, r)
  BY <1>4, <1>7, <1>12 DEF Keeps, SameQueue
<1>14. ViewOf(r) \in View!Dropped(ViewOf(l)) /\ ViewOf(l).status # "closed"
  BY <1>7, <1>12 DEF ViewOf, View!Dropped
<1> QED
  BY <1>12, <1>13, <1>14 DEF Shows

--------------------------------------------------------------------------------
(* What happens to a socket.                                                   *)

\* The other side of a socket changes: nothing the client knows of does.
SameButWires(l, g) ==
  /\ g.url = l.url /\ g.socket = l.socket /\ g.status = l.status /\ g.replayed = l.replayed
  /\ g.lastSeen = l.lastSeen /\ g.heard = l.heard /\ g.openAge = l.openAge
  /\ g.ping = l.ping /\ g.connect = l.connect /\ g.retry = l.retry
  /\ g.rejected = l.rejected /\ SameQueue(l, g)

LEMMA WireChanged ==
  ASSUME NEW l, Sound(l), NEW s \in Slots, l.wires[s] # Null, NEW x \in Wires,
         x.closed = l.wires[s].closed, x.url = l.wires[s].url,
         l.wires[s].synced => x.synced
  PROVE  LET g == [l EXCEPT !.wires[s] = x]
         IN  /\ g \in LinkStates /\ SameButWires(l, g)
             /\ g.wires[s] = x
             /\ \A t \in Slots : t # s => g.wires[t] = l.wires[t]
             /\ OneInUse(g) /\ Stranded(g) /\ Watched(g)
             /\ PendingOfRoom(g) /\ HandedToRoom(g)
<1> DEFINE w == [l.wires EXCEPT ![s] = x]
           g == [l EXCEPT !.wires[s] = x]
<1>1. l \in LinkStates /\ l.wires \in [Slots -> Wires \union {Null}] /\ Stable(l)
  BY DEF Sound, Stable, LinkStates
<1>2. /\ w \in [Slots -> Wires \union {Null}] /\ w[s] = x
      /\ \A t \in Slots : t # s => w[t] = l.wires[t]
  BY <1>1
<1>3. g = [l EXCEPT !.wires = w]
  BY <1>1 DEF LinkStates
<1> HIDE DEF w, g
<1>4. g \in LinkStates
  <2>1. w \in [Slots -> Wires \union {Null}]
    BY <1>2
  <2> QED
    BY <1>1, <1>3, <2>1 DEF LinkStates
<1>5. SameButWires(l, g) /\ g.wires = w
  BY <1>1, <1>3 DEF LinkStates, SameQueue, SameButWires
<1>6. OneInUse(g)
  <2>1. OneInUse(l)
    BY <1>1 DEF Stable
  <2> SUFFICES ASSUME NEW t \in Slots, g.wires[t] # Null, ~g.wires[t].closed
               PROVE  t = g.socket
    BY DEF OneInUse
  <2>2. l.wires[t] # Null /\ ~l.wires[t].closed
    BY <1>2, <1>5
  <2> QED
    BY <1>5, <2>1, <2>2 DEF OneInUse, SameButWires
<1>7. Stranded(g) /\ Watched(g)
  BY <1>1, <1>5 DEF Sound, Stable, Stranded, Watched, SameButWires
<1>8. PendingOfRoom(g) /\ HandedToRoom(g)
  BY <1>1, <1>5 DEF Stable, PendingOfRoom, HandedToRoom, SameQueue, SameButWires
<1> QED
  BY <1>2, <1>4, <1>5, <1>6, <1>7, <1>8 DEF g

\* A socket dies, or one the client has closed says something or opens.
LEMMA WireSound ==
  ASSUME NEW l, Sound(l), NEW s \in Slots, l.wires[s] # Null, NEW x \in Wires,
         x.closed = l.wires[s].closed, x.url = l.wires[s].url,
         l.wires[s].synced => x.synced,
         l.socket = s => x.phase \in {"dead", l.wires[s].phase}
  PROVE  LET g == [l EXCEPT !.wires[s] = x]
         IN  Sound(g) /\ ViewOf(g) = ViewOf(l) /\ Keeps(l, g)
<1> DEFINE g == [l EXCEPT !.wires[s] = x]
<1>1. /\ g \in LinkStates /\ SameButWires(l, g)
      /\ g.wires[s] = x
      /\ \A t \in Slots : t # s => g.wires[t] = l.wires[t]
      /\ OneInUse(g) /\ Stranded(g) /\ Watched(g)
      /\ PendingOfRoom(g) /\ HandedToRoom(g)
  BY WireChanged
<1> HIDE DEF g
<1>2. InUse(g)
  <2> SUFFICES ASSUME g.socket # Null
               PROVE  InUse(g)
    BY DEF InUse
  <2>1. l.socket = g.socket /\ l.socket \in Slots /\ l.socket # Null /\ InUse(l)
    BY <1>1 DEF Sound, Stable, LinkStates, SameButWires
  <2>2. CASE l.socket = s
    BY <1>1, <2>1, <2>2, NoSocketAssumption DEF InUse, SameButWires
  <2>3. CASE l.socket # s
    BY <1>1, <2>1, <2>3 DEF InUse, SameButWires
  <2> QED
    BY <2>2, <2>3
<1>3. ViewOf(g) = ViewOf(l)
  BY <1>1 DEF ViewOf, SameButWires
<1>4. Keeps(l, g)
  BY <1>1 DEF Keeps, SameQueue, SameButWires
<1> QED
  BY <1>1, <1>2, <1>3, <1>4 DEF Sound, Stable, g

LEMMA OpenedView ==
  ASSUME NEW c, NEW r, NEW h, NEW q
  PROVE  View!Opened([status |-> c, replayed |-> r, heard |-> h, retry |-> q])
           = [status |-> "open", replayed |-> r, heard |-> h, retry |-> q]
BY DEF View!Opened

LEMMA OpensSound ==
  ASSUME Sound(link), NEW s \in Slots, Opens(s)
  PROVE  Sound(link') /\ Shows(ViewOf(link), ViewOf(link')) /\ Keeps(link, link')
<1> DEFINE l == link
           x == [l.wires[s] EXCEPT !.phase = "open"]
           g == [l EXCEPT !.wires[s] = x]
           o == [g EXCEPT !.connect = Null, !.lastSeen = 0, !.replayed = FALSE,
                          !.openAge = 0, !.status = "open",
                          !.ping = Timer(PING_INTERVAL_MS, s)]
<1>1. /\ l \in LinkStates /\ l.wires[s] \in Wires /\ l.wires[s] # Null
      /\ l.wires[s].phase = "connecting"
  BY DEF Sound, Stable, LinkStates, Opens
<1>2. /\ x \in Wires /\ x.phase = "open" /\ x.closed = l.wires[s].closed
      /\ x.url = l.wires[s].url /\ x.synced = l.wires[s].synced
  BY <1>1 DEF Wires
<1>3. link' = HandleOpen(g, s)
  BY DEF Opens
<1> HIDE DEF l, x
<1>4. /\ g \in LinkStates /\ SameButWires(l, g)
      /\ g.wires[s] = x
      /\ \A t \in Slots : t # s => g.wires[t] = l.wires[t]
      /\ OneInUse(g) /\ Stranded(g) /\ Watched(g)
      /\ PendingOfRoom(g) /\ HandedToRoom(g)
  BY <1>1, <1>2, WireChanged DEF l
<1>5. CASE l.socket # s
  <2>1. link' = g
    BY <1>3, <1>4, <1>5 DEF HandleOpen, SameButWires
  <2>2. Sound(g) /\ ViewOf(g) = ViewOf(l) /\ Keeps(l, g)
    BY <1>1, <1>2, <1>5, WireSound DEF l
  <2> QED
    BY <2>1, <2>2 DEF Shows, l
<1>6. CASE l.socket = s
  <2> HIDE DEF g
  <2>1. s # Null /\ Sound(l)
    BY NullAssumption DEF l
  <2>2. /\ l.url # Null /\ l.status = "connecting" /\ ~l.replayed
        /\ x.url = l.url /\ ~x.closed
    BY <1>1, <1>2, <1>6, <2>1 DEF Sound, Stable, Stranded, InUse, Watched
  <2>3. link' = o
    BY <1>3, <1>4, <1>6, <2>2 DEF HandleOpen, SameButWires
  <2>4. /\ Timer(PING_INTERVAL_MS, s) \in Timers(PING_INTERVAL_MS)
        /\ Timer(PING_INTERVAL_MS, s) # Null
        /\ Timer(PING_INTERVAL_MS, s).socket = s
    BY TimerTypes
  <2>5. o \in LinkStates
    <3>1. 0 \in 0 .. MaxSeq
      BY ClientAssumption
    <3>2. [g EXCEPT !.connect = Null, !.lastSeen = 0, !.replayed = FALSE] \in LinkStates
      BY <1>4, <3>1 DEF LinkStates
    <3>3. o = [[g EXCEPT !.connect = Null, !.lastSeen = 0, !.replayed = FALSE]
                 EXCEPT !.openAge = 0, !.status = "open", !.ping = Timer(PING_INTERVAL_MS, s)]
      BY <1>4 DEF LinkStates
    <3> QED
      BY <2>4, <3>2, <3>3, AgesOK DEF LinkStates
  <2>6. /\ o.url = l.url /\ o.socket = s /\ o.status = "open" /\ o.replayed = FALSE
        /\ o.heard = l.heard /\ o.ping = Timer(PING_INTERVAL_MS, s) /\ o.connect = Null
        /\ o.retry = l.retry /\ o.rejected = l.rejected /\ o.wires = g.wires
        /\ SameQueue(g, o) /\ SameQueue(l, o)
    BY <1>4, <1>6 DEF LinkStates, SameButWires, SameQueue
  <2> HIDE DEF o
  <2>7. OneInUse(o)
    BY <1>4, <1>6, <2>6 DEF OneInUse, SameButWires
  <2>8. InUse(o)
    BY <1>2, <1>4, <2>1, <2>2, <2>6, NoSocketAssumption DEF InUse
  <2>9. Stranded(o)
    BY <1>6, <2>1, <2>6 DEF Sound, Stable, Stranded
  <2>10. Watched(o)
    BY <2>1, <2>4, <2>6 DEF Watched
  <2>11. PendingOfRoom(o) /\ HandedToRoom(o)
    BY <1>4, <2>6 DEF PendingOfRoom, HandedToRoom, SameQueue, SameButWires
  <2>12. ViewOf(l).status = "connecting" /\ ViewOf(o) = View!Opened(ViewOf(l))
    <3> DEFINE q == l.retry # Null
    <3>1. l.replayed = o.replayed
      BY <1>1, <2>2, <2>6 DEF LinkStates
    <3>2. ViewOf(l) = [status |-> l.status, replayed |-> l.replayed, heard |-> l.heard,
                       retry |-> q]
      BY DEF ViewOf
    <3>3. ViewOf(o) = [status |-> "open", replayed |-> l.replayed, heard |-> l.heard,
                       retry |-> q]
      BY <2>6, <3>1 DEF ViewOf
    <3>4. ViewOf(l).status = "connecting"
      BY <2>2 DEF ViewOf
    <3> HIDE DEF q
    <3> QED
      BY <3>2, <3>3, <3>4, OpenedView
  <2>13. Keeps(l, o)
    BY <2>6 DEF Keeps, SameQueue
  <2>14. Sound(o) /\ Shows(ViewOf(l), ViewOf(o)) /\ Keeps(l, o)
    BY <2>5, <2>7, <2>8, <2>9, <2>10, <2>11, <2>12, <2>13 DEF Sound, Stable, Shows
  <2> QED
    BY <2>3, <2>14 DEF l
<1> QED
  BY <1>5, <1>6

--------------------------------------------------------------------------------
(* What is pending, and what is sent.                                          *)

LEMMA ElementsOf ==
  ASSUME NEW S, NEW q \in Seq(S)
  PROVE  /\ Elements(q) = {q[i] : i \in 1 .. Len(q)}
         /\ Elements(q) \in SUBSET S
<1>1. DOMAIN q = 1 .. Len(q) /\ Len(q) \in Nat
  BY LenProperties
<1>2. \A i \in 1 .. Len(q) : q[i] \in S
  BY ElementOfSeq
<1> QED
  BY <1>1, <1>2 DEF Elements

LEMMA ElementsOfNone == Elements(<<>>) = {}
BY DEF Elements

LEMMA ElementsOfOne ==
  ASSUME NEW S, NEW e \in S
  PROVE  <<e>> \in Seq(S) /\ Elements(<<e>>) = {e}
<1> DEFINE q == <<e>>
<1>1. q \in Seq(S) /\ Len(q) = 1 /\ q[1] = e
  OBVIOUS
<1> HIDE DEF q
<1>2. Elements(q) = {q[i] : i \in 1 .. Len(q)}
  BY <1>1, ElementsOf
<1>3. Elements(q) = {e}
  BY <1>1, <1>2
<1> QED
  BY <1>1, <1>3 DEF q

LEMMA ElementsOfConcat ==
  ASSUME NEW S, NEW a \in Seq(S), NEW b \in Seq(S)
  PROVE  /\ a \o b \in Seq(S)
         /\ Elements(a \o b) = Elements(a) \union Elements(b)
<1> DEFINE c == a \o b
<1>1. /\ c \in Seq(S) /\ Len(c) = Len(a) + Len(b)
      /\ \A i \in 1 .. Len(a) + Len(b) :
           c[i] = IF i <= Len(a) THEN a[i] ELSE b[i - Len(a)]
  BY ConcatProperties
<1>2. Len(a) \in Nat /\ Len(b) \in Nat
  BY LenProperties
<1>3. /\ Elements(a) = {a[i] : i \in 1 .. Len(a)}
      /\ Elements(b) = {b[i] : i \in 1 .. Len(b)}
      /\ Elements(c) = {c[i] : i \in 1 .. Len(c)}
  BY <1>1, ElementsOf
<1> HIDE DEF c
<1>4. ASSUME NEW e \in Elements(c)
      PROVE  e \in Elements(a) \union Elements(b)
  <2>1. PICK i \in 1 .. Len(c) : e = c[i]
    BY <1>3
  <2>2. CASE i <= Len(a)
    BY <1>1, <1>2, <1>3, <2>1, <2>2
  <2>3. CASE ~(i <= Len(a))
    <3>1. i - Len(a) \in 1 .. Len(b) /\ e = b[i - Len(a)]
      BY <1>1, <1>2, <2>1, <2>3
    <3> QED
      BY <1>3, <3>1
  <2> QED
    BY <2>2, <2>3
<1>5. ASSUME NEW e \in Elements(a)
      PROVE  e \in Elements(c)
  <2>1. PICK i \in 1 .. Len(a) : e = a[i]
    BY <1>3
  <2>2. i \in 1 .. Len(c) /\ c[i] = e
    BY <1>1, <1>2, <2>1
  <2> QED
    BY <1>3, <2>2
<1>6. ASSUME NEW e \in Elements(b)
      PROVE  e \in Elements(c)
  <2>1. PICK i \in 1 .. Len(b) : e = b[i]
    BY <1>3
  <2>2. Len(a) + i \in 1 .. Len(c) /\ ~(Len(a) + i <= Len(a)) /\ (Len(a) + i) - Len(a) = i
    BY <1>1, <1>2
  <2>3. c[Len(a) + i] = e
    BY <1>1, <1>2, <2>1, <2>2
  <2> QED
    BY <1>3, <2>2, <2>3
<1> QED
  BY <1>1, <1>4, <1>5, <1>6 DEF c

\* An intent that may be there, as a sequence.
Optional(x) == IF x = Null THEN <<>> ELSE <<x>>

LEMMA OptionalElements ==
  ASSUME NEW x \in Intents \union {Null}
  PROVE  /\ Optional(x) \in Seq(Intents)
         /\ Elements(Optional(x)) = {x} \ {Null}
<1>1. CASE x = Null
  <2>1. <<>> \in Seq(Intents)
    OBVIOUS
  <2> QED
    BY <1>1, <2>1, ElementsOfNone DEF Optional
<1>2. CASE x # Null
  <2>1. x \in Intents
    BY <1>2
  <2>2. <<x>> \in Seq(Intents) /\ Elements(<<x>>) = {x}
    BY <2>1, ElementsOfOne
  <2> QED
    BY <1>2, <2>2 DEF Optional
<1> QED
  BY <1>1, <1>2

LEMMA PendingElements ==
  ASSUME NEW l \in LinkStates
  PROVE  /\ Pending(l) \in Seq(Intents)
         /\ Elements(Pending(l)) = ({l.lane, l.cars} \ {Null}) \union Elements(l.messages)
         /\ Pending(l) = (Optional(l.lane) \o Optional(l.cars)) \o l.messages
<1> DEFINE a == Optional(l.lane)
           b == Optional(l.cars)
           m == l.messages
<1>1. l.lane \in Intents \union {Null} /\ l.cars \in Intents \union {Null} /\ m \in Seq(Intents)
  BY DEF LinkStates
<1>2. Pending(l) = (a \o b) \o m
  BY DEF Pending, Optional
<1>3. /\ a \in Seq(Intents) /\ Elements(a) = {l.lane} \ {Null}
      /\ b \in Seq(Intents) /\ Elements(b) = {l.cars} \ {Null}
  BY <1>1, OptionalElements
<1> HIDE DEF a, b, m
<1>4. a \o b \in Seq(Intents) /\ Elements(a \o b) = Elements(a) \union Elements(b)
  BY <1>3, ElementsOfConcat
<1> DEFINE ab == a \o b
<1> HIDE DEF ab
<1>5. ab \o m \in Seq(Intents) /\ Elements(ab \o m) = Elements(ab) \union Elements(m)
  <2>1. ab \in Seq(Intents)
    BY <1>4 DEF ab
  <2> QED
    BY <1>1, <2>1, ElementsOfConcat
<1> QED
  BY <1>2, <1>3, <1>4, <1>5 DEF ab, a, b, m

LEMMA QueueFields ==
  ASSUME NEW l \in LinkStates, NEW intent \in Intents
  PROVE  LET q == Queue(l, intent)
         IN  q \in LinkStates /\ SameLink(l, q) /\ Queued(l, q, intent)
<1>1. CASE intent.kind = "lane"
  <2>1. Queue(l, intent) = [l EXCEPT !.lane = intent]
    BY <1>1 DEF Queue
  <2> QED
    BY <1>1, <2>1 DEF LinkStates, SameLink, Queued
<1>2. CASE intent.kind = "cars"
  <2>1. Queue(l, intent) = [l EXCEPT !.cars = intent]
    BY <1>2 DEF Queue
  <2> QED
    BY <1>2, <2>1 DEF LinkStates, SameLink, Queued
<1>3. CASE intent.kind \notin {"lane", "cars"}
  <2> DEFINE m == Append(l.messages, intent)
  <2>1. l.messages \in Seq(Intents)
    BY DEF LinkStates
  <2>2. m \in Seq(Intents)
    BY <2>1
  <2>3. Queue(l, intent) = [l EXCEPT !.messages = m]
    BY <1>3 DEF Queue, LinkStates
  <2> HIDE DEF m
  <2>4. [l EXCEPT !.messages = m] \in LinkStates
    BY <2>2 DEF LinkStates
  <2>5. /\ SameLink(l, [l EXCEPT !.messages = m])
        /\ [l EXCEPT !.messages = m].handed = l.handed
        /\ [l EXCEPT !.messages = m].lane = l.lane
        /\ [l EXCEPT !.messages = m].cars = l.cars
        /\ [l EXCEPT !.messages = m].messages = m
    BY DEF LinkStates, SameLink
  <2> QED
    BY <1>3, <2>3, <2>4, <2>5 DEF m, Queued
<1> QED
  BY <1>1, <1>2, <1>3

\* What is written to the current socket is written in the order it is in.
Written(l, intents) ==
  [i \in DOMAIN intents |->
     [intent |-> intents[i], to |-> l.wires[l.socket].url, synced |-> l.wires[l.socket].synced]]

LEMMA WrittenSeq ==
  ASSUME NEW l \in LinkStates, l.socket \in Slots, l.wires[l.socket] \in Wires,
         NEW intents \in Seq(Intents)
  PROVE  /\ Written(l, intents) \in Seq(Handed)
         /\ Len(Written(l, intents)) = Len(intents)
         /\ \A i \in 1 .. Len(intents) :
              Written(l, intents)[i] = [intent |-> intents[i], to |-> l.wires[l.socket].url,
                                        synced |-> l.wires[l.socket].synced]
<1> DEFINE wire == l.wires[l.socket]
           w == Written(l, intents)
           n == Len(intents)
<1>1. DOMAIN intents = 1 .. n /\ n \in Nat
  BY LenProperties
<1>2. wire.url \in Urls /\ wire.synced \in BOOLEAN
  BY DEF Wires
<1> HIDE DEF wire
<1>3. w = [i \in 1 .. n |-> [intent |-> intents[i], to |-> wire.url, synced |-> wire.synced]]
  BY <1>1 DEF Written, wire
<1>4. \A i \in 1 .. n : [intent |-> intents[i], to |-> wire.url, synced |-> wire.synced]
                          \in Handed
  <2>1. \A i \in 1 .. n : intents[i] \in Intents
    BY ElementOfSeq
  <2> QED
    BY <1>2, <2>1 DEF Handed
<1> HIDE DEF w, n
<1>5. w \in [1 .. n -> Handed]
  BY <1>3, <1>4
<1>6. w \in Seq(Handed) /\ Len(w) = n
  BY <1>1, <1>5
<1> QED
  BY <1>3, <1>6 DEF wire, w, n

LEMMA TransmitFields ==
  ASSUME NEW l \in LinkStates, l.socket \in Slots, l.wires[l.socket] \in Wires,
         NEW intents \in Seq(Intents)
  PROVE  LET t == Transmit(l, intents)
         IN  /\ t \in LinkStates /\ SameLink(l, t)
             /\ t.lane = l.lane /\ t.cars = l.cars /\ t.messages = l.messages
             /\ t.handed = l.handed \o Written(l, intents)
<1> DEFINE h == l.handed \o Written(l, intents)
<1>1. l.handed \in Seq(Handed) /\ Written(l, intents) \in Seq(Handed)
  BY WrittenSeq DEF LinkStates
<1>2. h \in Seq(Handed)
  BY <1>1, ConcatProperties
<1>3. Transmit(l, intents) = [l EXCEPT !.handed = h]
  BY NullAssumption DEF Transmit, Written, LinkStates
<1> HIDE DEF h
<1>4. [l EXCEPT !.handed = h] \in LinkStates
  BY <1>2 DEF LinkStates
<1>5. /\ SameLink(l, [l EXCEPT !.handed = h])
      /\ [l EXCEPT !.handed = h].lane = l.lane /\ [l EXCEPT !.handed = h].cars = l.cars
      /\ [l EXCEPT !.handed = h].messages = l.messages
      /\ [l EXCEPT !.handed = h].handed = h
  BY DEF LinkStates, SameLink
<1> QED
  BY <1>3, <1>4, <1>5 DEF h

--------------------------------------------------------------------------------
(* A session that goes on.                                                     *)

SameSession(l, r) ==
  /\ r.url = l.url /\ r.socket = l.socket /\ r.status = l.status /\ r.replayed = l.replayed
  /\ r.rejected = l.rejected /\ r.wires = l.wires
  /\ (r.ping = Null) <=> (l.ping = Null)
  /\ (r.connect = Null) <=> (l.connect = Null)
  /\ l.ping # Null => r.ping.socket = l.ping.socket
  /\ l.connect # Null => r.connect.socket = l.connect.socket
  /\ (r.retry = Null) <=> (l.retry = Null)

LEMMA SessionSound ==
  ASSUME NEW l, Sound(l), NEW r \in LinkStates, SameSession(l, r),
         PendingOfRoom(r), HandedToRoom(r)
  PROVE  Sound(r)
<1>1. OneInUse(r)
  BY DEF Sound, Stable, OneInUse, SameSession
<1>2. InUse(r)
  BY DEF Sound, Stable, InUse, SameSession
<1>3. Stranded(r)
  BY DEF Sound, Stable, Stranded, SameSession
<1>4. Watched(r)
  BY DEF Sound, Watched, SameSession
<1> QED
  BY <1>1, <1>2, <1>3, <1>4 DEF Sound, Stable

\* A frame is heard, or a state is seen.
HeardIn(l, h, a, n) == [l EXCEPT !.heard = h, !.openAge = a, !.lastSeen = n]

LEMMA HeardSound ==
  ASSUME NEW l, Sound(l), NEW h \in Ages \union {Null}, NEW a \in Ages, NEW n \in 0 .. MaxSeq
  PROVE  LET r == HeardIn(l, h, a, n)
         IN  /\ Sound(r) /\ SameQueue(l, r)
             /\ r.url = l.url /\ r.socket = l.socket /\ r.status = l.status
             /\ r.replayed = l.replayed /\ r.heard = h /\ r.retry = l.retry
             /\ r.wires = l.wires /\ r.rejected = l.rejected
<1> DEFINE r == HeardIn(l, h, a, n)
<1>1. l \in LinkStates
  BY DEF Sound, Stable
<1>2. r \in LinkStates
  BY <1>1 DEF LinkStates, HeardIn
<1>3. /\ r.url = l.url /\ r.socket = l.socket /\ r.status = l.status
      /\ r.replayed = l.replayed /\ r.heard = h /\ r.retry = l.retry
      /\ r.wires = l.wires /\ r.rejected = l.rejected /\ r.ping = l.ping
      /\ r.connect = l.connect /\ SameQueue(l, r)
  BY <1>1 DEF LinkStates, SameQueue, HeardIn
<1> HIDE DEF r
<1>4. SameSession(l, r)
  BY <1>3 DEF SameSession
<1>5. PendingOfRoom(r) /\ HandedToRoom(r)
  BY <1>3 DEF Sound, Stable, PendingOfRoom, HandedToRoom, SameQueue
<1>6. Sound(r)
  BY <1>2, <1>4, <1>5, SessionSound
<1> QED
  BY <1>3, <1>6 DEF r

LEMMA QueueSound ==
  ASSUME NEW l, Sound(l), NEW intent \in Intents, intent.room \in {Null, l.url}
  PROVE  LET q == Queue(l, intent)
         IN  Sound(q) /\ SameLink(l, q) /\ Queued(l, q, intent)
<1> DEFINE q == Queue(l, intent)
<1>1. l \in LinkStates
  BY DEF Sound, Stable
<1>2. q \in LinkStates /\ SameLink(l, q) /\ Queued(l, q, intent)
  BY <1>1, QueueFields
<1> HIDE DEF q
<1>3. SameSession(l, q)
  BY <1>2 DEF SameSession, SameLink
<1>4. PendingOfRoom(l) /\ HandedToRoom(l)
  BY DEF Sound, Stable
<1>5. HandedToRoom(q)
  BY <1>2, <1>4 DEF HandedToRoom, Queued
<1>6. PendingOfRoom(q)
  <2>1. q.url = l.url
    BY <1>2 DEF SameLink
  <2>2. /\ q.lane # Null => q.lane.room \in {Null, q.url}
        /\ q.cars # Null => q.cars.room \in {Null, q.url}
    BY <1>2, <1>4, <2>1 DEF PendingOfRoom, Queued
  <2>3. \A i \in 1 .. Len(q.messages) : q.messages[i].room \in {Null, q.url}
    <3>1. CASE intent.kind \in {"lane", "cars"}
      BY <1>2, <1>4, <2>1, <3>1 DEF PendingOfRoom, Queued
    <3>2. CASE intent.kind \notin {"lane", "cars"}
      <4>1. l.messages \in Seq(Intents) /\ q.messages = Append(l.messages, intent)
        BY <1>1, <1>2, <3>2 DEF LinkStates, Queued
      <4>2. /\ Len(l.messages) \in Nat /\ Len(q.messages) = Len(l.messages) + 1
            /\ q.messages[Len(l.messages) + 1] = intent
            /\ \A i \in 1 .. Len(l.messages) : q.messages[i] = l.messages[i]
        BY <4>1
      <4>3. ASSUME NEW i \in 1 .. Len(q.messages)
            PROVE  q.messages[i].room \in {Null, q.url}
        <5>1. i \in 1 .. Len(l.messages) \/ i = Len(l.messages) + 1
          BY <4>2
        <5> QED
          BY <1>4, <2>1, <4>2, <5>1 DEF PendingOfRoom
      <4> QED
        BY <4>3
    <3> QED
      BY <3>1, <3>2
  <2> QED
    BY <2>2, <2>3 DEF PendingOfRoom
<1> QED
  BY <1>2, <1>3, <1>5, <1>6, SessionSound DEF q

\* Only a replayed session is written to.
LEMMA TransmitSound ==
  ASSUME NEW l, Sound(l), l.socket # Null, l.replayed, NEW intents \in Seq(Intents),
         \A e \in Elements(intents) : e.room \in {Null, l.url}
  PROVE  LET t == Transmit(l, intents)
         IN  /\ Sound(t) /\ SameLink(l, t)
             /\ t.lane = l.lane /\ t.cars = l.cars /\ t.messages = l.messages
             /\ SentAll(l, t, intents)
<1> DEFINE t == Transmit(l, intents)
           w == Written(l, intents)
           wire == l.wires[l.socket]
<1>1. l \in LinkStates /\ l.socket \in Slots /\ PendingOfRoom(l) /\ HandedToRoom(l)
  BY DEF Sound, Stable, LinkStates
<1>2. wire \in Wires /\ wire.synced = TRUE /\ wire.url = l.url
  <2>1. wire # Null /\ wire.url = l.url /\ wire.synced
    BY DEF Sound, Stable, InUse
  <2>2. wire \in Wires \union {Null}
    BY <1>1 DEF LinkStates
  <2> QED
    BY <2>1, <2>2 DEF Wires
<1>3. /\ t \in LinkStates /\ SameLink(l, t)
      /\ t.lane = l.lane /\ t.cars = l.cars /\ t.messages = l.messages
      /\ t.handed = l.handed \o w
  BY <1>1, <1>2, TransmitFields
<1>4. /\ w \in Seq(Handed) /\ Len(w) = Len(intents)
      /\ \A i \in 1 .. Len(intents) :
           w[i] = [intent |-> intents[i], to |-> wire.url, synced |-> wire.synced]
  BY <1>1, <1>2, WrittenSeq
<1> HIDE DEF t, w, wire
<1> DEFINE h == l.handed
<1>5. h \in Seq(Handed) /\ w \in Seq(Handed)
  BY <1>1, <1>4 DEF LinkStates
<1> HIDE DEF h
<1>6. /\ h \o w \in Seq(Handed) /\ Len(h \o w) = Len(h) + Len(w)
      /\ \A i \in 1 .. Len(h) + Len(w) :
           (h \o w)[i] = IF i <= Len(h) THEN h[i] ELSE w[i - Len(h)]
  BY <1>5, ConcatProperties
<1>7. Len(h) \in Nat /\ Len(w) \in Nat
  BY <1>4, <1>5, LenProperties
<1>8. HandedToRoom(t)
  <2> SUFFICES ASSUME NEW i \in 1 .. Len(t.handed)
               PROVE  /\ t.handed[i].intent.room \in {Null, t.handed[i].to}
                      /\ t.handed[i].synced
    BY DEF HandedToRoom
  <2>1. i \in 1 .. Len(h) + Len(w)
    BY <1>3, <1>6 DEF h
  <2>2. CASE i <= Len(h)
    <3>1. t.handed[i] = l.handed[i] /\ i \in 1 .. Len(l.handed)
      BY <1>3, <1>6, <1>7, <2>1, <2>2 DEF h
    <3> QED
      BY <1>1, <3>1 DEF HandedToRoom
  <2>3. CASE ~(i <= Len(h))
    <3> DEFINE j == i - Len(h)
    <3>1. t.handed[i] = w[j] /\ j \in 1 .. Len(intents)
      BY <1>3, <1>4, <1>6, <1>7, <2>1, <2>3 DEF h
    <3> HIDE DEF j
    <3>2. t.handed[i] = [intent |-> intents[j], to |-> wire.url, synced |-> wire.synced]
      BY <1>4, <3>1
    <3>3. intents[j].room \in {Null, l.url}
      BY <3>1, ElementsOf
    <3> QED
      BY <1>2, <3>2, <3>3
  <2> QED
    BY <2>2, <2>3
<1>9. PendingOfRoom(t)
  BY <1>1, <1>3 DEF PendingOfRoom, SameLink
<1>10. SameSession(l, t)
  BY <1>3 DEF SameSession, SameLink
<1>11. SentAll(l, t, intents)
  <2>1. ASSUME NEW i \in 1 .. Len(intents)
        PROVE  w[i].intent = intents[i]
    <3>1. w[i] = [intent |-> intents[i], to |-> wire.url, synced |-> wire.synced]
      BY <1>4
    <3> QED
      BY <3>1
  <2> QED
    BY <1>3, <1>4, <2>1 DEF SentAll
<1> QED
  BY <1>3, <1>8, <1>9, <1>10, <1>11, SessionSound DEF t

\* The replay of a session sends all that is pending.
LEMMA FlushSound ==
  ASSUME NEW l, Sound(l), l.socket # Null, l.replayed
  PROVE  LET f == FlushPending(l)
         IN  /\ Sound(f) /\ SameLink(l, f)
             /\ f.lane = Null /\ f.cars = Null /\ f.messages = <<>>
             /\ SentAll(l, f, Pending(l))
<1> DEFINE c == ClearPending(l)
           p == Pending(l)
           f == Transmit(c, p)
<1>1. l \in LinkStates /\ PendingOfRoom(l) /\ HandedToRoom(l)
  BY DEF Sound, Stable
<1>2. /\ c \in LinkStates /\ c.lane = Null /\ c.cars = Null /\ c.messages = <<>>
      /\ SameLink(l, c) /\ c.handed = l.handed
  BY <1>1, ClearPendingFields DEF SameLink
<1>3. p \in Seq(Intents) /\ Elements(p) = ({l.lane, l.cars} \ {Null}) \union Elements(l.messages)
  BY <1>1, PendingElements
<1> HIDE DEF c, p
<1>4. SameSession(l, c)
  BY <1>2 DEF SameLink, SameSession
<1>5. PendingOfRoom(c) /\ HandedToRoom(c)
  BY <1>1, <1>2 DEF PendingOfRoom, HandedToRoom
<1>6. Sound(c)
  BY <1>2, <1>4, <1>5, SessionSound
<1>7. \A e \in Elements(p) : e.room \in {Null, l.url}
  <2>1. l.messages \in Seq(Intents)
    BY <1>1 DEF LinkStates
  <2>2. Elements(l.messages) = {l.messages[i] : i \in 1 .. Len(l.messages)}
    BY <2>1, ElementsOf
  <2> QED
    BY <1>1, <1>3, <2>2 DEF PendingOfRoom
<1>8. c.url = l.url /\ c.socket # Null /\ c.replayed
  BY <1>2 DEF SameLink
<1>9. /\ Sound(f) /\ SameLink(c, f)
      /\ f.lane = c.lane /\ f.cars = c.cars /\ f.messages = c.messages
      /\ SentAll(c, f, p)
  BY <1>3, <1>6, <1>7, <1>8, TransmitSound
<1> HIDE DEF f
<1>10. SameLink(l, f) /\ SentAll(l, f, p)
  BY <1>2, <1>9 DEF SameLink, SentAll
<1>11. FlushPending(l) = f
  BY DEF FlushPending, f, c, p
<1> QED
  BY <1>2, <1>9, <1>10, <1>11 DEF p

LEMMA IssuedIntent ==
  ASSUME Sound(link), calls \in Nat, NEW kind \in Kinds
  PROVE  /\ Issued(kind) \in Intents /\ Issued(kind) # Null
         /\ Issued(kind).kind = kind /\ Issued(kind).id = calls + 1
         /\ Issued(kind).room \in {Null, link.url}
<1>1. link.url \in Urls \union {Null}
  BY DEF Sound, Stable, LinkStates
<1>2. Issued(kind) \in Intents
  BY <1>1 DEF Issued, Intents
<1> QED
  BY <1>2, NoSocketAssumption DEF Issued

LEMMA HeardView ==
  ASSUME NEW c, NEW r, NEW h, NEW q
  PROVE  View!Heard([status |-> c, replayed |-> r, heard |-> h, retry |-> q])
           = [status |-> c, replayed |-> r, heard |-> 0, retry |-> q]
BY DEF View!Heard

LEMMA ReplayedView ==
  ASSUME NEW c, NEW r, NEW h, NEW q
  PROVE  View!Replayed([status |-> c, replayed |-> r, heard |-> h, retry |-> q])
           = [status |-> c, replayed |-> TRUE, heard |-> 0, retry |-> q]
<1> DEFINE t == TRUE
           v == [status |-> c, replayed |-> r, heard |-> h, retry |-> q]
           u == [status |-> c, replayed |-> r, heard |-> 0, retry |-> q]
           w == [status |-> c, replayed |-> t, heard |-> 0, retry |-> q]
<1>1. View!Replayed(v) = [v EXCEPT !.heard = 0, !.replayed = t]
  BY DEF View!Replayed
<1> HIDE DEF t
<1>2. [v EXCEPT !.heard = 0] = u
  OBVIOUS
<1>3. [u EXCEPT !.replayed = t] = w
  OBVIOUS
<1> HIDE DEF v, u, w
<1>4. [v EXCEPT !.heard = 0, !.replayed = t] = [[v EXCEPT !.heard = 0] EXCEPT !.replayed = t]
  OBVIOUS
<1>5. View!Replayed(v) = w
  BY <1>1, <1>2, <1>3, <1>4
<1> QED
  BY <1>5 DEF v, w, t

\* The first state of a session is shown, and then all that is pending is sent.
LEMMA ReplaySound ==
  ASSUME NEW l, Sound(l), l.socket # Null, l.wires[l.socket].synced, l.status = "open"
  PROVE  LET r == FlushPending([l EXCEPT !.replayed = TRUE, !.backoff = RECONNECT_MIN_MS])
         IN  /\ Sound(r) /\ Flushed(l, r)
             /\ r.url = l.url /\ r.status = l.status /\ r.heard = l.heard
             /\ r.retry = l.retry /\ r.replayed = TRUE /\ r.rejected = l.rejected
<1> DEFINE m == [l EXCEPT !.replayed = TRUE, !.backoff = RECONNECT_MIN_MS]
           r == FlushPending(m)
<1>1. l \in LinkStates /\ PendingOfRoom(l) /\ HandedToRoom(l) /\ OneInUse(l) /\ InUse(l)
      /\ Stranded(l) /\ Watched(l)
  BY DEF Sound, Stable
<1>2. RECONNECT_MIN_MS \in RECONNECT_MIN_MS .. RECONNECT_MAX_MS
  BY ClientAssumption
<1>3. m \in LinkStates
  BY <1>1, <1>2 DEF LinkStates
<1>4. /\ m.url = l.url /\ m.socket = l.socket /\ m.status = l.status /\ m.replayed = TRUE
      /\ m.heard = l.heard /\ m.retry = l.retry /\ m.rejected = l.rejected
      /\ m.wires = l.wires /\ m.ping = l.ping /\ m.connect = l.connect
      /\ SameQueue(l, m)
  BY <1>1 DEF LinkStates, SameQueue
<1> HIDE DEF m
<1>5. OneInUse(m) /\ InUse(m)
  BY <1>1, <1>4 DEF OneInUse, InUse
<1>6. Stranded(m) /\ Watched(m)
  BY <1>1, <1>4 DEF Stranded, Watched
<1>7. PendingOfRoom(m) /\ HandedToRoom(m)
  BY <1>1, <1>4 DEF PendingOfRoom, HandedToRoom, SameQueue
<1>8. Sound(m)
  BY <1>3, <1>5, <1>6, <1>7 DEF Sound, Stable
<1>9. /\ Sound(r) /\ SameLink(m, r)
      /\ r.lane = Null /\ r.cars = Null /\ r.messages = <<>>
      /\ SentAll(m, r, Pending(m))
  BY <1>4, <1>8, FlushSound
<1> HIDE DEF r
<1>10. Pending(m) = Pending(l) /\ m.handed = l.handed
  BY <1>4 DEF Pending, SameQueue
<1>11. Flushed(l, r)
  BY <1>9, <1>10 DEF Flushed, SentAll
<1> QED
  BY <1>4, <1>9, <1>11 DEF SameLink, r, m

\* What a frame does to what is pending: nothing, or all of it is sent, with what
\* the app said when it was shown the state.
Delivered(l, r) ==
  \/ SameQueue(l, r) /\ r.replayed = l.replayed /\ calls' = calls
  \/ /\ \E z \in LinkStates :
          /\ Flushed(z, r)
          /\ \/ SameQueue(l, z) /\ calls' = calls
             \/ Queued(l, z, Issued("cars")) /\ calls < MaxCalls /\ calls' = calls + 1

LEMMA DeliversSound ==
  ASSUME Sound(link), calls \in Nat, NEW s \in Slots, NEW seq \in 0 .. MaxSeq, Delivers(s, seq)
  PROVE  /\ Sound(link') /\ Shows(ViewOf(link), ViewOf(link')) /\ Delivered(link, link')
         /\ link'.url = link.url /\ link'.rejected = link.rejected
         /\ IF link.socket = s /\ seq > link.lastSeen THEN link'.replayed = TRUE
            ELSE link'.replayed = link.replayed
<1> DEFINE l == link
           x == [l.wires[s] EXCEPT !.spoke = TRUE, !.synced = @ \/ seq > 0]
           g == [l EXCEPT !.wires[s] = x]
<1>1. /\ l \in LinkStates /\ l.wires[s] \in Wires /\ l.wires[s] # Null
      /\ l.wires[s].phase = "open"
  BY DEF Sound, Stable, LinkStates, Delivers
<1>2. /\ x \in Wires /\ x.phase = "open" /\ x.closed = l.wires[s].closed
      /\ x.url = l.wires[s].url /\ (l.wires[s].synced => x.synced)
      /\ (seq > 0 => x.synced)
  <2>1. (l.wires[s].synced \/ seq > 0) \in BOOLEAN
    OBVIOUS
  <2> QED
    BY <1>1, <2>1 DEF Wires
<1>3. PICK said \in Said(s, seq) :
        /\ link' = HandleMessage(g, s, seq, said)
        /\ calls' = IF said = Null THEN calls ELSE calls + 1
  BY DEF Delivers
<1>4. said # Null => /\ said = Issued("cars") /\ calls < MaxCalls
                     /\ l.socket = s /\ ~l.replayed /\ seq > l.lastSeen
  BY DEF Said
<1>5. Sound(l)
  OBVIOUS
<1> HIDE DEF l, x
<1>6. /\ g \in LinkStates /\ SameButWires(l, g) /\ g.wires[s] = x
      /\ \A t \in Slots : t # s => g.wires[t] = l.wires[t]
      /\ Sound(g) /\ ViewOf(g) = ViewOf(l)
  BY <1>1, <1>2, <1>5, WireChanged, WireSound
<1> HIDE DEF g
<1>7. CASE l.socket # s
  <2>1. link' = g /\ said = Null
    BY <1>3, <1>4, <1>6, <1>7 DEF HandleMessage, SameButWires
  <2>2. Delivered(l, g)
    BY <1>3, <1>6, <2>1 DEF Delivered, SameButWires
  <2>3. g.url = l.url /\ g.rejected = l.rejected /\ g.replayed = l.replayed
    BY <1>6 DEF SameButWires
  <2> QED
    BY <1>6, <1>7, <2>1, <2>2, <2>3 DEF Shows, l
<1>8. CASE l.socket = s
  <2>1. s # Null /\ g.socket = s /\ g.status = "open" /\ g.url = l.url /\ SameQueue(l, g)
        /\ l.status = "open" /\ g.rejected = l.rejected /\ g.replayed = l.replayed
        /\ g.lastSeen = l.lastSeen
    <3>1. s # Null
      BY NullAssumption
    <3>2. l.status = "open"
      BY <1>1, <1>5, <1>8, <3>1 DEF Sound, Stable, InUse
    <3> QED
      BY <1>6, <1>8, <3>1, <3>2 DEF SameButWires
  <2>2. g.lastSeen \in 0 .. MaxSeq /\ 0 \in Ages /\ 0 \in Ages \union {Null}
    BY <1>6, AgesOK DEF LinkStates
  <2>g. Sound(g)
    BY <1>6
  <2> DEFINE q == l.retry # Null
  <2>3. ViewOf(l) = [status |-> l.status, replayed |-> l.replayed, heard |-> l.heard,
                     retry |-> q]
    BY DEF ViewOf
  <2>4. ViewOf(l).status = "open"
    BY <2>1 DEF ViewOf
  <2>5. CASE seq <= g.lastSeen
    <3> DEFINE r == HeardIn(g, 0, 0, g.lastSeen)
    <3>1. link' = r
      BY <1>3, <1>6, <2>1, <2>5 DEF HandleMessage, HeardIn, LinkStates
    <3>2. said = Null
      BY <1>4, <2>1, <2>2, <2>5
    <3>3. /\ Sound(r) /\ SameQueue(g, r)
          /\ r.url = g.url /\ r.status = g.status /\ r.replayed = g.replayed
          /\ r.heard = 0 /\ r.retry = g.retry /\ r.rejected = g.rejected
      BY <2>g, <2>2, HeardSound
    <3> HIDE DEF r
    <3>4. Delivered(l, r)
      BY <1>3, <2>1, <3>2, <3>3 DEF Delivered, SameQueue
    <3>5. ViewOf(r) = [status |-> l.status, replayed |-> l.replayed, heard |-> 0, retry |-> q]
      BY <1>6, <2>1, <3>3 DEF ViewOf, SameButWires
    <3> HIDE DEF q
    <3>6. ViewOf(r) = View!Heard(ViewOf(l))
      BY <2>3, <3>5, HeardView
    <3>7. ~(l.socket = s /\ seq > l.lastSeen)
      BY <2>1, <2>2, <2>5
    <3>8. r.url = l.url /\ r.rejected = l.rejected /\ r.replayed = l.replayed
      BY <2>1, <3>3
    <3>9. Shows(ViewOf(l), ViewOf(r))
      BY <2>4, <3>6 DEF Shows
    <3> QED
      BY <3>1, <3>3, <3>4, <3>7, <3>8, <3>9 DEF l
  <2>6. CASE ~(seq <= g.lastSeen)
    <3> DEFINE seen == HeardIn(g, 0, 0, seq)
               shown == IF said = Null THEN seen ELSE Send(seen, said)
               full == [shown EXCEPT !.replayed = TRUE, !.backoff = RECONNECT_MIN_MS]
    <3>1. link' = IF g.replayed THEN shown ELSE FlushPending(full)
      BY <1>3, <2>1, <2>6 DEF HandleMessage, HeardIn
    <3>2. /\ Sound(seen) /\ SameQueue(g, seen)
          /\ seen.url = g.url /\ seen.socket = g.socket /\ seen.status = g.status
          /\ seen.replayed = g.replayed /\ seen.heard = 0 /\ seen.retry = g.retry
          /\ seen.wires = g.wires /\ seen.rejected = g.rejected
      BY <2>g, <2>2, HeardSound
    <3> HIDE DEF seen
    <3>3. CASE l.replayed
      <4>1. said = Null
        BY <1>4, <3>3
      <4>2. link' = seen
        BY <2>1, <3>1, <3>3, <4>1
      <4>3. Delivered(l, seen)
        BY <1>3, <2>1, <3>2, <4>1 DEF Delivered, SameQueue
      <4>4. ViewOf(seen) = [status |-> l.status, replayed |-> l.replayed, heard |-> 0,
                            retry |-> q]
        BY <1>6, <2>1, <3>2 DEF ViewOf, SameButWires
      <4> HIDE DEF q
      <4>5. ViewOf(seen) = View!Heard(ViewOf(l))
        BY <2>3, <4>4, HeardView
      <4>6. Shows(ViewOf(l), ViewOf(seen))
        BY <2>4, <4>5 DEF Shows
      <4>7. /\ seen.url = l.url /\ seen.rejected = l.rejected
            /\ seen.replayed = l.replayed /\ l.replayed = TRUE
        <5>1. l.replayed \in BOOLEAN
          BY <1>1 DEF LinkStates
        <5> QED
          BY <2>1, <3>2, <3>3, <5>1
      <4> QED
        BY <3>2, <4>2, <4>3, <4>6, <4>7 DEF l
    <3>4. CASE ~l.replayed
      <4>1. /\ Sound(shown) /\ SameLink(seen, shown)
            /\ IF said = Null THEN SameQueue(l, shown) ELSE Queued(l, shown, said)
        <5>1. CASE said = Null
          BY <2>1, <3>2, <5>1 DEF SameLink, SameQueue
        <5>2. CASE said # Null
          <6>1. said = Issued("cars") /\ "cars" \in Kinds
            BY <1>4, <5>2 DEF Kinds
          <6>2. said \in Intents /\ said.kind = "cars" /\ said.room \in {Null, seen.url}
            BY <2>1, <3>2, <6>1, IssuedIntent DEF l
          <6>3. shown = Queue(seen, said)
            BY <2>1, <3>2, <3>4, <5>2, <6>2 DEF Send
          <6>4. Sound(shown) /\ SameLink(seen, shown) /\ Queued(seen, shown, said)
            BY <3>2, <6>2, <6>3, QueueSound
          <6>5. Queued(l, shown, said)
            BY <2>1, <3>2, <6>4 DEF Queued, SameQueue
          <6> QED
            BY <5>2, <6>4, <6>5
        <5> QED
          BY <5>1, <5>2
      <4> HIDE DEF shown
      <4>2. shown.socket = s /\ shown.wires[shown.socket].synced /\ shown.status = "open"
        <5>1. seq > 0
          BY <2>2, <2>6
        <5> QED
          BY <1>2, <1>6, <2>1, <3>2, <4>1, <5>1 DEF SameLink
      <4>3. link' = FlushPending(full)
        BY <2>1, <3>1, <3>4
      <4>4. /\ Sound(link') /\ Flushed(shown, link')
            /\ link'.url = shown.url /\ link'.status = shown.status
            /\ link'.heard = shown.heard /\ link'.retry = shown.retry
            /\ link'.replayed = TRUE /\ link'.rejected = shown.rejected
        BY <2>1, <4>1, <4>2, <4>3, ReplaySound
      <4>5. Delivered(l, link')
        <5>1. shown \in LinkStates
          BY <4>1 DEF Sound, Stable
        <5>2. CASE said = Null
          BY <1>3, <4>1, <4>4, <5>1, <5>2 DEF Delivered
        <5>3. CASE said # Null
          BY <1>3, <1>4, <4>1, <4>4, <5>1, <5>3 DEF Delivered
        <5> QED
          BY <5>2, <5>3
      <4>6. ViewOf(link') = [status |-> l.status, replayed |-> TRUE, heard |-> 0, retry |-> q]
        <5>1. link'.status = l.status /\ link'.heard = 0 /\ link'.retry = l.retry
          BY <1>6, <2>1, <3>2, <4>1, <4>4 DEF SameLink, SameButWires
        <5> QED
          BY <4>4, <5>1 DEF ViewOf
      <4> HIDE DEF q
      <4>7. ViewOf(link') = View!Replayed(ViewOf(l))
        BY <2>3, <4>6, ReplayedView
      <4>8. Shows(ViewOf(l), ViewOf(link'))
        BY <2>4, <4>7 DEF Shows
      <4>9. l.socket = s /\ seq > l.lastSeen
        BY <1>8, <2>1, <2>2, <2>6
      <4>10. link'.url = l.url /\ link'.rejected = l.rejected
        BY <2>1, <3>2, <4>1, <4>4 DEF SameLink
      <4> QED
        BY <4>4, <4>5, <4>8, <4>9, <4>10 DEF l
    <3> QED
      BY <3>3, <3>4
  <2> QED
    BY <2>5, <2>6
<1> QED
  BY <1>7, <1>8

--------------------------------------------------------------------------------
(* The other events, the clock and the calls.                                  *)

LEMMA DiesSound ==
  ASSUME Sound(link), NEW s \in Slots, Dies(s)
  PROVE  Sound(link') /\ Shows(ViewOf(link), ViewOf(link')) /\ Keeps(link, link')
<1> DEFINE l == link
           x == [l.wires[s] EXCEPT !.phase = "dead"]
           g == [l EXCEPT !.wires[s] = x]
<1>1. l \in LinkStates /\ l.wires[s] \in Wires /\ l.wires[s] # Null
  BY DEF Sound, Stable, LinkStates, Dies
<1>2. /\ x \in Wires /\ x.phase = "dead" /\ x.closed = l.wires[s].closed
      /\ x.url = l.wires[s].url /\ x.synced = l.wires[s].synced
  BY <1>1 DEF Wires
<1>3. link' = g
  BY DEF Dies
<1> HIDE DEF x
<1>4. Sound(g) /\ ViewOf(g) = ViewOf(l) /\ Keeps(l, g)
  BY <1>1, <1>2, WireSound
<1> QED
  BY <1>3, <1>4 DEF Shows

LEMMA ClosesSound ==
  ASSUME Sound(link), NEW s \in Slots, Closes(s)
  PROVE  Sound(link') /\ Shows(ViewOf(link), ViewOf(link')) /\ Keeps(link, link')
<1>1. PICK terminal \in {FALSE, link.wires[s].phase = "open"}, slot \in Slots :
        link' \in HandleClose(Gone(link, s), s, terminal, slot)
  BY DEF Closes, Free
<1>2. terminal \in BOOLEAN
  OBVIOUS
<1> QED
  BY <1>1, <1>2, CloseSound

\* The ping timer is set again, and the socket dropped if it was silent.
LEMMA PingTimerSound ==
  ASSUME Sound(link), PingTimer
  PROVE  Sound(link') /\ Shows(ViewOf(link), ViewOf(link')) /\ Keeps(link, link')
<1> DEFINE l == link
           t == [l.ping EXCEPT !.in = PING_INTERVAL_MS]
           p == [l EXCEPT !.ping = t]
           s == l.ping.socket
<1>1. l \in LinkStates /\ l.ping \in Timers(PING_INTERVAL_MS) /\ l.ping # Null
  BY DEF PingTimer, Sound, Stable, LinkStates
<1>2. t \in Timers(PING_INTERVAL_MS) /\ t.socket = l.ping.socket /\ s \in Slots /\ s # Null
  BY <1>1, ClientAssumption, NullAssumption DEF Timers
<1>3. link' \in SendPing(p, s)
  BY DEF PingTimer
<1>4. t # Null
  BY <1>2, NoTimerAssumption
<1>5. l.socket = s /\ l.status = "open"
  BY <1>1 DEF Sound, Watched, Stable, LinkStates
<1> HIDE DEF t
<1>6. p \in LinkStates
  BY <1>1, <1>2 DEF LinkStates
<1>7. /\ p.url = l.url /\ p.socket = l.socket /\ p.status = l.status
      /\ p.replayed = l.replayed /\ p.heard = l.heard /\ p.retry = l.retry
      /\ p.wires = l.wires /\ p.rejected = l.rejected /\ p.ping = t
      /\ p.connect = l.connect /\ SameQueue(l, p)
  BY <1>1 DEF LinkStates, SameQueue
<1> HIDE DEF p
<1>8. SameSession(l, p)
  BY <1>1, <1>2, <1>4, <1>7 DEF SameSession
<1>9. PendingOfRoom(p) /\ HandedToRoom(p)
  BY <1>7 DEF Sound, Stable, PendingOfRoom, HandedToRoom, SameQueue
<1>10. Sound(p)
  BY <1>6, <1>8, <1>9, SessionSound
<1>11. ViewOf(p) = ViewOf(l)
  BY <1>7 DEF ViewOf
<1>12. CASE link' = p
  <2>1. Keeps(l, p)
    BY <1>7 DEF Keeps, SameQueue
  <2>2. Shows(ViewOf(l), ViewOf(p))
    BY <1>11 DEF Shows
  <2> QED
    BY <1>10, <1>12, <2>1, <2>2
<1>13. CASE link' # p
  <2>1. link' \in DropDeadSocket(p, s)
    BY <1>3, <1>13 DEF SendPing
  <2>2. Stable(p) /\ p.socket = s /\ p.status # "closed"
    BY <1>5, <1>7, <1>10 DEF Sound
  <2>3. Sound(link') /\ Shows(ViewOf(p), ViewOf(link')) /\ Keeps(p, link')
    BY <1>2, <2>1, <2>2, DropSound
  <2>4. Keeps(l, link')
    BY <1>7, <2>3 DEF Keeps, SameQueue, NoQueue
  <2> QED
    BY <1>11, <2>3, <2>4
<1> QED
  BY <1>12, <1>13

LEMMA ConnectTimerSound ==
  ASSUME Sound(link), ConnectTimer
  PROVE  Sound(link') /\ Shows(ViewOf(link), ViewOf(link')) /\ Keeps(link, link')
<1> DEFINE l == link
           c == [l EXCEPT !.connect = Null]
           s == l.connect.socket
<1>1. l \in LinkStates /\ l.connect \in Timers(CONNECT_TIMEOUT_MS) /\ l.connect # Null
  BY DEF ConnectTimer, Sound, Stable, LinkStates
<1>2. s \in Slots /\ s # Null
  BY <1>1, NullAssumption DEF Timers
<1>3. link' \in DropDeadSocket(c, s)
  BY DEF ConnectTimer
<1>4. l.socket = s /\ l.status = "connecting"
  BY <1>1 DEF Sound, Watched, Stable, LinkStates
<1>5. c \in LinkStates
  BY <1>1 DEF LinkStates
<1>6. /\ c.url = l.url /\ c.socket = l.socket /\ c.status = l.status
      /\ c.replayed = l.replayed /\ c.heard = l.heard /\ c.retry = l.retry
      /\ c.wires = l.wires /\ c.rejected = l.rejected /\ SameQueue(l, c)
  BY <1>1 DEF LinkStates, SameQueue
<1> HIDE DEF c
<1>7. OneInUse(c) /\ InUse(c) /\ Stranded(c)
  BY <1>6 DEF Sound, Stable, OneInUse, InUse, Stranded
<1>8. PendingOfRoom(c) /\ HandedToRoom(c)
  BY <1>6 DEF Sound, Stable, PendingOfRoom, HandedToRoom, SameQueue
<1>9. Stable(c) /\ c.socket = s /\ c.status # "closed"
  BY <1>4, <1>5, <1>6, <1>7, <1>8 DEF Stable
<1>10. Sound(link') /\ Shows(ViewOf(c), ViewOf(link')) /\ Keeps(c, link')
  BY <1>2, <1>3, <1>9, DropSound
<1>11. ViewOf(c) = ViewOf(l)
  BY <1>6 DEF ViewOf
<1>12. Keeps(l, link')
  BY <1>6, <1>10 DEF Keeps, SameQueue, NoQueue
<1> QED
  BY <1>10, <1>11, <1>12

LEMMA RetryTimerSound ==
  ASSUME Sound(link), RetryTimer
  PROVE  Sound(link') /\ Shows(ViewOf(link), ViewOf(link')) /\ Keeps(link, link')
<1> DEFINE l == link
           r == [l EXCEPT !.retry = Null]
<1>1. l \in LinkStates /\ l.retry # Null /\ l.url \in Urls \union {Null}
  BY NullAssumption DEF RetryTimer, Sound, Stable, LinkStates
<1>2. l.url \in Urls /\ l.socket = Null
  BY <1>1 DEF Sound, Stable, Stranded
<1>3. PICK slot \in Slots : link' = OpenSocket(r, slot)
  BY DEF RetryTimer, Free
<1>4. r \in LinkStates
  BY <1>1 DEF LinkStates
<1>5. /\ r.url = l.url /\ r.socket = Null /\ r.retry = Null /\ r.wires = l.wires
      /\ SameQueue(l, r)
  BY <1>1, <1>2 DEF LinkStates, SameQueue
<1> HIDE DEF r
<1>6. \A s \in Slots : r.wires[s] # Null => r.wires[s].closed
  <2>1. OneInUse(l)
    BY DEF Sound, Stable
  <2> QED
    BY <1>2, <1>5, <2>1, NullAssumption DEF OneInUse
<1>7. PendingOfRoom(r) /\ HandedToRoom(r)
  BY <1>5 DEF Sound, Stable, PendingOfRoom, HandedToRoom, SameQueue
<1>8. Unplugged(r)
  BY <1>4, <1>5, <1>6, <1>7 DEF Unplugged
<1>9. /\ Sound(link') /\ \A v : ViewOf(link') = View!Connecting(v)
      /\ SameQueue(r, link') /\ link'.url = r.url /\ link'.replayed = FALSE
  BY <1>2, <1>3, <1>5, <1>7, <1>8, OpenSocketSound
<1>10. Keeps(l, link')
  BY <1>5, <1>9 DEF Keeps, SameQueue
<1> QED
  BY <1>9, <1>10 DEF Shows

LEMMA AgedView ==
  ASSUME NEW c, NEW r, NEW h, NEW q
  PROVE  View!Aged([status |-> c, replayed |-> r, heard |-> h, retry |-> q])
           = [status |-> c, replayed |-> r,
              heard |-> IF h = Null \/ h = QuietMax THEN h ELSE h + 1, retry |-> q]
BY DEF View!Aged

LEMMA TimerTick ==
  ASSUME NEW max \in Nat, NEW t \in Timers(max)
  PROVE  /\ Timer(Down(t.in), t.socket) \in Timers(max)
         /\ Timer(Down(t.in), t.socket).socket = t.socket
BY DEF Timers, Timer, Down

LEMMA TickSound ==
  ASSUME Sound(link), Tick
  PROVE  Sound(link') /\ Shows(ViewOf(link), ViewOf(link')) /\ Keeps(link, link')
<1> DEFINE l == link
           h == IF l.heard = Null THEN Null ELSE Older(l.heard)
           a == IF l.status = "open" /\ l.heard = Null THEN Older(l.openAge) ELSE l.openAge
           p == IF l.ping = Null THEN Null ELSE Timer(Down(l.ping.in), l.ping.socket)
           c == IF l.connect = Null THEN Null ELSE Timer(Down(l.connect.in), l.connect.socket)
           t == IF l.retry = Null THEN Null ELSE Down(l.retry)
           r == [l EXCEPT !.heard = h, !.openAge = a, !.ping = p, !.connect = c, !.retry = t]
<1>1. l \in LinkStates
  BY DEF Sound, Stable
<1>2. link' = r
  BY <1>1 DEF Tick, OneTickLater, LinkStates
<1>3. /\ l.heard \in Ages \union {Null} /\ l.openAge \in Ages
      /\ l.ping \in Timers(PING_INTERVAL_MS) \union {Null}
      /\ l.connect \in Timers(CONNECT_TIMEOUT_MS) \union {Null}
      /\ l.retry \in 0 .. RECONNECT_MAX_MS \union {Null}
  BY <1>1 DEF LinkStates
<1>4. h \in Ages \union {Null} /\ a \in Ages
  BY <1>3, AgesOK DEF Ages, Older
<1>5. /\ p \in Timers(PING_INTERVAL_MS) \union {Null} /\ (p = Null <=> l.ping = Null)
      /\ l.ping # Null => p.socket = l.ping.socket
  BY <1>3, TimerTick, ClientAssumption, NoTimerAssumption
<1>6. /\ c \in Timers(CONNECT_TIMEOUT_MS) \union {Null} /\ (c = Null <=> l.connect = Null)
      /\ l.connect # Null => c.socket = l.connect.socket
  BY <1>3, TimerTick, ClientAssumption, NoTimerAssumption
<1>7. t \in 0 .. RECONNECT_MAX_MS \union {Null} /\ (t = Null <=> l.retry = Null)
  BY <1>3, ClientAssumption, NullAssumption DEF Down
<1>8. h = IF l.heard = Null \/ l.heard = QuietMax THEN l.heard ELSE l.heard + 1
  BY DEF Older
<1> HIDE DEF h, a, p, c, t
<1>9. r \in LinkStates
  <2> DEFINE m == [l EXCEPT !.heard = h, !.openAge = a, !.ping = p]
  <2>1. m \in LinkStates
    BY <1>1, <1>4, <1>5 DEF LinkStates
  <2>2. r = [m EXCEPT !.connect = c, !.retry = t]
    BY <1>1 DEF LinkStates
  <2> HIDE DEF m, r
  <2>3. [m EXCEPT !.connect = c, !.retry = t] \in LinkStates
    BY <1>6, <1>7, <2>1 DEF LinkStates
  <2> QED
    BY <2>2, <2>3
<1>10. /\ r.url = l.url /\ r.socket = l.socket /\ r.status = l.status
       /\ r.replayed = l.replayed /\ r.heard = h /\ r.retry = t /\ r.wires = l.wires
       /\ r.rejected = l.rejected /\ r.ping = p /\ r.connect = c /\ SameQueue(l, r)
  BY <1>1 DEF LinkStates, SameQueue
<1> HIDE DEF r
<1>11. SameSession(l, r)
  BY <1>5, <1>6, <1>7, <1>10 DEF SameSession
<1>12. PendingOfRoom(r) /\ HandedToRoom(r)
  BY <1>10 DEF Sound, Stable, PendingOfRoom, HandedToRoom, SameQueue
<1>13. Sound(r)
  BY <1>9, <1>11, <1>12, SessionSound
<1>14. Keeps(l, r)
  BY <1>10 DEF Keeps, SameQueue
<1>15. ViewOf(r) = View!Aged(ViewOf(l))
  <2> DEFINE q == l.retry # Null
  <2>1. (r.retry # Null) = q
    BY <1>7, <1>10
  <2>2. ViewOf(l) = [status |-> l.status, replayed |-> l.replayed, heard |-> l.heard,
                     retry |-> q]
    BY DEF ViewOf
  <2>3. ViewOf(r) = [status |-> l.status, replayed |-> l.replayed, heard |-> h, retry |-> q]
    BY <1>10, <2>1 DEF ViewOf
  <2> HIDE DEF q
  <2> QED
    BY <1>8, <2>2, <2>3, AgedView
<1> QED
  BY <1>2, <1>13, <1>14, <1>15 DEF Shows

LEMMA CallConnectSound ==
  ASSUME Sound(link), CallConnect
  PROVE  Sound(link') /\ Shows(ViewOf(link), ViewOf(link')) /\ Keeps(link, link')
<1>1. PICK url \in Urls, slot \in Slots : link' = Connect(link, url, slot)
  BY DEF CallConnect, Free
<1>2. /\ Sound(link') /\ (link' = link \/ \A v : ViewOf(link') = View!Connecting(v))
      /\ link'.replayed => link' = link
      /\ link'.url = url
      /\ SameQueue(link, link') \/ (NoQueue(link, link') /\ link.url # url)
  BY <1>1, ConnectSound
<1>3. Shows(ViewOf(link), ViewOf(link'))
  BY <1>2 DEF Shows
<1>4. Keeps(link, link')
  BY <1>2 DEF Keeps, SameQueue, NoQueue
<1> QED
  BY <1>2, <1>3, <1>4

LEMMA CallDisconnectSound ==
  ASSUME Sound(link), CallDisconnect
  PROVE  Sound(link') /\ Shows(ViewOf(link), ViewOf(link')) /\ Keeps(link, link')
<1>1. link \in LinkStates /\ OneInUse(link) /\ HandedToRoom(link)
      /\ (link.socket # Null => link.wires[link.socket] # Null)
  BY DEF Sound, Stable, InUse
<1>2. /\ Sound(link') /\ ViewOf(link') = View!NoSession
      /\ NoQueue(link, link') /\ link'.url = Null /\ link'.replayed = FALSE
  BY <1>1, DisconnectSound DEF CallDisconnect
<1> QED
  BY <1>2 DEF Shows, Keeps, NoQueue

\* What a call does to what is pending: an ack goes now or never, the others go
\* now or wait.
Spoken(l, r) ==
  \E intent \in {Issued(kind) : kind \in Kinds} :
    /\ calls' = calls + 1 /\ calls < MaxCalls
    /\ r.replayed = l.replayed
    /\ \/ SameQueue(l, r)
       \/ ~l.replayed /\ intent.kind # "ack" /\ Queued(l, r, intent)
       \/ /\ l.replayed /\ SentAll(l, r, <<intent>>)
          /\ r.lane = l.lane /\ r.cars = l.cars /\ r.messages = l.messages

LEMMA CallSendSound ==
  ASSUME Sound(link), calls \in Nat, CallSend
  PROVE  /\ Sound(link') /\ Shows(ViewOf(link), ViewOf(link')) /\ Spoken(link, link')
         /\ SameLink(link, link')
<1> DEFINE l == link
<1>1. PICK kind \in Kinds : link' = Send(l, Issued(kind))
  BY DEF CallSend
<1> DEFINE i == Issued(kind)
<1>2. i \in Intents /\ i.kind = kind /\ i.room \in {Null, l.url}
  BY IssuedIntent
<1>3. calls' = calls + 1 /\ calls < MaxCalls
  BY DEF CallSend, Call
<1>4. i \in {Issued(k) : k \in Kinds}
  OBVIOUS
<1> HIDE DEF i, l
<1>5. Sound(l)
  BY DEF l
<1>6. CASE l.socket # Null /\ l.replayed
  <2>1. link' = Transmit(l, <<i>>)
    BY <1>1, <1>6 DEF Send, i
  <2>2. <<i>> \in Seq(Intents) /\ \A e \in Elements(<<i>>) : e.room \in {Null, l.url}
    BY <1>2, ElementsOfOne
  <2>3. /\ Sound(link') /\ SameLink(l, link')
        /\ link'.lane = l.lane /\ link'.cars = l.cars /\ link'.messages = l.messages
        /\ SentAll(l, link', <<i>>)
    BY <1>5, <1>6, <2>1, <2>2, TransmitSound
  <2>4. ViewOf(link') = ViewOf(l)
    BY <2>3 DEF ViewOf, SameLink
  <2>5. Spoken(l, link')
    BY <1>3, <1>4, <1>6, <2>3 DEF Spoken, SameLink
  <2> QED
    BY <2>3, <2>4, <2>5 DEF Shows, l
<1>7. CASE ~(l.socket # Null /\ l.replayed)
  <2>1. ~l.replayed
    BY <1>5, <1>7 DEF Sound, Stable, Watched, LinkStates
  <2>2. CASE i.kind = "ack"
    <3>1. link' = l
      BY <1>1, <1>7, <2>2 DEF Send, i
    <3>2. Spoken(l, link') /\ SameLink(l, link')
      BY <1>3, <1>4, <3>1 DEF Spoken, SameQueue, SameLink
    <3> QED
      BY <1>5, <3>1, <3>2 DEF Shows, l
  <2>3. CASE i.kind # "ack"
    <3>1. link' = Queue(l, i)
      BY <1>1, <1>7, <2>3 DEF Send, i
    <3>2. Sound(link') /\ SameLink(l, link') /\ Queued(l, link', i)
      BY <1>2, <1>5, <3>1, QueueSound
    <3>3. ViewOf(link') = ViewOf(l)
      BY <3>2 DEF ViewOf, SameLink
    <3>4. Spoken(l, link')
      BY <1>3, <1>4, <2>1, <2>3, <3>2 DEF Spoken, SameLink
    <3> QED
      BY <3>2, <3>3, <3>4 DEF Shows, l
  <2> QED
    BY <2>2, <2>3
<1> QED
  BY <1>6, <1>7

--------------------------------------------------------------------------------
(* Every step.                                                                 *)

LEMMA InitClient ==
  Init => ClientInv /\ ViewOf(link) = View!NoSession
<1> SUFFICES ASSUME Init
             PROVE  ClientInv /\ ViewOf(link) = View!NoSession
  OBVIOUS
<1> DEFINE w == [s \in Slots |-> Null]
<1>1. /\ link = [url |-> Null, socket |-> Null, status |-> "closed", replayed |-> FALSE,
                 lastSeen |-> 0, heard |-> Null, openAge |-> 0,
                 ping |-> Null, connect |-> Null, retry |-> Null,
                 backoff |-> RECONNECT_MIN_MS,
                 lane |-> Null, cars |-> Null, messages |-> <<>>,
                 wires |-> w, rejected |-> FALSE, handed |-> <<>>]
      /\ calls = 0 /\ faults = 0
  BY DEF Init
<1>2. /\ w \in [Slots -> Wires \union {Null}] /\ <<>> \in Seq(Intents) /\ <<>> \in Seq(Handed)
      /\ 0 \in 0 .. MaxSeq /\ RECONNECT_MIN_MS \in RECONNECT_MIN_MS .. RECONNECT_MAX_MS
      /\ 0 \in 0 .. MaxCalls /\ 0 \in 0 .. MaxFaults
  BY ClientAssumption
<1>3. \A s \in Slots : w[s] = Null
  OBVIOUS
<1> HIDE DEF w
<1>4. link \in LinkStates
  BY <1>1, <1>2, AgesOK DEF LinkStates
<1>5. OneInUse(link) /\ InUse(link) /\ Stranded(link) /\ Watched(link)
  BY <1>1, <1>3 DEF OneInUse, InUse, Stranded, Watched
<1>6. PendingOfRoom(link) /\ HandedToRoom(link)
  BY <1>1 DEF PendingOfRoom, HandedToRoom
<1>7. ViewOf(link) = View!NoSession
  BY <1>1 DEF ViewOf, View!NoSession
<1> QED
  BY <1>1, <1>2, <1>4, <1>5, <1>6, <1>7 DEF ClientInv, Sound, Stable

\* What is pending moves in one of three ways.
QueueStep(l, r) ==
  \/ Keeps(l, r) /\ calls' \in {calls, calls + 1}
  \/ Delivered(l, r) /\ r.url = l.url /\ r.rejected = l.rejected
  \/ Spoken(l, r) /\ SameLink(l, r)

LEMMA EveryStep ==
  ASSUME ClientInv, [Next]_vars
  PROVE  /\ ClientInv' /\ Shows(ViewOf(link), ViewOf(link')) /\ QueueStep(link, link')
<1> DEFINE Good == /\ Sound(link') /\ Shows(ViewOf(link), ViewOf(link'))
                   /\ QueueStep(link, link')
           Counted == calls' \in 0 .. MaxCalls /\ faults' \in 0 .. MaxFaults
<1> SUFFICES Good /\ Counted
  BY DEF ClientInv
<1>0. Sound(link)
  BY DEF ClientInv
<1>1. /\ calls \in 0 .. MaxCalls /\ faults \in 0 .. MaxFaults
      /\ calls \in Nat /\ faults \in Nat /\ MaxCalls \in Nat /\ MaxFaults \in Nat
  BY ClientAssumption DEF ClientInv
<1>2. ASSUME NEW s \in Slots, Opens(s)
      PROVE  Good /\ Counted
  <2>1. calls' = calls /\ faults' = faults
    BY <1>2 DEF Opens
  <2>2. Counted
    BY <1>1, <2>1
  <2>3. Good
    BY <1>0, <1>2, <2>1, OpensSound DEF QueueStep
  <2> QED
    BY <2>2, <2>3
<1>3. ASSUME NEW s \in Slots, NEW seq \in 0 .. MaxSeq, Delivers(s, seq)
      PROVE  Good /\ Counted
  <2>1. Good
    BY <1>0, <1>1, <1>3, DeliversSound DEF QueueStep
  <2>2. faults' = faults
    BY <1>3 DEF Delivers
  <2>3. Delivered(link, link')
    BY <1>0, <1>1, <1>3, DeliversSound
  <2>4. calls' = calls \/ (calls < MaxCalls /\ calls' = calls + 1)
    BY <2>3 DEF Delivered
  <2>5. Counted
    BY <1>1, <2>2, <2>4
  <2> QED
    BY <2>1, <2>5
<1>4. ASSUME NEW s \in Slots, Closes(s)
      PROVE  Good /\ Counted
  <2>1. calls' = calls /\ faults' \in 0 .. MaxFaults
    BY <1>1, <1>4 DEF Closes, Fault
  <2>2. Counted
    BY <1>1, <2>1
  <2>3. Good
    BY <1>0, <1>4, <2>1, ClosesSound DEF QueueStep
  <2> QED
    BY <2>2, <2>3
<1>5. ASSUME NEW s \in Slots, Dies(s)
      PROVE  Good /\ Counted
  <2>1. calls' = calls /\ faults' \in 0 .. MaxFaults
    BY <1>1, <1>5 DEF Dies, Fault
  <2>2. Counted
    BY <1>1, <2>1
  <2>3. Good
    BY <1>0, <1>5, <2>1, DiesSound DEF QueueStep
  <2> QED
    BY <2>2, <2>3
<1>6. CASE PingTimer
  <2>1. calls' = calls /\ faults' = faults
    BY <1>6 DEF PingTimer
  <2>2. Counted
    BY <1>1, <2>1
  <2>3. Good
    BY <1>0, <1>6, <2>1, PingTimerSound DEF QueueStep
  <2> QED
    BY <2>2, <2>3
<1>7. CASE ConnectTimer
  <2>1. calls' = calls /\ faults' = faults
    BY <1>7 DEF ConnectTimer
  <2>2. Counted
    BY <1>1, <2>1
  <2>3. Good
    BY <1>0, <1>7, <2>1, ConnectTimerSound DEF QueueStep
  <2> QED
    BY <2>2, <2>3
<1>8. CASE RetryTimer
  <2>1. calls' = calls /\ faults' = faults
    BY <1>8 DEF RetryTimer
  <2>2. Counted
    BY <1>1, <2>1
  <2>3. Good
    BY <1>0, <1>8, <2>1, RetryTimerSound DEF QueueStep
  <2> QED
    BY <2>2, <2>3
<1>9. CASE Tick
  <2>1. calls' = calls /\ faults' = faults
    BY <1>9 DEF Tick
  <2>2. Counted
    BY <1>1, <2>1
  <2>3. Good
    BY <1>0, <1>9, <2>1, TickSound DEF QueueStep
  <2> QED
    BY <2>2, <2>3
<1>10. CASE CallConnect
  <2>1. calls' = calls + 1 /\ calls < MaxCalls /\ faults' = faults
    BY <1>10 DEF CallConnect, Call
  <2>2. Counted
    BY <1>1, <2>1
  <2>3. Good
    BY <1>0, <1>10, <2>1, CallConnectSound DEF QueueStep
  <2> QED
    BY <2>2, <2>3
<1>11. CASE CallDisconnect
  <2>1. calls' = calls + 1 /\ calls < MaxCalls /\ faults' = faults
    BY <1>11 DEF CallDisconnect, Call
  <2>2. Counted
    BY <1>1, <2>1
  <2>3. Good
    BY <1>0, <1>11, <2>1, CallDisconnectSound DEF QueueStep
  <2> QED
    BY <2>2, <2>3
<1>12. CASE CallSend
  <2>1. calls' = calls + 1 /\ calls < MaxCalls /\ faults' = faults
    BY <1>12 DEF CallSend, Call
  <2>2. Counted
    BY <1>1, <2>1
  <2>3. Good
    BY <1>0, <1>1, <1>12, CallSendSound DEF QueueStep
  <2> QED
    BY <2>2, <2>3
<1>13. CASE UNCHANGED vars
  <2>1. link' = link /\ calls' = calls /\ faults' = faults
    BY <1>13 DEF vars
  <2>2. Keeps(link, link') /\ Shows(ViewOf(link), ViewOf(link')) /\ Sound(link')
    BY <1>0, <2>1 DEF Keeps, SameQueue, Shows
  <2>3. Counted
    BY <1>1, <2>1
  <2>4. Good
    BY <2>1, <2>2 DEF QueueStep
  <2> QED
    BY <2>3, <2>4
<1> HIDE DEF Good, Counted
<1> QED
  BY <1>2, <1>3, <1>4, <1>5, <1>6, <1>7, <1>8, <1>9, <1>10, <1>11, <1>12, <1>13 DEF Next

\* Every reachable state of the client satisfies the inductive invariant.
THEOREM ClientInvHolds == Spec => []ClientInv
<1>1. ClientInv /\ [Next]_vars => ClientInv'
  BY EveryStep
<1>2. Init => ClientInv
  BY InitClient
<1> QED
  BY <1>2, <1>1, PTL DEF Spec

--------------------------------------------------------------------------------
(* The properties.                                                             *)

\* Whatever the network, the timers and the app do, the client keeps to the
\* frames, timers and ages its code can hold.
THEOREM ClientTypeCorrect == Spec => []TypeOK
<1>1. ClientInv => TypeOK
  BY DEF ClientInv, Sound, Stable, TypeOK
<1> QED
  BY <1>1, ClientInvHolds, PTL

\* However connects, closes, watchdogs and retries interleave, no socket but the
\* current one is left in use.
THEOREM OnlyOneSocket == Spec => []OneSocketInUse
<1>1. ClientInv => OneSocketInUse
  BY DEF ClientInv, Sound, Stable, OneInUse, OneSocketInUse
<1> QED
  BY <1>1, ClientInvHolds, PTL

\* A bound client always has a socket, a retry, or was turned away for good.
THEOREM AlwaysAWayBack == Spec => []NeverStranded
<1>1. ClientInv => NeverStranded
  BY DEF ClientInv, Sound, Stable, Stranded, NeverStranded
<1> QED
  BY <1>1, ClientInvHolds, PTL

\* The watchdogs that run are those of the current socket.
THEOREM AlwaysWatched == Spec => []WatchedSocket
<1>1. ClientInv => WatchedSocket
  BY DEF ClientInv, Sound, Watched, WatchedSocket
<1> QED
  BY <1>1, ClientInvHolds, PTL

\* Nothing issued for one room is sent to another, or before the replay.
THEOREM NothingCrossesRooms == Spec => []IntentsStayInTheirRoom
<1>1. ASSUME ClientInv
      PROVE  IntentsStayInTheirRoom
  <2>1. link.handed \in Seq(Handed) /\ HandedToRoom(link)
    BY <1>1 DEF ClientInv, Sound, Stable, LinkStates
  <2>2. Elements(link.handed) = {link.handed[i] : i \in 1 .. Len(link.handed)}
    BY <2>1, ElementsOf
  <2> QED
    BY <2>1, <2>2 DEF HandedToRoom, IntentsStayInTheirRoom
<1> QED
  BY <1>1, ClientInvHolds, PTL

\* All an app is told of the client is what ClientView allows: the client
\* implements it.
THEOREM ClientImplementsView == Spec => ShowsView
<1>1. Init => View!ViewInit
  BY InitClient DEF View!ViewInit, ViewOf
<1>2. ClientInv /\ [Next]_vars =>
        [View!ViewNext]_[status |-> link.status, replayed |-> link.replayed,
                         heard |-> link.heard, retry |-> link.retry # Null]
  BY EveryStep DEF Shows, ViewOf, View!ViewNext, View!Ends
<1> QED
  BY <1>1, <1>2, ClientInvHolds, PTL DEF Spec, ShowsView, View!ViewSpec

--------------------------------------------------------------------------------
(* What the app issues is sent in the order it was issued, and no intent is    *)
(* lost on the way: the inductive invariant.                                   *)

\* Intents of a kind are in the order they were issued.
InIssueOrder(q) ==
  \A i \in 1 .. Len(q), j \in 1 .. Len(q) :
    i < j /\ q[i].kind = q[j].kind => q[i].id < q[j].id

SentSeq(l) == [i \in DOMAIN l.handed |-> l.handed[i].intent]

\* What is pending is of its place's kind, and was issued after all of its kind
\* that was sent.
InOrder(l, n) ==
  /\ InIssueOrder(SentSeq(l))
  /\ InIssueOrder(l.messages)
  /\ l.lane # Null => l.lane.kind = "lane"
  /\ l.cars # Null => l.cars.kind = "cars"
  /\ \A e \in Elements(l.messages) : e.kind = "msg"
  /\ \A e \in Elements(Pending(l)) :
       /\ e.id <= n
       /\ \A h \in Elements(SentSeq(l)) : h.kind = e.kind => h.id < e.id
  /\ \A h \in Elements(SentSeq(l)) : h.id <= n

NonePending(l) == Elements(Pending(l)) = {}

OrderInv ==
  /\ ClientInv
  /\ InOrder(link, calls)
  /\ link.replayed => NonePending(link)

--------------------------------------------------------------------------------
(* Sequences of intents.                                                       *)

LEMMA IntentFields ==
  ASSUME NEW e \in Intents
  PROVE  e.kind \in Kinds /\ e.id \in Nat
BY DEF Intents

LEMMA OrderOfNone == InIssueOrder(<<>>)
BY DEF InIssueOrder

LEMMA OrderOfOne ==
  ASSUME NEW e \in Intents
  PROVE  InIssueOrder(<<e>>)
BY DEF InIssueOrder

LEMMA OrderOfConcat ==
  ASSUME NEW a \in Seq(Intents), NEW b \in Seq(Intents),
         InIssueOrder(a), InIssueOrder(b),
         \A x \in Elements(a), y \in Elements(b) : x.kind = y.kind => x.id < y.id
  PROVE  InIssueOrder(a \o b)
<1> DEFINE c == a \o b
<1>1. /\ c \in Seq(Intents) /\ Len(c) = Len(a) + Len(b)
      /\ \A i \in 1 .. Len(a) + Len(b) :
           c[i] = IF i <= Len(a) THEN a[i] ELSE b[i - Len(a)]
  BY ConcatProperties
<1>2. Len(a) \in Nat /\ Len(b) \in Nat
  BY LenProperties
<1>3. /\ Elements(a) = {a[i] : i \in 1 .. Len(a)}
      /\ Elements(b) = {b[i] : i \in 1 .. Len(b)}
  BY ElementsOf
<1> HIDE DEF c
<1> SUFFICES ASSUME NEW i \in 1 .. Len(c), NEW j \in 1 .. Len(c),
                    i < j, c[i].kind = c[j].kind
             PROVE  c[i].id < c[j].id
  BY DEF InIssueOrder, c
<1>4. CASE j <= Len(a)
  <2>1. i \in 1 .. Len(a) /\ j \in 1 .. Len(a) /\ c[i] = a[i] /\ c[j] = a[j]
    BY <1>1, <1>2, <1>4
  <2> QED
    BY <2>1 DEF InIssueOrder
<1>5. CASE ~(i <= Len(a))
  <2>1. /\ i - Len(a) \in 1 .. Len(b) /\ j - Len(a) \in 1 .. Len(b)
        /\ i - Len(a) < j - Len(a)
        /\ c[i] = b[i - Len(a)] /\ c[j] = b[j - Len(a)]
    BY <1>1, <1>2, <1>5
  <2> QED
    BY <2>1 DEF InIssueOrder
<1>6. CASE i <= Len(a) /\ ~(j <= Len(a))
  <2>1. i \in 1 .. Len(a) /\ j - Len(a) \in 1 .. Len(b) /\ c[i] = a[i] /\ c[j] = b[j - Len(a)]
    BY <1>1, <1>2, <1>6
  <2>2. c[i] \in Elements(a) /\ c[j] \in Elements(b)
    BY <1>3, <2>1
  <2> QED
    BY <2>2
<1> QED
  BY <1>1, <1>2, <1>4, <1>5, <1>6

LEMMA SentSeqType ==
  ASSUME NEW l \in LinkStates
  PROVE  /\ SentSeq(l) \in Seq(Intents) /\ Len(SentSeq(l)) = Len(l.handed)
         /\ \A i \in 1 .. Len(l.handed) : SentSeq(l)[i] = l.handed[i].intent
<1> DEFINE n == Len(l.handed)
           s == SentSeq(l)
<1>1. l.handed \in Seq(Handed)
  BY DEF LinkStates
<1>2. DOMAIN l.handed = 1 .. n /\ n \in Nat
  BY <1>1, LenProperties
<1>3. \A i \in 1 .. n : l.handed[i].intent \in Intents
  <2>1. \A i \in 1 .. n : l.handed[i] \in Handed
    BY <1>1, ElementOfSeq
  <2> QED
    BY <2>1 DEF Handed
<1>4. s = [i \in 1 .. n |-> l.handed[i].intent]
  BY <1>2 DEF SentSeq
<1> HIDE DEF n, s
<1>5. s \in [1 .. n -> Intents]
  BY <1>3, <1>4
<1>6. s \in Seq(Intents) /\ Len(s) = n
  BY <1>2, <1>5
<1> QED
  BY <1>4, <1>6 DEF n, s

\* What is written is added to what was sent.
LEMMA SentSeqGrows ==
  ASSUME NEW l \in LinkStates, NEW r \in LinkStates, NEW intents \in Seq(Intents),
         SentAll(l, r, intents)
  PROVE  SentSeq(r) = SentSeq(l) \o intents
<1> DEFINE a == SentSeq(l)
           b == SentSeq(r)
           h == l.handed
<1>1. /\ a \in Seq(Intents) /\ Len(a) = Len(h)
      /\ \A i \in 1 .. Len(h) : a[i] = h[i].intent
  BY SentSeqType
<1>2. /\ b \in Seq(Intents) /\ Len(b) = Len(r.handed)
      /\ \A i \in 1 .. Len(r.handed) : b[i] = r.handed[i].intent
  BY SentSeqType
<1>3. PICK w \in Seq(Handed) :
        /\ r.handed = h \o w /\ Len(w) = Len(intents)
        /\ \A i \in 1 .. Len(intents) : w[i].intent = intents[i]
  BY DEF SentAll
<1>4. h \in Seq(Handed)
  BY DEF LinkStates
<1> HIDE DEF a, b, h
<1>5. /\ Len(h \o w) = Len(h) + Len(w)
      /\ \A i \in 1 .. Len(h) + Len(w) :
           (h \o w)[i] = IF i <= Len(h) THEN h[i] ELSE w[i - Len(h)]
  BY <1>4, ConcatProperties
<1>6. /\ a \o intents \in Seq(Intents) /\ Len(a \o intents) = Len(a) + Len(intents)
      /\ \A i \in 1 .. Len(a) + Len(intents) :
           (a \o intents)[i] = IF i <= Len(a) THEN a[i] ELSE intents[i - Len(a)]
  BY <1>1, ConcatProperties
<1>7. Len(h) \in Nat /\ Len(intents) \in Nat
  BY <1>4, LenProperties
<1>8. Len(b) = Len(a \o intents)
  BY <1>1, <1>2, <1>3, <1>5, <1>6
<1>9. ASSUME NEW i \in 1 .. Len(b)
      PROVE  b[i] = (a \o intents)[i]
  <2>1. i \in 1 .. Len(h) + Len(intents)
    BY <1>1, <1>6, <1>8
  <2>2. b[i] = (h \o w)[i].intent
    BY <1>2, <1>3
  <2>3. CASE i <= Len(h)
    <3>1. (h \o w)[i] = h[i] /\ (a \o intents)[i] = a[i] /\ i \in 1 .. Len(h)
      BY <1>1, <1>3, <1>5, <1>6, <1>7, <2>1, <2>3
    <3> QED
      BY <1>1, <2>2, <3>1
  <2>4. CASE ~(i <= Len(h))
    <3>1. /\ (h \o w)[i] = w[i - Len(h)] /\ (a \o intents)[i] = intents[i - Len(h)]
          /\ i - Len(h) \in 1 .. Len(intents)
      BY <1>1, <1>3, <1>5, <1>6, <1>7, <2>1, <2>4
    <3> QED
      BY <1>3, <2>2, <3>1
  <2> QED
    BY <2>3, <2>4
<1>10. b = a \o intents
  BY <1>2, <1>6, <1>8, <1>9, SeqEqual
<1> QED
  BY <1>10 DEF a, b

\* The three places of what is pending hold different kinds.
LEMMA PendingInOrder ==
  ASSUME NEW l \in LinkStates, NEW n, InOrder(l, n)
  PROVE  InIssueOrder(Pending(l))
<1> DEFINE a == Optional(l.lane)
           b == Optional(l.cars)
           m == l.messages
           ab == a \o b
<1>1. l.lane \in Intents \union {Null} /\ l.cars \in Intents \union {Null} /\ m \in Seq(Intents)
  BY DEF LinkStates
<1>2. /\ a \in Seq(Intents) /\ Elements(a) = {l.lane} \ {Null}
      /\ b \in Seq(Intents) /\ Elements(b) = {l.cars} \ {Null}
  BY <1>1, OptionalElements
<1>3. InIssueOrder(a) /\ InIssueOrder(b)
  BY <1>1, OrderOfNone, OrderOfOne DEF Optional
<1>4. Pending(l) = ab \o m
  BY PendingElements
<1> HIDE DEF a, b
<1>5. \A x \in Elements(a), y \in Elements(b) : x.kind = y.kind => x.id < y.id
  BY <1>2 DEF InOrder
<1>6. ab \in Seq(Intents) /\ Elements(ab) = Elements(a) \union Elements(b)
  BY <1>2, ElementsOfConcat
<1>7. InIssueOrder(ab)
  BY <1>2, <1>3, <1>5, OrderOfConcat
<1> HIDE DEF ab, m
<1>8. \A x \in Elements(ab), y \in Elements(m) : x.kind = y.kind => x.id < y.id
  BY <1>2, <1>6 DEF InOrder, m
<1>9. InIssueOrder(m)
  BY DEF InOrder, m
<1>10. InIssueOrder(ab \o m)
  BY <1>1, <1>6, <1>7, <1>8, <1>9, OrderOfConcat
<1> QED
  BY <1>4, <1>10

--------------------------------------------------------------------------------
(* What the steps do to the order.                                             *)

LEMMA SameQueueSame ==
  ASSUME NEW l, NEW r, SameQueue(l, r)
  PROVE  Pending(r) = Pending(l) /\ SentSeq(r) = SentSeq(l) /\ r.messages = l.messages
         /\ r.lane = l.lane /\ r.cars = l.cars
BY DEF SameQueue, Pending, SentSeq

LEMMA SameQueueInOrder ==
  ASSUME NEW l, NEW r, SameQueue(l, r), NEW n, InOrder(l, n)
  PROVE  InOrder(r, n)
BY SameQueueSame DEF InOrder

\* What was issued by the n-th call was issued by a later one too.
LEMMA InOrderLater ==
  ASSUME NEW l \in LinkStates, NEW n \in Nat, InOrder(l, n)
  PROVE  InOrder(l, n + 1)
<1>1. \A e \in Elements(Pending(l)) : e.id \in Nat
  <2>1. Pending(l) \in Seq(Intents)
    BY PendingElements
  <2>2. Elements(Pending(l)) \subseteq Intents
    BY <2>1, ElementsOf
  <2> QED
    BY <2>2, IntentFields
<1>2. \A h \in Elements(SentSeq(l)) : h.id \in Nat
  <2>1. SentSeq(l) \in Seq(Intents)
    BY SentSeqType
  <2>2. Elements(SentSeq(l)) \subseteq Intents
    BY <2>1, ElementsOf
  <2> QED
    BY <2>2, IntentFields
<1>3. \A e \in Elements(Pending(l)) : e.id <= n + 1
  BY <1>1 DEF InOrder
<1>4. \A h \in Elements(SentSeq(l)) : h.id <= n + 1
  BY <1>2 DEF InOrder
<1> QED
  BY <1>3, <1>4 DEF InOrder

LEMMA NoQueueInOrder ==
  ASSUME NEW l \in LinkStates, NEW r \in LinkStates, NoQueue(l, r), NEW n, InOrder(l, n)
  PROVE  InOrder(r, n) /\ NonePending(r)
<1>1. r.lane = Null /\ r.cars = Null /\ r.messages = <<>> /\ SentSeq(r) = SentSeq(l)
  BY DEF NoQueue, SentSeq
<1>2. Elements(r.messages) = {}
  BY <1>1, ElementsOfNone
<1>3. Elements(Pending(r)) = {}
  BY <1>1, <1>2, PendingElements
<1>4. InIssueOrder(r.messages)
  BY <1>1, OrderOfNone
<1> QED
  BY <1>1, <1>2, <1>3, <1>4 DEF InOrder, NonePending

\* A new intent takes its place behind those of its kind.
LEMMA QueuedInOrder ==
  ASSUME NEW l \in LinkStates, NEW z \in LinkStates, NEW n \in Nat, InOrder(l, n),
         NEW i \in Intents, i.id = n + 1, i.kind # "ack", Queued(l, z, i)
  PROVE  /\ InOrder(z, n + 1)
         /\ \A p \in Elements(Pending(l)) : \E q \in Elements(Pending(z)) :
              \/ q = p
              \/ p.kind \in {"lane", "cars"} /\ q.kind = p.kind /\ q.id > p.id
<1>1. /\ Pending(l) \in Seq(Intents) /\ l.messages \in Seq(Intents)
      /\ Elements(Pending(l)) = ({l.lane, l.cars} \ {Null}) \union Elements(l.messages)
      /\ Elements(Pending(z)) = ({z.lane, z.cars} \ {Null}) \union Elements(z.messages)
  BY PendingElements DEF LinkStates
<1>2. SentSeq(z) = SentSeq(l)
  BY DEF Queued, SentSeq
<1>3. /\ \A e \in Elements(Pending(l)) : e \in Intents /\ e.id \in Nat
      /\ \A h \in Elements(SentSeq(l)) : h \in Intents /\ h.id \in Nat
  <2>1. SentSeq(l) \in Seq(Intents)
    BY SentSeqType
  <2>2. Elements(SentSeq(l)) \subseteq Intents /\ Elements(Pending(l)) \subseteq Intents
    BY <1>1, <2>1, ElementsOf
  <2> QED
    BY <2>2, IntentFields
<1>4. i.kind \in {"lane", "cars", "msg"} /\ i # Null
  BY NoSocketAssumption DEF Intents, Kinds
<1>5. InOrder(l, n + 1)
  BY InOrderLater
<1>6. \A h \in Elements(SentSeq(l)) : h.id < i.id
  BY <1>3 DEF InOrder
<1>7. /\ InIssueOrder(z.messages)
      /\ Elements(z.messages) = Elements(l.messages) \union
                                  (IF i.kind = "msg" THEN {i} ELSE {})
  <2>1. CASE i.kind # "msg"
    <3>1. z.messages = l.messages
      BY <1>4, <2>1 DEF Queued
    <3> QED
      BY <2>1, <3>1 DEF InOrder
  <2>2. CASE i.kind = "msg"
    <3> DEFINE m == l.messages
               o == <<i>>
    <3>1. z.messages = m \o o
      BY <1>1, <2>2 DEF Queued
    <3>2. o \in Seq(Intents) /\ Elements(o) = {i} /\ InIssueOrder(o)
      BY ElementsOfOne, OrderOfOne
    <3>3. m \in Seq(Intents) /\ InIssueOrder(m)
      BY <1>1 DEF InOrder
    <3>4. \A x \in Elements(m) : x.id < i.id
      BY <1>1, <1>3 DEF InOrder
    <3> HIDE DEF m, o
    <3>5. InIssueOrder(m \o o)
      BY <3>2, <3>3, <3>4, OrderOfConcat
    <3>6. Elements(m \o o) = Elements(m) \union Elements(o)
      BY <3>2, <3>3, ElementsOfConcat
    <3> QED
      BY <2>2, <3>1, <3>2, <3>5, <3>6 DEF m
  <2> QED
    BY <2>1, <2>2
<1>8. /\ z.lane # Null => z.lane.kind = "lane"
      /\ z.cars # Null => z.cars.kind = "cars"
      /\ \A e \in Elements(z.messages) : e.kind = "msg"
  BY <1>7 DEF Queued, InOrder
<1>9. Elements(Pending(z)) \subseteq Elements(Pending(l)) \union {i}
  BY <1>1, <1>7 DEF Queued
<1>10. \A e \in Elements(Pending(z)) :
         /\ e.id <= n + 1
         /\ \A h \in Elements(SentSeq(z)) : h.kind = e.kind => h.id < e.id
  <2> SUFFICES ASSUME NEW e \in Elements(Pending(z))
               PROVE  /\ e.id <= n + 1
                      /\ \A h \in Elements(SentSeq(z)) : h.kind = e.kind => h.id < e.id
    OBVIOUS
  <2>1. CASE e = i
    BY <1>2, <1>6, <2>1
  <2>2. CASE e # i
    <3>1. e \in Elements(Pending(l))
      BY <1>9, <2>2
    <3> QED
      BY <1>2, <1>5, <3>1 DEF InOrder
  <2> QED
    BY <2>1, <2>2
<1>11. InOrder(z, n + 1)
  BY <1>2, <1>5, <1>7, <1>8, <1>10 DEF InOrder
<1>12. ASSUME NEW p \in Elements(Pending(l))
       PROVE  \E q \in Elements(Pending(z)) :
                \/ q = p
                \/ p.kind \in {"lane", "cars"} /\ q.kind = p.kind /\ q.id > p.id
  <2>1. i.id > p.id
    BY <1>3 DEF InOrder
  <2>2. CASE i.kind = "lane" /\ p = l.lane
    <3>1. i \in Elements(Pending(z)) /\ p.kind = "lane"
      BY <1>1, <1>4, <2>2, <1>3, NoSocketAssumption DEF Queued, InOrder
    <3> QED
      BY <2>1, <2>2, <3>1
  <2>3. CASE i.kind = "cars" /\ p = l.cars
    <3>1. i \in Elements(Pending(z)) /\ p.kind = "cars"
      BY <1>1, <1>4, <2>3, <1>3, NoSocketAssumption DEF Queued, InOrder
    <3> QED
      BY <2>1, <2>3, <3>1
  <2>4. CASE ~(i.kind = "lane" /\ p = l.lane) /\ ~(i.kind = "cars" /\ p = l.cars)
    <3>1. p \in Elements(Pending(z))
      BY <1>1, <1>7, <2>4 DEF Queued
    <3> QED
      BY <3>1
  <2> QED
    BY <2>2, <2>3, <2>4
<1> QED
  BY <1>11, <1>12

\* What is sent directly, when nothing waits, or flushed, comes after what was sent.
LEMMA SentInOrder ==
  ASSUME NEW l \in LinkStates, NEW r \in LinkStates, NEW n, NEW intents \in Seq(Intents),
         SentAll(l, r, intents), InIssueOrder(intents), InIssueOrder(SentSeq(l)),
         \A e \in Elements(intents) :
           /\ e.id <= n
           /\ \A h \in Elements(SentSeq(l)) : h.kind = e.kind => h.id < e.id,
         \A h \in Elements(SentSeq(l)) : h.id <= n,
         r.lane = Null, r.cars = Null, r.messages = <<>>
  PROVE  /\ InOrder(r, n) /\ NonePending(r)
         /\ Elements(SentSeq(r)) = Elements(SentSeq(l)) \union Elements(intents)
<1> DEFINE s == SentSeq(l)
           t == SentSeq(r)
<1>1. s \in Seq(Intents)
  BY SentSeqType
<1>2. t = s \o intents
  BY SentSeqGrows
<1>3. \A x \in Elements(s), y \in Elements(intents) : x.kind = y.kind => x.id < y.id
  OBVIOUS
<1>4. InIssueOrder(s)
  OBVIOUS
<1> HIDE DEF s, t
<1>5. InIssueOrder(t)
  BY <1>1, <1>2, <1>3, <1>4, OrderOfConcat
<1>6. Elements(t) = Elements(s) \union Elements(intents)
  BY <1>1, <1>2, ElementsOfConcat
<1>7. Elements(r.messages) = {} /\ InIssueOrder(r.messages)
  BY ElementsOfNone, OrderOfNone
<1>8. Elements(Pending(r)) = {}
  BY <1>7, PendingElements
<1>9. \A h \in Elements(t) : h.id <= n
  BY <1>6 DEF s
<1> QED
  BY <1>5, <1>6, <1>7, <1>8, <1>9 DEF InOrder, NonePending, s, t

LEMMA NonePendingFields ==
  ASSUME NEW l \in LinkStates, NonePending(l)
  PROVE  l.lane = Null /\ l.cars = Null /\ l.messages = <<>>
<1>1. l.messages \in Seq(Intents)
  BY DEF LinkStates
<1>2. ({l.lane, l.cars} \ {Null}) \union Elements(l.messages) = {}
  BY PendingElements DEF NonePending
<1>3. Elements(l.messages) = {l.messages[i] : i \in 1 .. Len(l.messages)}
  BY <1>1, ElementsOf
<1>4. l.messages = <<>>
  <2>1. CASE l.messages # <<>>
    <3>1. Len(l.messages) \in Nat \ {0}
      BY <1>1, <2>1, EmptySeq
    <3>2. 1 \in 1 .. Len(l.messages)
      BY <3>1
    <3> QED
      BY <1>2, <1>3, <3>2
  <2> QED
    BY <2>1
<1> QED
  BY <1>2, <1>4

\* A pending intent that a step neither keeps, sends nor replaces was given up.
Accounted(l, r) ==
  \A p \in Elements(Pending(l)) :
    \/ \E q \in Elements(Pending(r)) \union Elements(SentSeq(r)) :
         \/ q = p
         \/ p.kind \in {"lane", "cars"} /\ q.kind = p.kind /\ q.id > p.id
    \/ r.url # l.url \/ r.url = Null
    \/ r.rejected /\ ~l.rejected

LEMMA FlushedInOrder ==
  ASSUME NEW z \in LinkStates, NEW r \in LinkStates, Flushed(z, r), NEW n, InOrder(z, n)
  PROVE  /\ InOrder(r, n) /\ NonePending(r)
         /\ Elements(Pending(z)) \subseteq Elements(SentSeq(r))
<1>1. Pending(z) \in Seq(Intents)
  BY PendingElements
<1>2. InIssueOrder(Pending(z))
  BY PendingInOrder
<1>3. /\ SentAll(z, r, Pending(z)) /\ r.lane = Null /\ r.cars = Null /\ r.messages = <<>>
  BY DEF Flushed
<1>4. /\ InIssueOrder(SentSeq(z))
      /\ \A e \in Elements(Pending(z)) :
           /\ e.id <= n
           /\ \A h \in Elements(SentSeq(z)) : h.kind = e.kind => h.id < e.id
      /\ \A h \in Elements(SentSeq(z)) : h.id <= n
  BY DEF InOrder
<1>5. /\ InOrder(r, n) /\ NonePending(r)
      /\ Elements(SentSeq(r)) = Elements(SentSeq(z)) \union Elements(Pending(z))
  BY <1>1, <1>2, <1>3, <1>4, SentInOrder
<1> QED
  BY <1>5

LEMMA KeepsInOrder ==
  ASSUME OrderInv, ClientInv', Keeps(link, link'), calls' \in {calls, calls + 1}
  PROVE  /\ InOrder(link', calls') /\ (link'.replayed => NonePending(link'))
         /\ Accounted(link, link')
<1> DEFINE l == link
           r == link'
<1>1. /\ l \in LinkStates /\ r \in LinkStates /\ calls \in Nat /\ InOrder(l, calls)
      /\ (l.replayed => NonePending(l))
  BY ClientAssumption DEF OrderInv, ClientInv, Sound, Stable
<1> HIDE DEF l, r
<1>2. InOrder(l, calls')
  BY <1>1, InOrderLater
<1>3. CASE SameQueue(l, r)
  <2>1. Pending(r) = Pending(l) /\ InOrder(r, calls')
    BY <1>2, <1>3, SameQueueSame, SameQueueInOrder
  <2>2. r.replayed => NonePending(r)
    BY <1>1, <2>1 DEF Keeps, NonePending, l, r
  <2>3. Accounted(l, r)
    BY <2>1 DEF Accounted
  <2> QED
    BY <2>1, <2>2, <2>3 DEF l, r
<1>4. CASE ~SameQueue(l, r)
  <2>1. NoQueue(l, r) /\ (r.url # l.url \/ r.url = Null \/ (r.rejected /\ ~l.rejected))
    BY <1>4 DEF Keeps, l, r
  <2>2. InOrder(r, calls') /\ NonePending(r)
    BY <1>1, <1>2, <2>1, NoQueueInOrder
  <2>3. Accounted(l, r)
    BY <2>1 DEF Accounted
  <2> QED
    BY <2>2, <2>3 DEF l, r
<1> QED
  BY <1>3, <1>4

LEMMA DeliveredInOrder ==
  ASSUME OrderInv, ClientInv', Delivered(link, link')
  PROVE  /\ InOrder(link', calls') /\ (link'.replayed => NonePending(link'))
         /\ Accounted(link, link')
<1> DEFINE l == link
           r == link'
<1>1. /\ l \in LinkStates /\ r \in LinkStates /\ calls \in Nat /\ InOrder(l, calls)
      /\ (l.replayed => NonePending(l)) /\ Sound(l)
  BY ClientAssumption DEF OrderInv, ClientInv, Sound, Stable
<1>2. Delivered(l, r)
  OBVIOUS
<1> DEFINE i == Issued("cars")
<1>3. i \in Intents /\ i.kind = "cars" /\ i.id = calls + 1
  BY <1>1, IssuedIntent DEF Kinds
<1> HIDE DEF l, r, i
<1>4. CASE SameQueue(l, r) /\ r.replayed = l.replayed /\ calls' = calls
  <2>1. Pending(r) = Pending(l) /\ InOrder(r, calls')
    BY <1>1, <1>4, SameQueueSame, SameQueueInOrder
  <2>2. r.replayed => NonePending(r)
    BY <1>1, <1>4, <2>1 DEF NonePending
  <2>3. Accounted(l, r)
    BY <2>1 DEF Accounted
  <2> QED
    BY <2>1, <2>2, <2>3 DEF l, r
<1>5. ASSUME NEW z \in LinkStates, Flushed(z, r), SameQueue(l, z), calls' = calls
      PROVE  InOrder(r, calls') /\ NonePending(r) /\ Accounted(l, r)
  <2>1. InOrder(z, calls') /\ Pending(z) = Pending(l)
    BY <1>1, <1>5, SameQueueSame, SameQueueInOrder
  <2>2. /\ InOrder(r, calls') /\ NonePending(r)
        /\ Elements(Pending(z)) \subseteq Elements(SentSeq(r))
    BY <1>1, <1>5, <2>1, FlushedInOrder
  <2>3. Accounted(l, r)
    BY <2>1, <2>2 DEF Accounted
  <2> QED
    BY <2>2, <2>3
<1>6. ASSUME NEW z \in LinkStates, Flushed(z, r), Queued(l, z, i), calls' = calls + 1
      PROVE  InOrder(r, calls') /\ NonePending(r) /\ Accounted(l, r)
  <2>1. /\ InOrder(z, calls')
        /\ \A p \in Elements(Pending(l)) : \E q \in Elements(Pending(z)) :
             \/ q = p
             \/ p.kind \in {"lane", "cars"} /\ q.kind = p.kind /\ q.id > p.id
    BY <1>1, <1>3, <1>6, QueuedInOrder
  <2>2. /\ InOrder(r, calls') /\ NonePending(r)
        /\ Elements(Pending(z)) \subseteq Elements(SentSeq(r))
    BY <1>1, <1>6, <2>1, FlushedInOrder
  <2>3. Accounted(l, r)
    BY <2>1, <2>2 DEF Accounted
  <2> QED
    BY <2>2, <2>3
<1>7. CASE ~(SameQueue(l, r) /\ r.replayed = l.replayed /\ calls' = calls)
  <2>1. PICK z \in LinkStates :
          /\ Flushed(z, r)
          /\ \/ SameQueue(l, z) /\ calls' = calls
             \/ Queued(l, z, i) /\ calls < MaxCalls /\ calls' = calls + 1
    BY <1>2, <1>7 DEF Delivered, i
  <2> QED
    BY <1>5, <1>6, <2>1 DEF l, r
<1> QED
  BY <1>4, <1>7

LEMMA SpokenInOrder ==
  ASSUME OrderInv, ClientInv', Spoken(link, link'), SameLink(link, link')
  PROVE  /\ InOrder(link', calls') /\ (link'.replayed => NonePending(link'))
         /\ Accounted(link, link')
<1> DEFINE l == link
           r == link'
<1>1. /\ l \in LinkStates /\ r \in LinkStates /\ calls \in Nat /\ InOrder(l, calls)
      /\ (l.replayed => NonePending(l)) /\ Sound(l)
  BY ClientAssumption DEF OrderInv, ClientInv, Sound, Stable
<1>2. PICK kind \in Kinds :
        /\ calls' = calls + 1 /\ r.replayed = l.replayed
        /\ \/ SameQueue(l, r)
           \/ ~l.replayed /\ Issued(kind).kind # "ack" /\ Queued(l, r, Issued(kind))
           \/ /\ l.replayed /\ SentAll(l, r, <<Issued(kind)>>)
              /\ r.lane = l.lane /\ r.cars = l.cars /\ r.messages = l.messages
  BY DEF Spoken
<1> DEFINE i == Issued(kind)
<1>3. i \in Intents /\ i.id = calls + 1
  BY <1>1, IssuedIntent
<1> HIDE DEF l, r, i
<1>4. InOrder(l, calls')
  BY <1>1, <1>2, InOrderLater
<1>5. CASE SameQueue(l, r)
  <2>1. Pending(r) = Pending(l) /\ InOrder(r, calls')
    BY <1>4, <1>5, SameQueueSame, SameQueueInOrder
  <2>2. r.replayed => NonePending(r)
    BY <1>1, <1>2, <2>1 DEF NonePending
  <2>3. Accounted(l, r)
    BY <2>1 DEF Accounted
  <2> QED
    BY <2>1, <2>2, <2>3 DEF l, r
<1>6. CASE ~l.replayed /\ i.kind # "ack" /\ Queued(l, r, i)
  <2>1. /\ InOrder(r, calls')
        /\ \A p \in Elements(Pending(l)) : \E q \in Elements(Pending(r)) :
             \/ q = p
             \/ p.kind \in {"lane", "cars"} /\ q.kind = p.kind /\ q.id > p.id
    BY <1>1, <1>2, <1>3, <1>6, QueuedInOrder
  <2>2. Accounted(l, r)
    BY <2>1 DEF Accounted
  <2> QED
    BY <1>2, <1>6, <2>1, <2>2 DEF l, r
<1>7. CASE /\ l.replayed /\ SentAll(l, r, <<i>>)
           /\ r.lane = l.lane /\ r.cars = l.cars /\ r.messages = l.messages
  <2>1. NonePending(l)
    BY <1>1, <1>7
  <2>2. r.lane = Null /\ r.cars = Null /\ r.messages = <<>>
    BY <1>1, <1>7, <2>1, NonePendingFields
  <2>3. <<i>> \in Seq(Intents) /\ Elements(<<i>>) = {i} /\ InIssueOrder(<<i>>)
    BY <1>3, ElementsOfOne, OrderOfOne
  <2>4. \A h \in Elements(SentSeq(l)) : h.id < i.id /\ h.id <= calls'
    <3>1. SentSeq(l) \in Seq(Intents)
      BY <1>1, SentSeqType
    <3>2. Elements(SentSeq(l)) \subseteq Intents
      BY <3>1, ElementsOf
    <3>3. \A h \in Elements(SentSeq(l)) : h.id \in Nat
      BY <3>2, IntentFields
    <3> QED
      BY <1>1, <1>2, <1>3, <3>3 DEF InOrder
  <2>5. i.id <= calls'
    BY <1>1, <1>2, <1>3
  <2>6. InIssueOrder(SentSeq(l))
    BY <1>1 DEF InOrder
  <2> DEFINE o == <<i>>
  <2> HIDE DEF o
  <2>7. o \in Seq(Intents) /\ Elements(o) = {i} /\ InIssueOrder(o) /\ SentAll(l, r, o)
    BY <1>7, <2>3 DEF o
  <2>8. InOrder(r, calls') /\ NonePending(r)
    BY <1>1, <2>2, <2>4, <2>5, <2>6, <2>7, SentInOrder
  <2>9. Accounted(l, r)
    BY <2>1 DEF Accounted, NonePending
  <2> QED
    BY <2>8, <2>9 DEF l, r
<1> QED
  BY <1>2, <1>5, <1>6, <1>7 DEF i

LEMMA OrderStep ==
  ASSUME OrderInv, [Next]_vars
  PROVE  OrderInv' /\ Accounted(link, link')
<1>1. ClientInv
  BY DEF OrderInv
<1>2. ClientInv' /\ QueueStep(link, link')
  BY <1>1, EveryStep
<1>3. /\ InOrder(link', calls') /\ (link'.replayed => NonePending(link'))
      /\ Accounted(link, link')
  BY <1>2, KeepsInOrder, DeliveredInOrder, SpokenInOrder DEF QueueStep
<1> QED
  BY <1>2, <1>3 DEF OrderInv

LEMMA OrderInit ==
  ASSUME Init
  PROVE  OrderInv
<1>1. ClientInv
  BY InitClient
<1>2. link \in LinkStates
  BY <1>1 DEF ClientInv, Sound, Stable
<1>3. link.lane = Null /\ link.cars = Null /\ link.messages = <<>> /\ link.handed = <<>>
  BY DEF Init
<1>4. SentSeq(link) = <<>>
  <2>1. SentSeq(link) \in Seq(Intents) /\ Len(SentSeq(link)) = 0
    BY <1>2, <1>3, SentSeqType
  <2> QED
    BY <2>1, EmptySeq
<1>5. Elements(SentSeq(link)) = {} /\ Elements(link.messages) = {}
  BY <1>3, <1>4, ElementsOfNone
<1>6. Elements(Pending(link)) = {}
  BY <1>2, <1>3, <1>5, PendingElements
<1>7. InIssueOrder(SentSeq(link)) /\ InIssueOrder(link.messages)
  BY <1>3, <1>4, OrderOfNone
<1> QED
  BY <1>1, <1>3, <1>5, <1>6, <1>7 DEF OrderInv, InOrder, NonePending

\* Every reachable state of the client keeps what is pending in order.
THEOREM OrderInvHolds == Spec => []OrderInv
<1>1. OrderInv /\ [Next]_vars => OrderInv'
  BY OrderStep
<1> QED
  BY OrderInit, <1>1, PTL DEF Spec

--------------------------------------------------------------------------------
(* The properties.                                                             *)

\* Intents of a kind reach the relay in the order they were issued, and each of
\* them once, whether they waited for a replay or went straight to a socket.
THEOREM SentInIssueOrder == Spec => []IntentsInOrder
<1>1. ASSUME OrderInv
      PROVE  IntentsInOrder
  <2> DEFINE s == SentSeq(link)
             p == Pending(link)
             all == s \o p
  <2>1. link \in LinkStates /\ InOrder(link, calls)
    BY <1>1 DEF OrderInv, ClientInv, Sound, Stable
  <2>2. s \in Seq(Intents) /\ p \in Seq(Intents)
    BY <2>1, SentSeqType, PendingElements
  <2>3. InIssueOrder(s) /\ InIssueOrder(p)
    BY <2>1, PendingInOrder DEF InOrder
  <2>4. \A x \in Elements(s), y \in Elements(p) : x.kind = y.kind => x.id < y.id
    BY <2>1 DEF InOrder
  <2>5. IntentsInOrder <=>
          \A i \in DOMAIN all, j \in DOMAIN all :
            i < j /\ all[i].kind = all[j].kind => all[i].id < all[j].id
    BY DEF IntentsInOrder, SentSeq
  <2> HIDE DEF s, p
  <2>6. InIssueOrder(all)
    BY <2>2, <2>3, <2>4, OrderOfConcat
  <2>7. DOMAIN all = 1 .. Len(all)
    <3>1. all \in Seq(Intents)
      BY <2>2, ConcatProperties
    <3> HIDE DEF all
    <3> QED
      BY <3>1, LenProperties
  <2> HIDE DEF all
  <2> QED
    BY <2>5, <2>6, <2>7 DEF InIssueOrder
<1> QED
  BY <1>1, OrderInvHolds, PTL

\* No close, drop, reconnect or new state loses an intent that waits to be sent.
THEOREM NoIntentIsEverLost == Spec => NoIntentIsLost
<1>1. ASSUME OrderInv, [Next]_vars
      PROVE  \A p \in Elements(Pending(link)) :
               \/ \E q \in Elements(Pending(link') \o [i \in DOMAIN link'.handed |->
                                                         link'.handed[i].intent]) :
                    \/ q = p
                    \/ p.kind \in {"lane", "cars"} /\ q.kind = p.kind /\ q.id > p.id
               \/ link'.url # link.url \/ link'.url = Null
               \/ link'.rejected /\ ~link.rejected
  <2> DEFINE a == Pending(link')
             b == SentSeq(link')
  <2>1. OrderInv' /\ Accounted(link, link')
    BY <1>1, OrderStep
  <2>2. link' \in LinkStates
    BY <2>1 DEF OrderInv, ClientInv, Sound, Stable
  <2>3. a \in Seq(Intents) /\ b \in Seq(Intents)
    BY <2>2, PendingElements, SentSeqType
  <2> HIDE DEF a, b
  <2>4. Elements(a \o b) = Elements(a) \union Elements(b)
    BY <2>3, ElementsOfConcat
  <2> QED
    BY <2>1, <2>4 DEF Accounted, SentSeq, a, b
<1> QED
  BY <1>1, OrderInvHolds, PTL DEF Spec, NoIntentIsLost
================================================================================

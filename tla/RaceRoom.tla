-------------------------------- MODULE RaceRoom --------------------------------
(* The relay's RaceRoom Durable Object (services/relay/src/race-room.ts and   *)
(* alarm.ts): the sockets of one room, its stored state, PIN and alarm, and   *)
(* the in-memory copy of the state.  A Durable Object delivers one event at a *)
(* time and holds the next one back while a handler awaits its storage, so a  *)
(* handler is one step - unless the process dies between two of its writes,   *)
(* which is the Crash action.                                                 *)
(*                                                                            *)
(* Time is a bounded clock.  It passes an armed alarm by at most AlarmLatency *)
(* (the platform's delay), otherwise it is free to run or to stand still.     *)
EXTENDS RoomState

CONSTANTS Sockets,         \* socket slots, reused when a connection is gone
          Pins,            \* well-formed PINs
          BadPin,          \* a token that is not four digits
          Urls,            \* role and token of the URLs that are opened
          CarReports,      \* the car reports a spotter sends, in half levels
          PEER_OFFLINE_MS, ALARM_TICK_MS, HUD_STALE_CLEAR_MS, ROOM_TTL_MS,
          AlarmLatency,    \* how late the platform may fire an alarm
          Faults,          \* which of "hibernate", "restart", "crash" happen
          LegacyRooms,     \* updatedAt of rooms left in storage by a v1 relay
          Epoch,           \* Date.now() at the start: far past 0 + ROOM_TTL_MS
          MaxTime,         \* bound of the clock
          MaxSeq           \* bound of seq

ASSUME TimingAssumption ==
  /\ PEER_OFFLINE_MS \in Nat
  /\ ALARM_TICK_MS \in Nat
  /\ HUD_STALE_CLEAR_MS \in Nat
  /\ ROOM_TTL_MS \in Nat
  /\ AlarmLatency \in Nat
  /\ ALARM_TICK_MS <= HUD_STALE_CLEAR_MS
  /\ HUD_STALE_CLEAR_MS <= ROOM_TTL_MS
  /\ Epoch \in Nat /\ ROOM_TTL_MS <= Epoch

ASSUME InputAssumption ==
  /\ Null \notin Nat
  /\ Null \notin RoomStates
  /\ CarReports \subseteq [Sides -> Int]
  /\ LegacyRooms \subseteq 0 .. Epoch
  /\ MaxTime \in Nat
  /\ MaxSeq \in Nat

VARIABLES
  now,      \* Date.now()
  sockets,  \* the attachment of each accepted socket, Null for a free slot
  cache,    \* this.state: the state in memory, Null when not loaded
  stored,   \* the storage key "state"
  pin,      \* the storage key "pin"
  alarm,    \* the storage alarm, Null when none is armed
  nextId,   \* supply of message ids
  frames,   \* the last state frame sent on each open socket, Null before it
  movedAt   \* history: while a joined socket is in the room, the last join or
            \* departure; in an empty room, when it was left

vars == <<now, sockets, cache, stored, pin, alarm, nextId, frames, movedAt>>

Tokens == Pins \union {Null, BadPin}

\* Close codes 4400, 4401, 4408, 4409 and 4426.
CloseCodes == {"bad_hello", "auth", "silent_peer", "driver_evicted", "version"}

Url == [role : Roles \union {Null}, token : Tokens]

\* closed is the attachment's rejected flag, with the code given to close().
Attachments ==
  [role : Roles \union {Null}, token : Tokens, lastPing : Nat,
   ready : BOOLEAN, closed : CloseCodes \union {"no"}]

ASSUME UrlAssumption == Urls \subseteq Url /\ Null \notin Attachments

\* What the "pin" key holds.  No key at all means a fresh room.
NoPin == [set |-> FALSE, value |-> Null]
StoredPins == {NoPin} \union [set : {TRUE}, value : Pins \union {Null}]

\* What the "state" key holds: nothing, a state, or a v1 state, of which only
\* updatedAt is ever used.
NoState == [kind |-> "none"]
V1(updatedAt) == [kind |-> "v1", updatedAt |-> updatedAt]
V2(state)     == [kind |-> "v2", state |-> state]

StoredStates == {NoState} \union [kind : {"v1"}, updatedAt : Nat]
                          \union [kind : {"v2"}, state : RoomStates]

--------------------------------------------------------------------------------
(* The room and its sockets, as the handlers look at them.                    *)

\* Seeded fault: the clock of a v1 room is not kept.
LoadWithoutClock(s) == IF s.kind = "v2" THEN s.state ELSE InitialState

\* Seeded fault: a v1 room is taken to have its spotter still.
LoadWithPresence(s) ==
  CASE s.kind = "v2" -> s.state
    [] s.kind = "v1" -> [InitialState EXCEPT !.updatedAt = s.updatedAt,
                                             !.online["spotter"] = TRUE]
    [] OTHER         -> InitialState

\* loadState: a v1 state is not replayed, but its clock is kept.
Load(s) ==
  CASE s.kind = "v2" -> s.state
    [] s.kind = "v1" -> [InitialState EXCEPT !.updatedAt = s.updatedAt]
    [] OTHER         -> InitialState

\* Seeded fault: an object that wakes up does not read its storage.
RoomInMemory == IF cache # Null THEN cache ELSE InitialState

\* The state a handler works on.
Room == IF cache # Null THEN cache ELSE Load(stored)

\* Sockets the relay has not rejected, evicted or reaped.
Open(socks) == {s \in Sockets : socks[s] # Null /\ socks[s].closed = "no"}

\* The joined ones among them.
Live(socks) == {s \in Open(socks) : socks[s].ready}

HasReadyPeer(socks, role) == \E s \in Live(socks) : socks[s].role = role

\* Seeded fault: a flag is only ever raised.
RaisePeers(state, socks) ==
  ReducePeer(
    ReducePeer(state, "spotter",
               HasReadyPeer(socks, "spotter") \/ state.online["spotter"], now),
    "driver", HasReadyPeer(socks, "driver") \/ state.online["driver"], now)

\* The presence flags follow the joined sockets.
ReconcilePeers(state, socks) ==
  ReducePeer(
    ReducePeer(state, "spotter", HasReadyPeer(socks, "spotter"), now),
    "driver", HasReadyPeer(socks, "driver"), now)

--------------------------------------------------------------------------------
(* alarm.ts                                                                   *)

Sooner(a, b) == IF a < b THEN a ELSE b

\* Seeded fault: any change restarts the stale window.
StaleClearAfterUpdate(state) == state.updatedAt + HUD_STALE_CLEAR_MS

StaleClearAt(state) == state.calledAt + HUD_STALE_CLEAR_MS

StaleClearDue(state) == ~HudEmpty(state) /\ now >= StaleClearAt(state)

\* The tick while sockets are open, the TTL in an empty room, or the stale
\* clear when that comes first.
NextAlarmAt(occupied, state) ==
  LET base == IF occupied THEN now + ALARM_TICK_MS ELSE state.updatedAt + ROOM_TTL_MS
  IN  IF HudEmpty(state) THEN base ELSE Sooner(base, StaleClearAt(state))

\* A data frame only ever pulls the alarm earlier.
EarlierAlarmAt(current, state) ==
  IF ~HudEmpty(state) /\ (current = Null \/ StaleClearAt(state) < current)
  THEN StaleClearAt(state)
  ELSE current

--------------------------------------------------------------------------------
(* What the handlers share.                                                   *)

\* persistAndBroadcast: nothing is written or sent when nothing changed.
Written(next) == IF next = Room THEN stored ELSE V2(next)

\* Seeded fault: the new state is not put in storage.
PersistInMemory(next) ==
  /\ next.seq <= MaxSeq
  /\ cache' = next
  /\ stored' = stored

Persist(next) ==
  /\ next.seq <= MaxSeq
  /\ cache' = next
  /\ stored' = Written(next)

\* What each socket has been sent once the change reached the joined ones.
Broadcast(next, socks) ==
  [s \in Sockets |->
     IF s \notin Open(socks) THEN Null
     ELSE IF next # Room /\ s \in Live(socks) THEN next ELSE frames[s]]

\* scheduleAlarm
ScheduleAlarm(state, socks) == alarm' = NextAlarmAt(Open(socks) # {}, state)

Close(s, code) == [sockets EXCEPT ![s].closed = code]

\* The room as it was emptied by the step, if it was.
Vacated(socks) ==
  movedAt' = IF Live(sockets) # {} /\ Live(socks) = {} THEN now ELSE movedAt

--------------------------------------------------------------------------------
(* A socket is accepted, says hello, and leaves.                              *)

\* fetch: the URL fixes role and token; nothing is armed or read yet.
Accept(s) ==
  /\ sockets[s] = Null
  /\ \E url \in Urls :
       sockets' = [sockets EXCEPT ![s] =
         [role |-> url.role, token |-> url.token, lastPing |-> now,
          ready |-> FALSE, closed |-> "no"]]
  /\ UNCHANGED <<now, cache, stored, pin, alarm, nextId, frames, movedAt>>

\* Seeded fault: the stored PIN is not compared.
PinMalformed(token) == token = BadPin

PinRefused(token) ==
  \/ token = BadPin
  \/ pin.set /\ pin.value # Null /\ pin.value # token

\* A first frame that is no hello, speaks another version, contradicts the URL
\* or brings a wrong PIN: error frame and close, with nothing else touched.
RefuseHello(s) ==
  /\ s \in Open(sockets) \ Live(sockets)
  /\ \/ sockets' = Close(s, "bad_hello")
     \/ sockets' = Close(s, "version")
     \/ /\ sockets[s].role # Null
        /\ PinRefused(sockets[s].token)
        /\ sockets' = Close(s, "auth")
  /\ UNCHANGED <<now, cache, stored, pin, alarm, nextId, frames, movedAt>>

\* Seeded fault: the previous driver stays.
JoinedBesideDriver(s) ==
  [sockets EXCEPT ![s].ready = TRUE, ![s].lastPing = now]

\* A driver that joins evicts every joined driver.
Joined(s) ==
  [r \in Sockets |->
     IF r = s THEN [sockets[s] EXCEPT !.ready = TRUE, !.lastPing = now]
     ELSE IF sockets[s].role = "driver" /\ r \in Live(sockets) /\ sockets[r].role = "driver"
          THEN [sockets[r] EXCEPT !.closed = "driver_evicted"]
          ELSE sockets[r]]

\* The first joiner's token becomes the room's PIN, its absence an open room.
PinAfter(s) == IF pin.set THEN pin ELSE [set |-> TRUE, value |-> sockets[s].token]

MayJoin(s) ==
  /\ s \in Open(sockets) \ Live(sockets)
  /\ sockets[s].role # Null
  /\ ~PinRefused(sockets[s].token)

\* The presence change goes to the others; the joiner gets the replay.
Join(s) ==
  /\ MayJoin(s)
  /\ LET socks == Joined(s)
         next  == ReconcilePeers(Room, socks)
     IN  /\ sockets' = socks
         /\ Persist(next)
         /\ frames' = [Broadcast(next, socks) EXCEPT ![s] = next]
         /\ ScheduleAlarm(next, socks)
  /\ pin' = PinAfter(s)
  /\ movedAt' = now
  /\ UNCHANGED <<now, nextId>>

\* webSocketClose and webSocketError.  A rejected socket leaves no trace.
Without(s) == [sockets EXCEPT ![s] = Null]

LeaveRejected(s) ==
  /\ sockets[s] # Null /\ sockets[s].closed # "no"
  /\ sockets' = Without(s)
  /\ UNCHANGED <<now, cache, stored, pin, alarm, nextId, frames, movedAt>>

Leave(s) ==
  /\ s \in Open(sockets)
  /\ LET socks == Without(s)
         next  == IF s \in Live(sockets) THEN ReconcilePeers(Room, socks) ELSE Room
     IN  /\ sockets' = socks
         /\ Persist(next)
         /\ frames' = Broadcast(next, socks)
         /\ ScheduleAlarm(next, socks)
  /\ movedAt' = IF Live(sockets) # {} THEN now ELSE movedAt
  /\ UNCHANGED <<now, pin, nextId>>

--------------------------------------------------------------------------------
(* Frames of joined sockets.  Malformed, unknown and wrong-role frames are    *)
(* answered or counted and change nothing, so they are no step here.          *)

Ping(s) ==
  /\ s \in Live(sockets)
  /\ sockets' = [sockets EXCEPT ![s].lastPing = now]
  /\ UNCHANGED <<now, cache, stored, pin, alarm, nextId, frames, movedAt>>

SpotterOutcomes ==
       {ReduceLane(Room, lane, now) : lane \in Lanes \union {Null}}
  \union {ReduceCars(Room, report, now) : report \in CarReports}
  \union {ReduceMessage(Room, nextId, now), ReduceClear(Room, now)}
  \union {ReducePresetAdd(Room, text, now) : text \in Texts}
  \union {ReducePresetRemove(Room, text, now) : text \in Texts}

DriverOutcomes == {ReduceAck(Room, msgId, now) : msgId \in 0 .. nextId}

\* The states a frame of this socket can lead to.
Outcomes(s) == IF sockets[s].role = "spotter" THEN SpotterOutcomes ELSE DriverOutcomes

\* crypto.randomUUID() never repeats an id.
IdsAfter(next) == IF next.msg # Null /\ next.msg.id = nextId THEN nextId + 1 ELSE nextId

Frame(s) ==
  /\ s \in Live(sockets)
  /\ \E next \in Outcomes(s) :
       /\ Persist(next)
       /\ frames' = Broadcast(next, sockets)
       /\ alarm' = IF next = Room THEN alarm ELSE EarlierAlarmAt(alarm, next)
       /\ nextId' = IdsAfter(next)
  /\ UNCHANGED <<now, sockets, pin, movedAt>>

--------------------------------------------------------------------------------
(* The alarm.                                                                 *)

AlarmDue == alarm # Null /\ now >= alarm

\* Seeded fault: only sockets that never said hello are reaped.
SilentBeforeHello ==
  {s \in Open(sockets) \ Live(sockets) : now - sockets[s].lastPing > PEER_OFFLINE_MS}

Silent == {s \in Open(sockets) : now - sockets[s].lastPing > PEER_OFFLINE_MS}

\* reapSilentPeers: presence is broadcast before the sockets are closed.
Reaped ==
  [s \in Sockets |->
     IF s \in Silent THEN [sockets[s] EXCEPT !.closed = "silent_peer"] ELSE sockets[s]]

AfterReaping == IF Silent = {} THEN Room ELSE ReconcilePeers(Room, Reaped)

RoomExpired == Open(Reaped) = {} /\ now >= AfterReaping.updatedAt + ROOM_TTL_MS

AfterStaleClear ==
  IF StaleClearDue(AfterReaping) THEN ReduceStale(AfterReaping, now) ELSE AfterReaping

\* Two writes and broadcasts when it both reaps and clears: the second counts.
AlarmTicks ==
  /\ AlarmDue
  /\ ~RoomExpired
  /\ sockets' = Reaped
  /\ Persist(AfterStaleClear)
  /\ frames' = Broadcast(AfterStaleClear, Reaped)
  /\ ScheduleAlarm(AfterStaleClear, Reaped)
  /\ Vacated(Reaped)
  /\ UNCHANGED <<now, pin, nextId>>

\* expireRoom: deleteAll, and no alarm is armed for what is gone.
AlarmExpires ==
  /\ AlarmDue
  /\ RoomExpired
  /\ sockets' = Reaped
  /\ frames' = Broadcast(ReduceExpire(AfterReaping), Reaped)
  /\ cache' = Null
  /\ stored' = NoState
  /\ pin' = NoPin
  /\ alarm' = Null
  /\ Vacated(Reaped)
  /\ UNCHANGED <<now, nextId>>

--------------------------------------------------------------------------------
(* The platform.                                                              *)

\* The object leaves memory; sockets and attachments survive.
Hibernate ==
  /\ "hibernate" \in Faults
  /\ cache # Null
  /\ cache' = Null
  /\ UNCHANGED <<now, sockets, stored, pin, alarm, nextId, frames, movedAt>>

\* Memory and sockets are lost, without a close event; storage and alarm stay.
Restarted ==
  /\ cache' = Null
  /\ sockets' = [s \in Sockets |-> Null]
  /\ frames' = [s \in Sockets |-> Null]

\* A deploy between two events.
Restart ==
  /\ "restart" \in Faults
  /\ Restarted
  /\ Vacated(sockets')
  /\ UNCHANGED <<now, stored, pin, alarm, nextId>>

\* What a handler that dies between two writes has already written: the PIN
\* without the state, or the state without the alarm.  An alarm handler that
\* dies is run again: its alarm stays due.
CrashWrites(next) ==
  /\ stored' = Written(next)
  /\ nextId' = IdsAfter(next)

CrashInJoin(s) ==
  /\ MayJoin(s)
  /\ pin' = PinAfter(s)
  /\ \/ CrashWrites(Room)
     \/ CrashWrites(ReconcilePeers(Room, Joined(s)))

CrashInHandler ==
  /\ \/ \E s \in Live(sockets) : CrashWrites(ReconcilePeers(Room, Without(s)))
     \/ \E s \in Live(sockets) : \E next \in Outcomes(s) : CrashWrites(next)
     \/ AlarmDue /\ CrashWrites(AfterReaping)
     \/ AlarmDue /\ ~RoomExpired /\ CrashWrites(AfterStaleClear)
     \/ AlarmDue /\ RoomExpired /\ CrashWrites(ReduceExpire(AfterReaping))
  /\ pin' = pin

Crash ==
  /\ "crash" \in Faults
  /\ (\E s \in Sockets : CrashInJoin(s)) \/ CrashInHandler
  /\ stored'.kind = "v2" => stored'.state.seq <= MaxSeq
  /\ Restarted
  /\ Vacated(sockets')
  /\ UNCHANGED <<now, alarm>>

\* The clock waits for the platform to fire a due alarm.
Tick ==
  /\ now < MaxTime
  /\ alarm # Null => now < alarm + AlarmLatency
  /\ now' = now + 1
  /\ UNCHANGED <<sockets, cache, stored, pin, alarm, nextId, frames, movedAt>>

--------------------------------------------------------------------------------

FreshRoom == stored = NoState /\ pin = NoPin /\ alarm = Null

\* A room an older relay left behind, its TTL alarm armed.
LegacyRoom ==
  /\ \E updatedAt \in LegacyRooms : stored = V1(updatedAt) /\ alarm = updatedAt + ROOM_TTL_MS
  /\ pin \in [set : {TRUE}, value : Pins \union {Null}]

Init ==
  /\ now = Epoch
  /\ sockets = [s \in Sockets |-> Null]
  /\ frames = [s \in Sockets |-> Null]
  /\ cache = Null
  /\ FreshRoom \/ LegacyRoom
  /\ nextId = 0
  /\ movedAt = IF stored = NoState THEN 0 ELSE stored.updatedAt

Next ==
  \/ \E s \in Sockets :
       \/ Accept(s)
       \/ RefuseHello(s)
       \/ Join(s)
       \/ Leave(s)
       \/ LeaveRejected(s)
       \/ Ping(s)
       \/ Frame(s)
  \/ AlarmTicks
  \/ AlarmExpires
  \/ Hibernate
  \/ Restart
  \/ Crash
  \/ Tick

Spec == Init /\ [][Next]_vars

--------------------------------------------------------------------------------
(* Properties.                                                                *)

\* Every variable, and the room's clocks, stay in the ranges the code gives them.
TypeOK ==
  /\ now \in Nat /\ movedAt \in Nat /\ nextId \in Nat
  /\ sockets \in [Sockets -> Attachments \union {Null}]
  /\ cache \in RoomStates \union {Null}
  /\ stored \in StoredStates
  /\ pin \in StoredPins
  /\ alarm \in Nat \union {Null}
  /\ frames \in [Sockets -> RoomStates \union {Null}]

\* While anybody is in the room, the presence flags say exactly which roles are:
\* whatever was stored by a room that lost its sockets is corrected by the first
\* join, and evictions, departures and reaping keep it right (reconcilePeers).
PresenceMatchesSockets ==
  Live(sockets) # {} =>
    \A role \in Roles : Room.online[role] = HasReadyPeer(sockets, role)

\* One driver per room, the last to join, however sockets come and go.
OneDriver ==
  \A r, s \in Live(sockets) :
    sockets[r].role = "driver" /\ sockets[s].role = "driver" => r = s

\* The last frame sent on every joined socket is the room's state: no handler
\* changes the room behind a socket's back, and no joiner starts from an old one.
LiveSocketsShareTheRoom == \A s \in Live(sockets) : frames[s] = Room

\* No socket is ever sent a state with seq 0: a client drops a frame whose seq is
\* not above lastSeen, which starts at 0, so such a replay would be lost and the
\* session never counted as replayed.  The join itself must have bumped seq.
FramesPassTheSeqGate == \A s \in Sockets : frames[s] # Null => frames[s].seq > 0

\* What is in memory is what a hibernated or restarted object would load.
CacheCoherent == cache # Null => cache = Load(stored)

\* Nobody is in a room with a PIN without having presented it, whoever set it.
PinGuardsRoom ==
  \A s \in Live(sockets) :
    pin.set /\ (pin.value # Null => sockets[s].token = pin.value)

\* A call is off the glasses HUD_STALE_CLEAR_MS after it was made (plus the
\* platform's delay): no ack, presence flip, ping, tick or crash postpones it.
HudClearedInTime ==
  ~HudEmpty(Room) => now <= Room.calledAt + HUD_STALE_CLEAR_MS + AlarmLatency

\* As long as somebody is in the room the next tick is at most a tick away: the
\* alarm that finds silent peers is never left unarmed or armed for the TTL.
TickArmed ==
  Live(sockets) # {} => alarm # Null /\ alarm <= now + ALARM_TICK_MS

\* A joined peer that stops pinging is out of the room within PEER_OFFLINE_MS and
\* a tick (plus the platform's delay) - counted from the last join or departure
\* of anybody when that came later, because each re-points the tick.
SilentPeerReaped ==
  \A s \in Live(sockets) :
    now <= Later(sockets[s].lastPing + PEER_OFFLINE_MS, movedAt)
             + ALARM_TICK_MS + AlarmLatency

\* seq grows from each frame of a socket to its next: clients drop a frame whose
\* seq is not above the last one they saw, so a repeated seq would hide a change.
FramesGrow ==
  [][\A s \in Sockets :
       frames[s] # Null /\ frames'[s] # Null /\ frames'[s] # frames[s] =>
         frames'[s].seq > frames[s].seq]_vars

\* The room and its PIN are deleted only when nobody was in the room for
\* ROOM_TTL_MS, a room left by a v1 relay included (without restarts: a restart
\* empties the room and moves no clock).
ExpiresOnlyAfterTTL ==
  [][pin.set /\ pin' # pin =>
       /\ ~pin'.set
       /\ Open(sockets') = {}
       /\ Live(sockets) = {}
       /\ now >= movedAt + ROOM_TTL_MS]_vars

================================================================================

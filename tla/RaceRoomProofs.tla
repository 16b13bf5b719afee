----------------------------- MODULE RaceRoomProofs -----------------------------
(* What holds of RaceRoom for every set of sockets, PINs, lanes and texts, for *)
(* every timing that respects TimingAssumption and for every combination of   *)
(* faults: the types, and the invariants the runs check on small instances.   *)
EXTENDS RaceRoom, TLAPS

--------------------------------------------------------------------------------
(* What the reducer's operators return, for every state and every constant.   *)

\* Nothing but the stamps and the seq changes in a stamped state (changed and
\* called in reduce.ts), and the stamps never go back.
LEMMA StampsFacts ==
  ASSUME NEW state \in RoomStates, NEW stamp \in Nat
  PROVE  /\ Changed(state, stamp) \in RoomStates
         /\ Changed(state, stamp).lane = state.lane
         /\ Changed(state, stamp).cars = state.cars
         /\ Changed(state, stamp).msg = state.msg
         /\ Changed(state, stamp).online = state.online
         /\ Changed(state, stamp).calledAt = state.calledAt
         /\ Changed(state, stamp).seq > state.seq
         /\ Called(state, stamp) \in RoomStates
         /\ Called(state, stamp).online = state.online
         /\ Called(state, stamp).calledAt >= stamp
         /\ Called(state, stamp).seq > state.seq
<1>1. /\ state.updatedAt \in Nat /\ state.calledAt \in Nat /\ state.seq \in Nat
      /\ Later(state.updatedAt, stamp) \in Nat
      /\ Later(state.calledAt, stamp) \in Nat /\ Later(state.calledAt, stamp) >= stamp
  BY DEF RoomStates, Later
<1>2. /\ Changed(state, stamp) \in RoomStates
      /\ Changed(state, stamp).lane = state.lane
      /\ Changed(state, stamp).cars = state.cars
      /\ Changed(state, stamp).msg = state.msg
      /\ Changed(state, stamp).online = state.online
      /\ Changed(state, stamp).calledAt = state.calledAt
      /\ Changed(state, stamp).seq > state.seq
  <2> DEFINE bumped == [state EXCEPT !.seq = state.seq + 1]
             time == Later(state.updatedAt, stamp)
  <2>1. /\ bumped \in RoomStates /\ bumped.seq > state.seq
        /\ bumped.lane = state.lane /\ bumped.cars = state.cars
        /\ bumped.msg = state.msg /\ bumped.online = state.online
        /\ bumped.calledAt = state.calledAt /\ bumped.updatedAt = state.updatedAt
    BY <1>1 DEF RoomStates
  <2>2. Changed(state, stamp) = [bumped EXCEPT !.updatedAt = time]
    BY <2>1 DEF Changed
  <2> HIDE DEF bumped, time
  <2>3. time \in Nat
    BY <1>1 DEF time
  <2>4. /\ Changed(state, stamp) \in RoomStates
        /\ Changed(state, stamp).seq = bumped.seq
        /\ Changed(state, stamp).lane = bumped.lane
        /\ Changed(state, stamp).cars = bumped.cars
        /\ Changed(state, stamp).msg = bumped.msg
        /\ Changed(state, stamp).online = bumped.online
        /\ Changed(state, stamp).calledAt = bumped.calledAt
    BY <2>1, <2>2, <2>3 DEF RoomStates
  <2> QED
    BY <2>1, <2>4
<1>3. Called(state, stamp) =
        [Changed(state, stamp) EXCEPT !.calledAt = Later(state.calledAt, stamp)]
  BY <1>2 DEF Called
<1>4. /\ Called(state, stamp) \in RoomStates
      /\ Called(state, stamp).online = state.online
      /\ Called(state, stamp).calledAt = Later(state.calledAt, stamp)
      /\ Called(state, stamp).seq = Changed(state, stamp).seq
  BY <1>1, <1>2, <1>3 DEF RoomStates
<1> QED
  BY <1>1, <1>2, <1>4

\* What a peer event does: the flag of its role, and nothing the HUD shows.
LEMMA PeerFacts ==
  ASSUME NEW state \in RoomStates, NEW role \in Roles, NEW online \in BOOLEAN,
         NEW stamp \in Nat
  PROVE  LET next == ReducePeer(state, role, online, stamp)
         IN  /\ next \in RoomStates
             /\ next.online = [state.online EXCEPT ![role] = online]
             /\ next.lane = state.lane
             /\ next.cars = state.cars
             /\ next.msg = state.msg
             /\ next.calledAt = state.calledAt
             /\ next = state \/ next.seq > state.seq
<1> DEFINE flipped == [state EXCEPT !.online[role] = online]
<1>1. flipped \in RoomStates
  BY DEF RoomStates
<1>2. /\ flipped.online = [state.online EXCEPT ![role] = online]
      /\ flipped.lane = state.lane
      /\ flipped.cars = state.cars
      /\ flipped.msg = state.msg
      /\ flipped.calledAt = state.calledAt
      /\ flipped.seq = state.seq
  BY DEF RoomStates
<1>3. CASE state.online[role] = online
  BY <1>3 DEF ReducePeer, RoomStates
<1>4. CASE state.online[role] # online
  <2>1. ReducePeer(state, role, online, stamp) = Changed(flipped, stamp)
    BY <1>4 DEF ReducePeer
  <2>2. state.seq \in Nat
    BY DEF RoomStates
  <2> HIDE DEF flipped
  <2>3. Changed(flipped, stamp).seq > state.seq
    BY <2>2, <1>1, <1>2, StampsFacts
  <2> QED
    BY <2>1, <2>3, <1>1, <1>2, StampsFacts
<1> QED
  BY <1>3, <1>4

\* A stale clear leaves an empty HUD, and the presence flags alone.
LEMMA StaleFacts ==
  ASSUME NEW state \in RoomStates, NEW stamp \in Nat, ReducerAssumption
  PROVE  LET next == ReduceStale(state, stamp)
         IN  /\ next \in RoomStates
             /\ HudEmpty(next)
             /\ next.online = state.online
             /\ next = state \/ next.seq > state.seq
<1> DEFINE blank == [state EXCEPT !.lane = Null, !.cars = NoCars,
                                  !.msg = Null, !.calledAt = 0]
<1>1. NoCars \in Cars
  BY DEF NoCars, Cars, ReducerAssumption
<1>2. /\ blank \in RoomStates
      /\ blank.online = state.online
      /\ blank.lane = Null /\ blank.cars = NoCars /\ blank.msg = Null
      /\ blank.seq = state.seq /\ state.seq \in Nat
  BY <1>1 DEF RoomStates
<1>3. CASE HudEmpty(state)
  BY <1>3 DEF ReduceStale
<1>4. CASE ~HudEmpty(state)
  <2>1. ReduceStale(state, stamp) = Changed(blank, stamp)
    BY <1>4 DEF ReduceStale
  <2> HIDE DEF blank
  <2>2. Changed(blank, stamp).seq > state.seq
    BY <1>2, StampsFacts
  <2>3. HudEmpty(Changed(blank, stamp))
    BY <1>2, StampsFacts DEF HudEmpty
  <2>4. /\ Changed(blank, stamp) \in RoomStates
        /\ Changed(blank, stamp).online = state.online
    BY <1>2, StampsFacts
  <2> QED
    BY <2>1, <2>2, <2>3, <2>4
<1> QED
  BY <1>3, <1>4

LEMMA InitialStateType ==
  ASSUME ReducerAssumption
  PROVE  InitialState \in RoomStates /\ HudEmpty(InitialState)
BY DEF InitialState, RoomStates, ReducerAssumption, NoCars, Cars, HudEmpty

\* Every data frame keeps the presence flags; it leaves what the HUD shows alone,
\* or it is a call and restarts the stale-clear window.
DataFacts(state, next, stamp) ==
  /\ next \in RoomStates
  /\ next.online = state.online
  /\ next = state \/ next.seq > state.seq
  /\ \/ next.calledAt = state.calledAt /\ (HudEmpty(next) <=> HudEmpty(state))
     \/ next.calledAt >= stamp

LEMMA CalledFacts ==
  ASSUME NEW state \in RoomStates, NEW content \in RoomStates, NEW stamp \in Nat,
         content.online = state.online, content.seq = state.seq
  PROVE  DataFacts(state, Called(content, stamp), stamp)
<1>1. state.seq \in Nat
  BY DEF RoomStates
<1> QED
  BY <1>1, StampsFacts DEF DataFacts

LEMMA LaneFacts ==
  ASSUME NEW state \in RoomStates, NEW lane \in Lanes \union {Null}, NEW stamp \in Nat
  PROVE  DataFacts(state, ReduceLane(state, lane, stamp), stamp)
<1> DEFINE content == [state EXCEPT !.lane = lane]
<1>1. content \in RoomStates /\ content.online = state.online /\ content.seq = state.seq
  BY DEF RoomStates
<1>2. DataFacts(state, Called(content, stamp), stamp)
  BY <1>1, CalledFacts
<1>3. DataFacts(state, state, stamp)
  BY DEF DataFacts
<1> HIDE DEF DataFacts
<1> QED
  BY <1>2, <1>3 DEF ReduceLane

LEMMA CarLevelRange ==
  ASSUME NEW halves \in Int, CAR_LEVEL_MAX \in Nat
  PROVE  CarLevel(halves) \in 0 .. CAR_LEVEL_MAX
BY DEF CarLevel

LEMMA CarsFacts ==
  ASSUME NEW state \in RoomStates, NEW report \in [Sides -> Int], NEW stamp \in Nat,
         ReducerAssumption
  PROVE  DataFacts(state, ReduceCars(state, report, stamp), stamp)
<1> DEFINE cars == [side \in Sides |-> CarLevel(report[side])]
           content == [state EXCEPT !.cars = cars]
<1>1. cars \in Cars
  <2>1. \A side \in Sides : CarLevel(report[side]) \in 0 .. CAR_LEVEL_MAX
    BY CarLevelRange DEF ReducerAssumption
  <2> QED
    BY <2>1 DEF Cars
<1> HIDE DEF cars
<1>2. content \in RoomStates /\ content.online = state.online /\ content.seq = state.seq
  BY <1>1 DEF RoomStates
<1>3. DataFacts(state, Called(content, stamp), stamp)
  BY <1>2, CalledFacts
<1>4. DataFacts(state, state, stamp)
  BY DEF DataFacts
<1> QED
  BY <1>3, <1>4 DEF ReduceCars, cars

LEMMA MessageFacts ==
  ASSUME NEW state \in RoomStates, NEW newId \in Nat, NEW stamp \in Nat
  PROVE  DataFacts(state, ReduceMessage(state, newId, stamp), stamp)
<1> DEFINE content == [state EXCEPT !.msg = [id |-> newId, acked |-> FALSE]]
<1>1. content \in RoomStates /\ content.online = state.online /\ content.seq = state.seq
  BY DEF RoomStates, Messages
<1> QED
  BY <1>1, CalledFacts DEF ReduceMessage

LEMMA ClearFacts ==
  ASSUME NEW state \in RoomStates, NEW stamp \in Nat
  PROVE  DataFacts(state, ReduceClear(state, stamp), stamp)
<1> DEFINE content == [state EXCEPT !.msg = Null]
<1>1. content \in RoomStates /\ content.online = state.online /\ content.seq = state.seq
  BY DEF RoomStates
<1>2. DataFacts(state, Called(content, stamp), stamp)
  BY <1>1, CalledFacts
<1>3. DataFacts(state, state, stamp)
  BY DEF DataFacts
<1> QED
  BY <1>2, <1>3 DEF ReduceClear

LEMMA AckFacts ==
  ASSUME NEW state \in RoomStates, NEW msgId \in Nat, NEW stamp \in Nat,
         NoMessageAssumption
  PROVE  DataFacts(state, ReduceAck(state, msgId, stamp), stamp)
<1> DEFINE content == [state EXCEPT !.msg.acked = TRUE]
<1>1. DataFacts(state, state, stamp)
  BY DEF DataFacts
<1>2. CASE state.msg # Null /\ state.msg.id = msgId /\ ~state.msg.acked
  <2>1. state.msg \in Messages
    BY <1>2 DEF RoomStates
  <2>2. [state.msg EXCEPT !.acked = TRUE] \in Messages
    BY <2>1 DEF Messages
  <2>3. [state.msg EXCEPT !.acked = TRUE] # Null
    BY <2>2 DEF NoMessageAssumption
  <2>4. /\ content \in RoomStates
        /\ content.lane = state.lane /\ content.cars = state.cars
        /\ content.msg = [state.msg EXCEPT !.acked = TRUE]
        /\ content.online = state.online /\ content.seq = state.seq
        /\ content.calledAt = state.calledAt /\ state.seq \in Nat
    BY <2>2 DEF RoomStates
  <2>5. ReduceAck(state, msgId, stamp) = Changed(content, stamp)
    BY <1>2 DEF ReduceAck
  <2>6. HudEmpty(Changed(content, stamp)) <=> HudEmpty(state)
    BY <1>2, <2>3, <2>4, StampsFacts DEF HudEmpty
  <2> HIDE DEF content
  <2>7. /\ Changed(content, stamp) \in RoomStates
        /\ Changed(content, stamp).online = state.online
        /\ Changed(content, stamp).calledAt = state.calledAt
        /\ Changed(content, stamp).seq > state.seq
    BY <2>4, StampsFacts
  <2> QED
    BY <2>5, <2>6, <2>7 DEF DataFacts
<1>3. CASE ~(state.msg # Null /\ state.msg.id = msgId /\ ~state.msg.acked)
  BY <1>1, <1>3 DEF ReduceAck
<1> QED
  BY <1>2, <1>3

\* Saving or forgetting a preset is not a call.
LEMMA PresetFacts ==
  ASSUME NEW state \in RoomStates, NEW text \in Texts, NEW stamp \in Nat
  PROVE  /\ DataFacts(state, ReducePresetAdd(state, text, stamp), stamp)
         /\ DataFacts(state, ReducePresetRemove(state, text, stamp), stamp)
<1>1. DataFacts(state, state, stamp)
  BY DEF DataFacts
<1>2. ASSUME NEW presets \in SUBSET Texts
      PROVE  DataFacts(state, Changed([state EXCEPT !.presets = presets], stamp), stamp)
  <2> DEFINE content == [state EXCEPT !.presets = presets]
  <2>1. /\ content \in RoomStates
        /\ content.lane = state.lane /\ content.cars = state.cars
        /\ content.msg = state.msg
        /\ content.online = state.online /\ content.seq = state.seq
        /\ content.calledAt = state.calledAt /\ state.seq \in Nat
    BY DEF RoomStates
  <2> HIDE DEF content
  <2>2. DataFacts(state, Changed(content, stamp), stamp)
    BY <2>1, StampsFacts DEF DataFacts, HudEmpty
  <2> QED
    BY <2>2 DEF content
<1>3. /\ state.presets \union {text} \in SUBSET Texts
      /\ state.presets \ {text} \in SUBSET Texts
  BY DEF RoomStates
<1>4. /\ DataFacts(state, Changed([state EXCEPT !.presets = @ \union {text}], stamp), stamp)
      /\ DataFacts(state, Changed([state EXCEPT !.presets = @ \ {text}], stamp), stamp)
  BY <1>2, <1>3
<1> QED
  BY <1>1, <1>4 DEF ReducePresetAdd, ReducePresetRemove

--------------------------------------------------------------------------------
(* The stored and the loaded state.                                           *)

LEMMA LoadFacts ==
  ASSUME ReducerAssumption
  PROVE  /\ \A s \in StoredStates : Load(s) \in RoomStates
         /\ \A state \in RoomStates : V2(state) \in StoredStates /\ Load(V2(state)) = state
         /\ NoState \in StoredStates
<1>1. ASSUME NEW s \in StoredStates
      PROVE  Load(s) \in RoomStates
  <2>1. CASE s = NoState
    BY <2>1, InitialStateType DEF Load, NoState
  <2>2. CASE s \in [kind : {"v1"}, updatedAt : Nat]
    <3>1. Load(s) = [InitialState EXCEPT !.updatedAt = s.updatedAt]
      BY <2>2 DEF Load
    <3>2. s.updatedAt \in Nat /\ InitialState \in RoomStates
      BY <2>2, InitialStateType
    <3> QED
      BY <3>1, <3>2 DEF RoomStates
  <2>3. CASE s \in [kind : {"v2"}, state : RoomStates]
    BY <2>3 DEF Load
  <2> QED
    BY <2>1, <2>2, <2>3 DEF StoredStates
<1>2. ASSUME NEW state \in RoomStates
      PROVE  V2(state) \in StoredStates /\ Load(V2(state)) = state
  BY DEF V2, StoredStates, Load
<1>3. NoState \in StoredStates
  BY DEF StoredStates
<1> QED
  BY <1>1, <1>2, <1>3

\* The state a handler works on has the type of a state.
LEMMA RoomType ==
  ASSUME TypeOK, ReducerAssumption
  PROVE  Room \in RoomStates
BY LoadFacts DEF TypeOK, Room

\* A hibernated object finds its state again.
LEMMA RoomIsStored ==
  ASSUME CacheCoherent
  PROVE  Room = Load(stored)
BY DEF CacheCoherent, Room

\* What persistAndBroadcast leaves in memory and in storage.
LEMMA PersistFacts ==
  ASSUME TypeOK, CacheCoherent, ReducerAssumption, InputAssumption,
         NEW next \in RoomStates, cache' = next, stored' = Written(next)
  PROVE  /\ cache' \in RoomStates /\ stored' \in StoredStates
         /\ Room' = next
         /\ CacheCoherent'
<1>1. stored' \in StoredStates /\ Load(stored') = next
  BY LoadFacts, RoomIsStored DEF TypeOK, Written
<1>2. next # Null
  BY DEF InputAssumption
<1>3. Room' = next
  BY <1>2 DEF Room
<1>4. CacheCoherent'
  BY <1>1 DEF CacheCoherent
<1> QED
  BY <1>1, <1>3, <1>4

\* What a handler that dies leaves in storage.
LEMMA CrashFacts ==
  ASSUME TypeOK, CacheCoherent, ReducerAssumption,
         NEW next \in RoomStates, cache' = Null, stored' = Written(next)
  PROVE  /\ stored' \in StoredStates
         /\ Room' = next
         /\ CacheCoherent'
<1>1. stored' \in StoredStates /\ Load(stored') = next
  BY LoadFacts, RoomIsStored DEF TypeOK, Written
<1> QED
  BY <1>1 DEF Room, CacheCoherent

--------------------------------------------------------------------------------
(* The sockets.                                                               *)

SocketTable == [Sockets -> Attachments \union {Null}]

LEMMA OpenFacts ==
  ASSUME NEW socks \in SocketTable, NEW s \in Open(socks)
  PROVE  s \in Sockets /\ socks[s] \in Attachments /\ socks[s].closed = "no"
BY DEF Open, SocketTable

LEMMA HasReadyPeerType ==
  ASSUME NEW socks, NEW role
  PROVE  HasReadyPeer(socks, role) \in BOOLEAN
BY DEF HasReadyPeer

\* reconcilePeers makes the flags those of the sockets, and touches nothing the
\* HUD shows and no clock of the stale clear.
LEMMA ReconcileFacts ==
  ASSUME now \in Nat, NEW state \in RoomStates, NEW socks
  PROVE  LET next == ReconcilePeers(state, socks)
         IN  /\ next \in RoomStates
             /\ \A role \in Roles : next.online[role] = HasReadyPeer(socks, role)
             /\ HudEmpty(next) <=> HudEmpty(state)
             /\ next.msg = state.msg
             /\ next.calledAt = state.calledAt
             /\ next = state \/ next.seq > state.seq
<1> DEFINE spotter == HasReadyPeer(socks, "spotter")
           driver  == HasReadyPeer(socks, "driver")
           first   == ReducePeer(state, "spotter", spotter, now)
           next    == ReducePeer(first, "driver", driver, now)
<1>1. spotter \in BOOLEAN /\ driver \in BOOLEAN
  BY HasReadyPeerType
<1>2. "spotter" \in Roles /\ "driver" \in Roles
  BY DEF Roles
<1>3. ReconcilePeers(state, socks) = next
  BY DEF ReconcilePeers
<1> HIDE DEF spotter, driver
<1>4. /\ first \in RoomStates
      /\ first.online = [state.online EXCEPT !["spotter"] = spotter]
      /\ first.lane = state.lane /\ first.cars = state.cars /\ first.msg = state.msg
      /\ first.calledAt = state.calledAt
      /\ first = state \/ first.seq > state.seq
  BY <1>1, <1>2, PeerFacts
<1> HIDE DEF first
<1>5. /\ next \in RoomStates
      /\ next.online = [first.online EXCEPT !["driver"] = driver]
      /\ next.lane = first.lane /\ next.cars = first.cars /\ next.msg = first.msg
      /\ next.calledAt = first.calledAt
      /\ next = first \/ next.seq > first.seq
  BY <1>1, <1>2, <1>4, PeerFacts
<1> HIDE DEF next
<1>6. \A role \in Roles : next.online[role] = HasReadyPeer(socks, role)
  <2>1. state.online \in [Roles -> BOOLEAN]
    BY DEF RoomStates
  <2>2. next.online["spotter"] = spotter /\ next.online["driver"] = driver
    BY <1>2, <1>4, <1>5, <2>1
  <2> QED
    BY <2>2 DEF Roles, spotter, driver
<1>7. next = state \/ next.seq > state.seq
  <2>1. next.seq \in Nat /\ first.seq \in Nat /\ state.seq \in Nat
    BY <1>4, <1>5 DEF RoomStates
  <2> QED
    BY <1>4, <1>5, <2>1
<1>8. HudEmpty(next) <=> HudEmpty(state)
  BY <1>4, <1>5 DEF HudEmpty
<1> QED
  BY <1>3, <1>4, <1>5, <1>6, <1>7, <1>8

--------------------------------------------------------------------------------
(* The types of what the actions assign.                                      *)

LEMMA AlarmTypes ==
  ASSUME now \in Nat, NEW state \in RoomStates
  PROVE  /\ \A occupied \in BOOLEAN : NextAlarmAt(occupied, state) \in Nat
         /\ \A current \in Nat \union {Null} :
              EarlierAlarmAt(current, state) \in Nat \union {Null}
<1>1. state.updatedAt \in Nat /\ state.calledAt \in Nat
  BY DEF RoomStates
<1>2. StaleClearAt(state) \in Nat
  BY <1>1, TimingAssumption DEF StaleClearAt
<1> QED
  BY <1>1, <1>2, TimingAssumption DEF NextAlarmAt, EarlierAlarmAt, Sooner

\* scheduleAlarm always arms one.
LEMMA ScheduleType ==
  ASSUME now \in Nat, NEW state \in RoomStates, NEW socks, ScheduleAlarm(state, socks)
  PROVE  alarm' \in Nat
<1>1. (Open(socks) # {}) \in BOOLEAN
  OBVIOUS
<1> QED
  BY <1>1, AlarmTypes DEF ScheduleAlarm

LEMMA BroadcastType ==
  ASSUME TypeOK, NEW next \in RoomStates, NEW socks
  PROVE  Broadcast(next, socks) \in [Sockets -> RoomStates \union {Null}]
BY DEF Broadcast, TypeOK

\* A data frame is a call or leaves the HUD alone, and never touches presence.
LEMMA OutcomeFacts ==
  ASSUME TypeOK, NEW s, NEW next \in Outcomes(s)
  PROVE  DataFacts(Room, next, now)
<1>1. Room \in RoomStates /\ now \in Nat /\ nextId \in Nat
  BY RoomType, ReducerAssumption DEF TypeOK
<1>2. CASE next \in SpotterOutcomes
  <2>1. CASE \E lane \in Lanes \union {Null} : next = ReduceLane(Room, lane, now)
    BY <1>1, <2>1, LaneFacts
  <2>2. CASE \E report \in CarReports : next = ReduceCars(Room, report, now)
    BY <1>1, <2>2, CarsFacts, InputAssumption, ReducerAssumption DEF InputAssumption
  <2>3. CASE next = ReduceMessage(Room, nextId, now)
    BY <1>1, <2>3, MessageFacts
  <2>4. CASE next = ReduceClear(Room, now)
    BY <1>1, <2>4, ClearFacts
  <2>5. CASE \E text \in Texts : next = ReducePresetAdd(Room, text, now)
    BY <1>1, <2>5, PresetFacts
  <2>6. CASE \E text \in Texts : next = ReducePresetRemove(Room, text, now)
    BY <1>1, <2>6, PresetFacts
  <2> QED
    BY <1>2, <2>1, <2>2, <2>3, <2>4, <2>5, <2>6 DEF SpotterOutcomes
<1>3. CASE next \in DriverOutcomes
  <2>1. PICK msgId \in 0 .. nextId : next = ReduceAck(Room, msgId, now)
    BY <1>3 DEF DriverOutcomes
  <2> QED
    BY <1>1, <2>1, AckFacts, NoMessageAssumption
<1> QED
  BY <1>2, <1>3 DEF Outcomes

LEMMA IdsType ==
  ASSUME nextId \in Nat, NEW next
  PROVE  IdsAfter(next) \in Nat
BY DEF IdsAfter

\* The tables of sockets the handlers leave behind.
LEMMA SocketTypes ==
  ASSUME TypeOK
  PROVE  /\ \A s \in Open(sockets), code \in CloseCodes : Close(s, code) \in SocketTable
         /\ \A s \in Open(sockets) : Joined(s) \in SocketTable
         /\ \A s \in Sockets : Without(s) \in SocketTable
         /\ Reaped \in SocketTable
         /\ [s \in Sockets |-> Null] \in SocketTable
<1>1. sockets \in SocketTable /\ now \in Nat
  BY DEF TypeOK, SocketTable
<1>2. \A s \in Open(sockets) : sockets[s] \in Attachments /\ s \in Sockets
  BY <1>1, OpenFacts
<1>3. \A a \in Attachments, code \in CloseCodes : [a EXCEPT !.closed = code] \in Attachments
  BY DEF Attachments
<1>4. \A a \in Attachments : [a EXCEPT !.ready = TRUE, !.lastPing = now] \in Attachments
  BY <1>1 DEF Attachments
<1>5. "driver_evicted" \in CloseCodes /\ "silent_peer" \in CloseCodes
  BY DEF CloseCodes
<1>6. \A s \in Live(sockets) : s \in Open(sockets)
  BY DEF Live
<1>7. \A s \in Open(sockets), code \in CloseCodes : Close(s, code) \in SocketTable
  BY <1>1, <1>2, <1>3 DEF Close, SocketTable
<1>8. \A s \in Open(sockets) : Joined(s) \in SocketTable
  BY <1>1, <1>2, <1>3, <1>4, <1>5, <1>6 DEF Joined, SocketTable
<1>9. \A s \in Sockets : Without(s) \in SocketTable
  BY <1>1 DEF Without, SocketTable
<1>10. Reaped \in SocketTable
  BY <1>1, <1>2, <1>3, <1>5 DEF Reaped, Silent, SocketTable
<1> QED
  BY <1>7, <1>8, <1>9, <1>10 DEF SocketTable

\* The states an alarm leads to.
LEMMA AlarmStates ==
  ASSUME TypeOK
  PROVE  /\ AfterReaping \in RoomStates
         /\ AfterStaleClear \in RoomStates
         /\ InitialState \in RoomStates
<1>1. Room \in RoomStates /\ now \in Nat
  BY RoomType, ReducerAssumption DEF TypeOK
<1>2. AfterReaping \in RoomStates
  BY <1>1, ReconcileFacts DEF AfterReaping
<1>3. AfterStaleClear \in RoomStates
  BY <1>1, <1>2, StaleFacts, ReducerAssumption DEF AfterStaleClear
<1> QED
  BY <1>2, <1>3, InitialStateType, ReducerAssumption

--------------------------------------------------------------------------------
(* Types and storage, action by action.                                       *)

Stable == TypeOK /\ CacheCoherent

\* A handler that only touches sockets leaves the room as it is.
LEMMA SocketOnly ==
  ASSUME Stable, sockets' \in SocketTable,
         UNCHANGED <<now, cache, stored, pin, alarm, nextId, frames, movedAt>>
  PROVE  Stable' /\ Room' = Room
BY DEF Stable, TypeOK, SocketTable, CacheCoherent, Room

LEMMA AcceptStable ==
  ASSUME Stable, NEW s \in Sockets, Accept(s)
  PROVE  Stable' /\ Room' = Room
<1>1. PICK url \in Urls :
        sockets' = [sockets EXCEPT ![s] =
          [role |-> url.role, token |-> url.token, lastPing |-> now,
           ready |-> FALSE, closed |-> "no"]]
  BY DEF Accept
<1>2. url \in Url
  BY UrlAssumption
<1>3. [role |-> url.role, token |-> url.token, lastPing |-> now,
       ready |-> FALSE, closed |-> "no"] \in Attachments
  BY <1>2 DEF Url, Attachments, Stable, TypeOK
<1>4. sockets' \in SocketTable
  BY <1>1, <1>3 DEF Stable, TypeOK, SocketTable
<1> QED
  BY <1>4, SocketOnly DEF Accept

LEMMA RefuseHelloStable ==
  ASSUME Stable, NEW s \in Sockets, RefuseHello(s)
  PROVE  Stable' /\ Room' = Room
<1>1. sockets' \in SocketTable
  <2>1. s \in Open(sockets) /\ \E code \in CloseCodes : sockets' = Close(s, code)
    BY DEF RefuseHello, CloseCodes
  <2> QED
    BY <2>1, SocketTypes DEF Stable
<1> QED
  BY <1>1, SocketOnly DEF RefuseHello

LEMMA LeaveRejectedStable ==
  ASSUME Stable, NEW s \in Sockets, LeaveRejected(s)
  PROVE  Stable' /\ Room' = Room
BY SocketTypes, SocketOnly DEF LeaveRejected, Stable

LEMMA PingStable ==
  ASSUME Stable, NEW s \in Sockets, Ping(s)
  PROVE  Stable' /\ Room' = Room
<1>1. sockets \in SocketTable /\ now \in Nat /\ s \in Open(sockets)
  BY DEF Stable, TypeOK, SocketTable, Ping, Live
<1>2. sockets[s] \in Attachments
  BY <1>1, OpenFacts
<1>3. [sockets[s] EXCEPT !.lastPing = now] \in Attachments
  BY <1>1, <1>2 DEF Attachments
<1>4. sockets' \in SocketTable
  BY <1>1, <1>3 DEF Ping, SocketTable
<1> QED
  BY <1>4, SocketOnly DEF Ping

LEMMA PinType ==
  ASSUME TypeOK, NEW s \in Sockets, MayJoin(s)
  PROVE  PinAfter(s) \in StoredPins
<1>1. s \in Open(sockets) /\ sockets \in SocketTable /\ pin \in StoredPins
  BY DEF MayJoin, TypeOK, SocketTable
<1>2. sockets[s] \in Attachments /\ sockets[s].token # BadPin
  BY <1>1, OpenFacts DEF MayJoin, PinRefused
<1>3. sockets[s].token \in Pins \union {Null}
  BY <1>2 DEF Attachments, Tokens
<1> QED
  BY <1>1, <1>3 DEF PinAfter, StoredPins

LEMMA JoinStable ==
  ASSUME Stable, NEW s \in Sockets, Join(s)
  PROVE  Stable' /\ Room' = ReconcilePeers(Room, Joined(s))
<1> DEFINE socks == Joined(s)
           next  == ReconcilePeers(Room, socks)
<1>1. Room \in RoomStates /\ now \in Nat /\ s \in Open(sockets)
  BY RoomType, ReducerAssumption DEF Stable, TypeOK, Join, MayJoin
<1>2. next \in RoomStates
  BY <1>1, ReconcileFacts
<1>3. socks \in SocketTable
  BY <1>1, SocketTypes DEF Stable
<1>4. /\ sockets' = socks
      /\ Persist(next)
      /\ frames' = [Broadcast(next, socks) EXCEPT ![s] = next]
      /\ ScheduleAlarm(next, socks)
      /\ pin' = PinAfter(s)
      /\ movedAt' = now
      /\ now' = now /\ nextId' = nextId
      /\ MayJoin(s)
  BY DEF Join
<1> HIDE DEF socks, next
<1>5. /\ cache' \in RoomStates /\ stored' \in StoredStates
      /\ Room' = next
      /\ CacheCoherent'
  BY <1>2, <1>4, PersistFacts, ReducerAssumption, InputAssumption DEF Persist, Stable
<1>6. frames' \in [Sockets -> RoomStates \union {Null}]
  BY <1>2, <1>4, BroadcastType DEF Stable
<1>7. alarm' \in Nat
  BY <1>1, <1>2, <1>4, ScheduleType
<1>8. pin' \in StoredPins
  BY <1>4, PinType DEF Stable
<1>9. TypeOK'
  BY <1>1, <1>3, <1>4, <1>5, <1>6, <1>7, <1>8 DEF Stable, TypeOK, SocketTable
<1> QED
  BY <1>5, <1>9 DEF Stable, next, socks

\* The state a departure leads to.
AfterLeave(s) == IF s \in Live(sockets) THEN ReconcilePeers(Room, Without(s)) ELSE Room

LEMMA LeaveStable ==
  ASSUME Stable, NEW s \in Sockets, Leave(s)
  PROVE  Stable' /\ Room' = AfterLeave(s)
<1> DEFINE socks == Without(s)
           next  == AfterLeave(s)
<1>1. Room \in RoomStates /\ now \in Nat
  BY RoomType, ReducerAssumption DEF Stable, TypeOK
<1>2. next \in RoomStates
  BY <1>1, ReconcileFacts DEF AfterLeave
<1>3. socks \in SocketTable
  BY SocketTypes DEF Stable
<1>4. /\ sockets' = socks
      /\ Persist(next)
      /\ frames' = Broadcast(next, socks)
      /\ ScheduleAlarm(next, socks)
      /\ movedAt' = IF Live(sockets) # {} THEN now ELSE movedAt
      /\ now' = now /\ nextId' = nextId /\ pin' = pin
  BY DEF Leave, AfterLeave
<1> HIDE DEF socks, next
<1>5. /\ cache' \in RoomStates /\ stored' \in StoredStates
      /\ Room' = next
      /\ CacheCoherent'
  BY <1>2, <1>4, PersistFacts, ReducerAssumption, InputAssumption DEF Persist, Stable
<1>6. frames' \in [Sockets -> RoomStates \union {Null}]
  BY <1>2, <1>4, BroadcastType DEF Stable
<1>7. alarm' \in Nat
  BY <1>1, <1>2, <1>4, ScheduleType
<1>8. movedAt' \in Nat
  BY <1>4 DEF Stable, TypeOK
<1>9. TypeOK'
  BY <1>1, <1>3, <1>4, <1>5, <1>6, <1>7, <1>8 DEF Stable, TypeOK, SocketTable
<1> QED
  BY <1>5, <1>9 DEF Stable, next

LEMMA FrameStable ==
  ASSUME Stable, NEW s \in Sockets, Frame(s)
  PROVE  Stable' /\ Room' \in Outcomes(s)
<1>1. PICK next \in Outcomes(s) :
        /\ Persist(next)
        /\ frames' = Broadcast(next, sockets)
        /\ alarm' = IF next = Room THEN alarm ELSE EarlierAlarmAt(alarm, next)
        /\ nextId' = IdsAfter(next)
  BY DEF Frame
<1>2. next \in RoomStates
  BY OutcomeFacts DEF DataFacts, Stable
<1>3. /\ cache' \in RoomStates /\ stored' \in StoredStates
      /\ Room' = next
      /\ CacheCoherent'
  BY <1>1, <1>2, PersistFacts, ReducerAssumption, InputAssumption DEF Persist, Stable
<1>4. frames' \in [Sockets -> RoomStates \union {Null}]
  BY <1>1, <1>2, BroadcastType DEF Stable
<1>5. alarm' \in Nat \union {Null} /\ nextId' \in Nat
  BY <1>1, <1>2, AlarmTypes, IdsType DEF Stable, TypeOK
<1>6. UNCHANGED <<now, sockets, pin, movedAt>>
  BY DEF Frame
<1>7. TypeOK'
  BY <1>3, <1>4, <1>5, <1>6 DEF Stable, TypeOK
<1> QED
  BY <1>3, <1>7 DEF Stable

LEMMA AlarmTicksStable ==
  ASSUME Stable, AlarmTicks
  PROVE  Stable' /\ Room' = AfterStaleClear
<1>1. AfterStaleClear \in RoomStates /\ now \in Nat
  BY AlarmStates DEF Stable, TypeOK
<1>2. /\ sockets' = Reaped
      /\ Persist(AfterStaleClear)
      /\ frames' = Broadcast(AfterStaleClear, Reaped)
      /\ ScheduleAlarm(AfterStaleClear, Reaped)
      /\ Vacated(Reaped)
      /\ now' = now /\ pin' = pin /\ nextId' = nextId
  BY DEF AlarmTicks
<1>3. /\ cache' \in RoomStates /\ stored' \in StoredStates
      /\ Room' = AfterStaleClear
      /\ CacheCoherent'
  BY <1>1, <1>2, PersistFacts, ReducerAssumption, InputAssumption DEF Persist, Stable
<1>4. frames' \in [Sockets -> RoomStates \union {Null}]
  BY <1>1, <1>2, BroadcastType DEF Stable
<1>5. alarm' \in Nat
  BY <1>1, <1>2, ScheduleType
<1>6. sockets' \in SocketTable /\ movedAt' \in Nat
  BY <1>2, SocketTypes DEF Stable, TypeOK, Vacated
<1>7. TypeOK'
  BY <1>1, <1>2, <1>3, <1>4, <1>5, <1>6 DEF Stable, TypeOK, SocketTable
<1> QED
  BY <1>3, <1>7 DEF Stable

LEMMA AlarmExpiresStable ==
  ASSUME Stable, AlarmExpires
  PROVE  Stable' /\ Room' = InitialState
<1>1. /\ sockets' = Reaped
      /\ frames' = Broadcast(ReduceExpire(AfterReaping), Reaped)
      /\ cache' = Null /\ stored' = NoState /\ pin' = NoPin /\ alarm' = Null
      /\ Vacated(Reaped)
      /\ now' = now /\ nextId' = nextId
  BY DEF AlarmExpires
<1>2. ReduceExpire(AfterReaping) \in RoomStates
  BY AlarmStates DEF Stable, ReduceExpire
<1>3. frames' \in [Sockets -> RoomStates \union {Null}]
  BY <1>1, <1>2, BroadcastType DEF Stable
<1>4. sockets' \in SocketTable /\ movedAt' \in Nat
  BY <1>1, SocketTypes DEF Stable, TypeOK, Vacated
<1>5. stored' \in StoredStates /\ pin' \in StoredPins
  BY <1>1, LoadFacts, ReducerAssumption DEF StoredPins
<1>6. TypeOK'
  BY <1>1, <1>3, <1>4, <1>5 DEF Stable, TypeOK, SocketTable
<1>7. Room' = InitialState
  BY <1>1 DEF Room, Load, NoState
<1> QED
  BY <1>1, <1>6, <1>7 DEF Stable, CacheCoherent

LEMMA HibernateStable ==
  ASSUME Stable, Hibernate
  PROVE  Stable' /\ Room' = Room
<1>1. /\ cache' = Null
      /\ UNCHANGED <<now, sockets, stored, pin, alarm, nextId, frames, movedAt>>
  BY DEF Hibernate
<1>2. Room' = Room
  BY <1>1, RoomIsStored DEF Stable, Room
<1> QED
  BY <1>1, <1>2 DEF Stable, TypeOK, CacheCoherent

LEMMA RestartedTypes ==
  ASSUME TypeOK, Restarted, Vacated(sockets')
  PROVE  /\ sockets' \in SocketTable
         /\ frames' \in [Sockets -> RoomStates \union {Null}]
         /\ cache' = Null
         /\ movedAt' \in Nat
         /\ Live(sockets') = {}
BY DEF Restarted, SocketTable, Vacated, TypeOK, Live, Open

LEMMA RestartStable ==
  ASSUME Stable, Restart
  PROVE  Stable' /\ Room' = Room
<1>1. UNCHANGED <<now, stored, pin, alarm, nextId>>
  BY DEF Restart
<1>2. /\ sockets' \in SocketTable
      /\ frames' \in [Sockets -> RoomStates \union {Null}]
      /\ cache' = Null
      /\ movedAt' \in Nat
  BY RestartedTypes DEF Restart, Stable
<1>3. Room' = Room
  BY <1>1, <1>2, RoomIsStored DEF Stable, Room
<1> QED
  BY <1>1, <1>2, <1>3 DEF Stable, TypeOK, CacheCoherent, SocketTable

\* What a process that dies leaves behind: the room as it was about to be.
LEMMA CrashCases ==
  ASSUME Stable, Crash
  PROVE  /\ pin' \in StoredPins
         /\ \E next \in RoomStates :
              /\ CrashWrites(next)
              /\ \/ \E socks : next = ReconcilePeers(Room, socks)
                 \/ next = Room
                 \/ \E s \in Live(sockets) : next \in Outcomes(s)
                 \/ next = AfterReaping
                 \/ next = AfterStaleClear
                 \/ next = InitialState
<1>1. Room \in RoomStates /\ now \in Nat /\ pin \in StoredPins
  BY RoomType, ReducerAssumption DEF Stable, TypeOK
<1>2. /\ AfterReaping \in RoomStates
      /\ AfterStaleClear \in RoomStates
      /\ InitialState \in RoomStates
  BY AlarmStates DEF Stable
<1>3. \A socks : ReconcilePeers(Room, socks) \in RoomStates
  BY <1>1, ReconcileFacts
<1>4. CASE \E s \in Sockets : CrashInJoin(s)
  <2>1. PICK s \in Sockets : CrashInJoin(s)
    BY <1>4
  <2>2. pin' \in StoredPins
    BY <2>1, PinType DEF CrashInJoin, Stable
  <2> QED
    BY <1>1, <1>3, <2>1, <2>2 DEF CrashInJoin
<1>5. CASE CrashInHandler
  <2>1. pin' \in StoredPins
    BY <1>1, <1>5 DEF CrashInHandler
  <2>2. CASE \E s \in Live(sockets) : CrashWrites(ReconcilePeers(Room, Without(s)))
    BY <1>3, <2>1, <2>2
  <2>3. CASE \E s \in Live(sockets) : \E next \in Outcomes(s) : CrashWrites(next)
    <3>1. \A s \in Live(sockets) : \A next \in Outcomes(s) : next \in RoomStates
      BY OutcomeFacts DEF DataFacts, Stable
    <3> QED
      BY <2>1, <2>3, <3>1
  <2>4. CASE \/ CrashWrites(AfterReaping)
             \/ CrashWrites(AfterStaleClear)
             \/ CrashWrites(ReduceExpire(AfterReaping))
    BY <1>2, <2>1, <2>4 DEF ReduceExpire
  <2> QED
    BY <1>5, <2>2, <2>3, <2>4 DEF CrashInHandler
<1> QED
  BY <1>4, <1>5 DEF Crash

LEMMA CrashStable ==
  ASSUME Stable, Crash
  PROVE  Stable'
<1>1. PICK next \in RoomStates : CrashWrites(next)
  BY CrashCases
<1>2. /\ sockets' \in SocketTable
      /\ frames' \in [Sockets -> RoomStates \union {Null}]
      /\ cache' = Null
      /\ movedAt' \in Nat
  BY RestartedTypes DEF Crash, Stable
<1>3. stored' \in StoredStates /\ CacheCoherent'
  BY <1>1, <1>2, CrashFacts, ReducerAssumption DEF CrashWrites, Stable
<1>4. nextId' \in Nat
  BY <1>1, IdsType DEF CrashWrites, Stable, TypeOK
<1>5. pin' \in StoredPins /\ now' = now /\ alarm' = alarm
  BY CrashCases DEF Crash
<1> QED
  BY <1>2, <1>3, <1>4, <1>5 DEF Stable, TypeOK, SocketTable

LEMMA TickStable ==
  ASSUME Stable, Tick
  PROVE  Stable' /\ Room' = Room
<1>1. /\ now' = now + 1
      /\ UNCHANGED <<sockets, cache, stored, pin, alarm, nextId, frames, movedAt>>
  BY DEF Tick
<1> QED
  BY <1>1 DEF Stable, TypeOK, CacheCoherent, Room

LEMMA InitStable ==
  ASSUME Init
  PROVE  Stable
<1>1. /\ now = Epoch /\ nextId = 0 /\ cache = Null
      /\ sockets = [s \in Sockets |-> Null] /\ frames = [s \in Sockets |-> Null]
      /\ movedAt = IF stored = NoState THEN 0 ELSE stored.updatedAt
  BY DEF Init
<1>2. /\ stored \in StoredStates /\ pin \in StoredPins /\ alarm \in Nat \union {Null}
  <2>1. CASE FreshRoom
    BY <2>1, LoadFacts, ReducerAssumption DEF FreshRoom, StoredPins
  <2>2. CASE LegacyRoom
    <3>1. PICK updatedAt \in LegacyRooms :
            stored = V1(updatedAt) /\ alarm = updatedAt + ROOM_TTL_MS
      BY <2>2 DEF LegacyRoom
    <3>2. updatedAt \in Nat
      BY InputAssumption, TimingAssumption
    <3>3. stored \in StoredStates
      BY <3>1, <3>2 DEF V1, StoredStates
    <3>4. pin \in StoredPins
      BY <2>2 DEF LegacyRoom, StoredPins
    <3> QED
      BY <3>1, <3>2, <3>3, <3>4, TimingAssumption
  <2> QED
    BY <2>1, <2>2 DEF Init
<1>3. movedAt \in Nat
  <2>1. stored = NoState \/ stored.updatedAt \in Nat
    <3>1. CASE FreshRoom
      BY <3>1 DEF FreshRoom
    <3>2. CASE LegacyRoom
      <4>1. PICK updatedAt \in LegacyRooms : stored = V1(updatedAt)
        BY <3>2 DEF LegacyRoom
      <4>2. stored.updatedAt = updatedAt
        BY <4>1 DEF V1
      <4> QED
        BY <4>2, InputAssumption, TimingAssumption
    <3> QED
      BY <3>1, <3>2 DEF Init
  <2> QED
    BY <1>1, <2>1
<1> QED
  BY <1>1, <1>2, <1>3, TimingAssumption DEF Stable, TypeOK, CacheCoherent

LEMMA NextStable ==
  ASSUME Stable, [Next]_vars
  PROVE  Stable'
<1>1. ASSUME NEW s \in Sockets,
             \/ Accept(s) \/ RefuseHello(s) \/ Join(s) \/ Leave(s)
             \/ LeaveRejected(s) \/ Ping(s) \/ Frame(s)
      PROVE  Stable'
  BY <1>1, AcceptStable, RefuseHelloStable, JoinStable, LeaveStable,
     LeaveRejectedStable, PingStable, FrameStable
<1>2. CASE AlarmTicks \/ AlarmExpires
  BY <1>2, AlarmTicksStable, AlarmExpiresStable
<1>3. CASE Hibernate \/ Restart \/ Crash \/ Tick
  BY <1>3, HibernateStable, RestartStable, CrashStable, TickStable
<1>4. CASE UNCHANGED vars
  BY <1>4 DEF vars, Stable, TypeOK, CacheCoherent
<1> QED
  BY <1>1, <1>2, <1>3, <1>4 DEF Next

\* The variables keep their types: in particular no handler, and no fault, ever
\* leaves something in storage that cannot be loaded again.
THEOREM TypeCorrect == Spec => []TypeOK
<1>1. Init => Stable
  BY InitStable
<1>2. Stable /\ [Next]_vars => Stable'
  BY NextStable
<1>3. Stable => TypeOK
  BY DEF Stable
<1> QED
  BY <1>1, <1>2, <1>3, PTL DEF Spec

\* The copy in memory is always the state in storage (loadState and
\* persistAndBroadcast): hibernation and restarts lose nothing.
THEOREM MemoryMatchesStorage == Spec => []CacheCoherent
<1>1. Init => Stable
  BY InitStable
<1>2. Stable /\ [Next]_vars => Stable'
  BY NextStable
<1>3. Stable => CacheCoherent
  BY DEF Stable
<1> QED
  BY <1>1, <1>2, <1>3, PTL DEF Spec

--------------------------------------------------------------------------------
(* The alarm is always early enough: for the tick, for the stale clear and for *)
(* every silent peer.                                                         *)

\* The stale clear of a HUD that shows something is armed.
HudArmed == ~HudEmpty(Room) => alarm # Null /\ alarm <= StaleClearAt(Room)

\* The tick that finds a peer silent is armed before it is due.
ReapArmed ==
  \A s \in Live(sockets) :
    alarm <= Later(sockets[s].lastPing + PEER_OFFLINE_MS, movedAt) + ALARM_TICK_MS

\* No ping comes from the future.
PingsArePast == \A s \in Live(sockets) : sockets[s].lastPing <= now

Punctual ==
  /\ Stable /\ TickArmed /\ HudArmed /\ HudClearedInTime
  /\ ReapArmed /\ SilentPeerReaped /\ PingsArePast

LEMMA LaterFacts ==
  \A a, b \in Nat : /\ Later(a, b) \in Nat
                    /\ Later(a, b) >= a
                    /\ Later(a, b) >= b
                    /\ \A c \in Nat : c >= a => Later(c, b) >= Later(a, b)
BY DEF Later

LEMMA LiveFacts ==
  ASSUME TypeOK, NEW s \in Live(sockets)
  PROVE  /\ s \in Sockets /\ s \in Open(sockets)
         /\ sockets[s] \in Attachments
         /\ sockets[s].lastPing \in Nat
         /\ sockets[s].closed = "no" /\ sockets[s].ready
<1>1. s \in Open(sockets) /\ sockets[s].ready
  BY DEF Live
<1>2. s \in Sockets /\ sockets[s] \in Attachments /\ sockets[s].closed = "no"
  BY <1>1, OpenFacts DEF TypeOK, SocketTable
<1> QED
  BY <1>1, <1>2 DEF Attachments

\* Where scheduleAlarm puts the alarm.
LEMMA ScheduleFacts ==
  ASSUME now \in Nat, NEW state \in RoomStates, NEW socks, ScheduleAlarm(state, socks)
  PROVE  /\ alarm' \in Nat
         /\ Live(socks) # {} => alarm' <= now + ALARM_TICK_MS
         /\ ~HudEmpty(state) => alarm' <= StaleClearAt(state)
<1>1. alarm' \in Nat
  BY ScheduleType
<1>2. state.updatedAt \in Nat /\ state.calledAt \in Nat
  BY DEF RoomStates
<1>3. StaleClearAt(state) \in Nat
  BY <1>2, TimingAssumption DEF StaleClearAt
<1>4. Live(socks) # {} => Open(socks) # {}
  BY DEF Live
<1>5. now + ALARM_TICK_MS \in Nat /\ state.updatedAt + ROOM_TTL_MS \in Nat
  BY <1>2, TimingAssumption
<1> QED
  BY <1>1, <1>3, <1>4, <1>5 DEF ScheduleAlarm, NextAlarmAt, Sooner

\* A step that leaves room, clock and alarm alone, and no peer more silent.
LEMMA PunctualKept ==
  ASSUME Punctual, Stable', Room' = Room,
         UNCHANGED <<now, alarm, movedAt>>,
         \A s \in Live(sockets') :
           /\ s \in Live(sockets)
           /\ sockets'[s].lastPing >= sockets[s].lastPing
           /\ sockets'[s].lastPing <= now
  PROVE  Punctual'
<1>1. TypeOK /\ TypeOK'
  BY DEF Punctual, Stable
<1>2. now \in Nat /\ movedAt \in Nat /\ alarm \in Nat \union {Null}
  BY <1>1 DEF TypeOK
<1>3. TickArmed'
  BY DEF Punctual, TickArmed
<1>4. HudArmed' /\ HudClearedInTime'
  BY DEF Punctual, HudArmed, HudClearedInTime, StaleClearAt
<1>5. ReapArmed' /\ SilentPeerReaped'
  <2> SUFFICES ASSUME NEW s \in Live(sockets')
               PROVE  /\ alarm' <= Later(sockets'[s].lastPing + PEER_OFFLINE_MS, movedAt')
                                     + ALARM_TICK_MS
                      /\ now' <= Later(sockets'[s].lastPing + PEER_OFFLINE_MS, movedAt')
                                   + ALARM_TICK_MS + AlarmLatency
    BY DEF ReapArmed, SilentPeerReaped
  <2> DEFINE before == sockets[s].lastPing + PEER_OFFLINE_MS
             after  == sockets'[s].lastPing + PEER_OFFLINE_MS
  <2>1. s \in Live(sockets) /\ sockets'[s].lastPing >= sockets[s].lastPing
    OBVIOUS
  <2>2. sockets[s].lastPing \in Nat
    BY <1>1, <2>1, LiveFacts
  <2>3. sockets'[s].lastPing \in Nat
    <3>1. sockets'[s] \in Attachments
      BY <1>1, OpenFacts DEF TypeOK, SocketTable, Live
    <3> QED
      BY <3>1 DEF Attachments
  <2>4. before \in Nat /\ after \in Nat /\ after >= before
    BY <2>1, <2>2, <2>3, TimingAssumption
  <2>5. /\ alarm <= Later(before, movedAt) + ALARM_TICK_MS
        /\ now <= Later(before, movedAt) + ALARM_TICK_MS + AlarmLatency
        /\ alarm \in Nat
    BY <1>2, <2>1 DEF Punctual, ReapArmed, SilentPeerReaped, TickArmed
  <2> HIDE DEF before, after
  <2>6. /\ Later(after, movedAt) \in Nat /\ Later(before, movedAt) \in Nat
        /\ Later(after, movedAt) >= Later(before, movedAt)
    BY <1>2, <2>4, LaterFacts
  <2>7. /\ alarm <= Later(after, movedAt) + ALARM_TICK_MS
        /\ now <= Later(after, movedAt) + ALARM_TICK_MS + AlarmLatency
    BY <1>2, <2>5, <2>6, TimingAssumption
  <2> QED
    BY <2>7 DEF after
<1>6. PingsArePast'
  BY DEF PingsArePast
<1> QED
  BY <1>3, <1>4, <1>5, <1>6 DEF Punctual

\* A handler that ends in scheduleAlarm, after which every peer left in the room
\* is not silent or the history says that somebody just came or went.
LEMMA PunctualRearmed ==
  ASSUME Punctual, Stable', NEW next \in RoomStates, NEW socks,
         Room' = next, sockets' = socks, now' = now,
         ScheduleAlarm(next, socks),
         ~HudEmpty(next) => ~HudEmpty(Room) /\ next.calledAt = Room.calledAt,
         \A s \in Live(socks) :
           /\ movedAt' = now \/ now <= socks[s].lastPing + PEER_OFFLINE_MS
           /\ socks[s].lastPing <= now
  PROVE  Punctual'
<1>1. TypeOK /\ TypeOK'
  BY DEF Punctual, Stable
<1>2. now \in Nat /\ movedAt' \in Nat
  BY <1>1 DEF TypeOK
<1>3. /\ alarm' \in Nat
      /\ Live(socks) # {} => alarm' <= now + ALARM_TICK_MS
      /\ ~HudEmpty(next) => alarm' <= StaleClearAt(next)
  BY <1>2, ScheduleFacts
<1>4. alarm' # Null
  BY <1>3, InputAssumption
<1>5. TickArmed'
  BY <1>3, <1>4 DEF TickArmed
<1>6. HudArmed' /\ HudClearedInTime'
  BY <1>3, <1>4 DEF Punctual, HudArmed, HudClearedInTime, StaleClearAt
<1>7. ReapArmed' /\ SilentPeerReaped'
  <2> SUFFICES ASSUME NEW s \in Live(socks)
               PROVE  /\ alarm' <= Later(socks[s].lastPing + PEER_OFFLINE_MS, movedAt')
                                     + ALARM_TICK_MS
                      /\ now <= Later(socks[s].lastPing + PEER_OFFLINE_MS, movedAt')
                                  + ALARM_TICK_MS + AlarmLatency
    BY DEF ReapArmed, SilentPeerReaped
  <2> DEFINE due == socks[s].lastPing + PEER_OFFLINE_MS
  <2>1. socks[s].lastPing \in Nat
    <3>1. socks[s] \in Attachments
      BY <1>1, OpenFacts DEF TypeOK, SocketTable, Live
    <3> QED
      BY <3>1 DEF Attachments
  <2>2. due \in Nat /\ (movedAt' = now \/ now <= due)
    BY <2>1, TimingAssumption
  <2> HIDE DEF due
  <2>3. Later(due, movedAt') \in Nat /\ now <= Later(due, movedAt')
    <3>1. /\ Later(due, movedAt') \in Nat
          /\ Later(due, movedAt') >= due /\ Later(due, movedAt') >= movedAt'
      BY <1>2, <2>2, LaterFacts
    <3> QED
      BY <1>2, <2>2, <3>1
  <2>4. alarm' <= now + ALARM_TICK_MS
    BY <1>3
  <2>5. /\ alarm' <= Later(due, movedAt') + ALARM_TICK_MS
        /\ now <= Later(due, movedAt') + ALARM_TICK_MS + AlarmLatency
    BY <1>2, <1>3, <2>3, <2>4, TimingAssumption
  <2> QED
    BY <2>5 DEF due
<1>8. PingsArePast'
  BY DEF PingsArePast
<1> QED
  BY <1>5, <1>6, <1>7, <1>8 DEF Punctual

\* Who is in the room once s has joined: those that were, but no other driver
\* when s is one.
LEMMA JoinedFacts ==
  ASSUME TypeOK, NEW s \in Open(sockets), NEW r \in Live(Joined(s))
  PROVE  /\ r \in Sockets
         /\ r = s => /\ Joined(s)[r].lastPing = now
                     /\ Joined(s)[r].role = sockets[s].role
                     /\ Joined(s)[r].token = sockets[s].token
         /\ r # s => /\ r \in Live(sockets) /\ Joined(s)[r] = sockets[r]
                     /\ ~(sockets[s].role = "driver" /\ sockets[r].role = "driver")
<1>1. /\ r \in Sockets /\ Joined(s)[r] # Null
      /\ Joined(s)[r].closed = "no" /\ Joined(s)[r].ready
  BY DEF Live, Open
<1>2. s \in Sockets /\ sockets[s] \in Attachments
  BY OpenFacts DEF TypeOK, SocketTable
<1>3. CASE r = s
  <2>1. Joined(s)[r] = [sockets[s] EXCEPT !.ready = TRUE, !.lastPing = now]
    BY <1>2, <1>3 DEF Joined
  <2> QED
    BY <1>2, <1>3, <2>1 DEF Attachments
<1>4. CASE r # s
  <2>1. CASE sockets[s].role = "driver" /\ r \in Live(sockets) /\ sockets[r].role = "driver"
    <3>1. Joined(s)[r] = [sockets[r] EXCEPT !.closed = "driver_evicted"]
      BY <1>1, <1>4, <2>1 DEF Joined
    <3>2. sockets[r] \in Attachments
      BY <2>1, LiveFacts
    <3>3. Joined(s)[r].closed = "driver_evicted"
      BY <3>1, <3>2 DEF Attachments
    <3> QED
      BY <1>1, <3>3
  <2>2. CASE ~(sockets[s].role = "driver" /\ r \in Live(sockets) /\ sockets[r].role = "driver")
    <3>1. Joined(s)[r] = sockets[r]
      BY <1>1, <1>4, <2>2 DEF Joined
    <3>2. r \in Live(sockets)
      BY <1>1, <3>1 DEF Live, Open
    <3> QED
      BY <1>1, <1>4, <2>2, <3>1, <3>2
  <2> QED
    BY <2>1, <2>2
<1> QED
  BY <1>1, <1>3, <1>4

LEMMA JoinPunctual ==
  ASSUME Punctual, NEW s \in Sockets, Join(s)
  PROVE  Punctual'
<1> DEFINE next == ReconcilePeers(Room, Joined(s))
<1>1. Stable /\ Room \in RoomStates /\ now \in Nat
  BY RoomType, ReducerAssumption DEF Punctual, Stable, TypeOK
<1>2. Stable' /\ Room' = next
  BY <1>1, JoinStable
<1>3. /\ sockets' = Joined(s) /\ ScheduleAlarm(next, Joined(s))
      /\ movedAt' = now /\ now' = now
  BY DEF Join
<1>4. /\ next \in RoomStates
      /\ ~HudEmpty(next) => ~HudEmpty(Room) /\ next.calledAt = Room.calledAt
  BY <1>1, ReconcileFacts
<1>5. \A r \in Live(Joined(s)) : Joined(s)[r].lastPing <= now
  BY <1>1, JoinedFacts DEF Punctual, PingsArePast, Stable, Join, MayJoin
<1> HIDE DEF next
<1> QED
  BY <1>2, <1>3, <1>4, <1>5, PunctualRearmed

\* Who is in the room once s is gone: those that were, but s.
LEMMA WithoutFacts ==
  ASSUME TypeOK, NEW s, NEW r \in Live(Without(s))
  PROVE  r \in Live(sockets) /\ r # s /\ Without(s)[r] = sockets[r]
<1>1. r \in Sockets /\ Without(s)[r] # Null
  BY DEF Live, Open
<1>2. Without(s)[r] = sockets[r] /\ r # s
  BY <1>1 DEF Without, TypeOK
<1> QED
  BY <1>2 DEF Live, Open

LEMMA LeavePunctual ==
  ASSUME Punctual, NEW s \in Sockets, Leave(s)
  PROVE  Punctual'
<1> DEFINE next == AfterLeave(s)
<1>1. Stable /\ Room \in RoomStates /\ now \in Nat
  BY RoomType, ReducerAssumption DEF Punctual, Stable, TypeOK
<1>2. Stable' /\ Room' = next
  BY <1>1, LeaveStable
<1>3. /\ sockets' = Without(s) /\ ScheduleAlarm(next, Without(s))
      /\ movedAt' = (IF Live(sockets) # {} THEN now ELSE movedAt) /\ now' = now
  BY DEF Leave, AfterLeave
<1>4. /\ next \in RoomStates
      /\ ~HudEmpty(next) => ~HudEmpty(Room) /\ next.calledAt = Room.calledAt
  BY <1>1, ReconcileFacts DEF AfterLeave
<1>5. \A r \in Live(Without(s)) :
        r \in Live(sockets) /\ Without(s)[r].lastPing <= now
  BY <1>1, WithoutFacts DEF Punctual, PingsArePast, Stable
<1> HIDE DEF next
<1> QED
  BY <1>2, <1>3, <1>4, <1>5, PunctualRearmed

\* Only a peer that is not silent survives the alarm.
LEMMA ReapedFacts ==
  ASSUME TypeOK, NEW s \in Live(Reaped)
  PROVE  /\ s \in Live(sockets) /\ Reaped[s] = sockets[s]
         /\ now <= sockets[s].lastPing + PEER_OFFLINE_MS
<1>1. s \in Sockets /\ Reaped[s] # Null /\ Reaped[s].closed = "no" /\ Reaped[s].ready
  BY DEF Live, Open
<1>2. Reaped \in SocketTable
  BY SocketTypes
<1>3. s \notin Silent
  <2> SUFFICES ASSUME s \in Silent PROVE FALSE
    OBVIOUS
  <2>1. sockets[s] \in Attachments
    BY OpenFacts DEF Silent, TypeOK, SocketTable
  <2>2. Reaped[s].closed = "silent_peer"
    BY <1>1, <2>1 DEF Reaped, Attachments
  <2> QED
    BY <1>1, <2>2
<1>4. Reaped[s] = sockets[s]
  BY <1>1, <1>3 DEF Reaped
<1>5. s \in Live(sockets)
  BY <1>1, <1>4 DEF Live, Open
<1>6. sockets[s].lastPing \in Nat /\ s \in Open(sockets) /\ now \in Nat
  BY <1>5, LiveFacts DEF TypeOK
<1>7. ~(now - sockets[s].lastPing > PEER_OFFLINE_MS)
  BY <1>3, <1>6 DEF Silent
<1> QED
  BY <1>4, <1>5, <1>6, <1>7, TimingAssumption

\* What the alarm leaves on the HUD is not stale yet.
LEMMA AlarmFacts ==
  ASSUME Stable
  PROVE  /\ HudEmpty(AfterReaping) <=> HudEmpty(Room)
         /\ AfterReaping.calledAt = Room.calledAt
         /\ ~HudEmpty(AfterStaleClear) =>
              /\ ~HudEmpty(Room) /\ AfterStaleClear.calledAt = Room.calledAt
<1>1. Room \in RoomStates /\ now \in Nat
  BY RoomType, ReducerAssumption DEF Stable, TypeOK
<1>2. AfterReaping \in RoomStates
  BY AlarmStates DEF Stable
<1>3. /\ HudEmpty(AfterReaping) <=> HudEmpty(Room)
      /\ AfterReaping.calledAt = Room.calledAt
  BY <1>1, ReconcileFacts DEF AfterReaping
<1>4. HudEmpty(ReduceStale(AfterReaping, now))
  BY <1>1, <1>2, StaleFacts, ReducerAssumption
<1> QED
  BY <1>3, <1>4 DEF AfterStaleClear

LEMMA AlarmTicksPunctual ==
  ASSUME Punctual, AlarmTicks
  PROVE  Punctual'
<1>1. Stable /\ TypeOK
  BY DEF Punctual, Stable
<1>2. Stable' /\ Room' = AfterStaleClear
  BY <1>1, AlarmTicksStable
<1>3. sockets' = Reaped /\ ScheduleAlarm(AfterStaleClear, Reaped) /\ now' = now
  BY DEF AlarmTicks
<1>4. AfterStaleClear \in RoomStates
  BY <1>1, AlarmStates
<1>5. ~HudEmpty(AfterStaleClear) =>
        ~HudEmpty(Room) /\ AfterStaleClear.calledAt = Room.calledAt
  BY <1>1, AlarmFacts
<1>6. \A s \in Live(Reaped) : /\ now <= Reaped[s].lastPing + PEER_OFFLINE_MS
                              /\ Reaped[s].lastPing <= now
  BY <1>1, ReapedFacts DEF Punctual, PingsArePast
<1> QED
  BY <1>2, <1>3, <1>4, <1>5, <1>6, PunctualRearmed

LEMMA AlarmExpiresPunctual ==
  ASSUME Punctual, AlarmExpires
  PROVE  Punctual'
<1>1. Stable' /\ Room' = InitialState
  BY AlarmExpiresStable DEF Punctual
<1>2. Live(sockets') = {}
  BY DEF AlarmExpires, RoomExpired, Live
<1>3. HudEmpty(InitialState)
  BY InitialStateType, ReducerAssumption
<1>4. HudEmpty(Room')
  BY <1>1, <1>3
<1>5. HudArmed' /\ HudClearedInTime'
  BY <1>4 DEF HudArmed, HudClearedInTime, HudEmpty
<1>6. TickArmed' /\ ReapArmed' /\ SilentPeerReaped' /\ PingsArePast'
  BY <1>2 DEF TickArmed, ReapArmed, SilentPeerReaped, PingsArePast
<1> QED
  BY <1>1, <1>5, <1>6 DEF Punctual

\* A frame pulls the alarm earlier or leaves it; a call restarts the window.
LEMMA FramePunctual ==
  ASSUME Punctual, NEW s \in Sockets, Frame(s)
  PROVE  Punctual'
<1>1. Stable /\ TypeOK /\ s \in Live(sockets)
  BY DEF Punctual, Stable, Frame
<1>2. PICK next \in Outcomes(s) :
        /\ Persist(next)
        /\ alarm' = IF next = Room THEN alarm ELSE EarlierAlarmAt(alarm, next)
  BY DEF Frame
<1>3. /\ DataFacts(Room, next, now) /\ next \in RoomStates
      /\ Room \in RoomStates /\ now \in Nat /\ movedAt \in Nat
  BY <1>1, OutcomeFacts, RoomType, ReducerAssumption DEF DataFacts, TypeOK
<1>4. Room' = next /\ Stable'
  BY <1>1, <1>2, <1>3, PersistFacts, FrameStable, ReducerAssumption, InputAssumption
     DEF Persist, Stable
<1>5. UNCHANGED <<now, sockets, movedAt>>
  BY DEF Frame
<1>6. alarm \in Nat /\ alarm # Null /\ alarm <= now + ALARM_TICK_MS
  BY <1>1 DEF Punctual, TickArmed, TypeOK
<1>7. Room.calledAt \in Nat /\ next.calledAt \in Nat /\ StaleClearAt(next) \in Nat
  BY <1>3, TimingAssumption DEF RoomStates, StaleClearAt
<1>8. alarm' \in Nat /\ alarm' <= alarm
  BY <1>2, <1>6, <1>7 DEF EarlierAlarmAt
<1>9. alarm' # Null
  BY <1>8, InputAssumption
<1>10. HudArmed'
  <2>1. ~HudEmpty(next) => alarm' <= StaleClearAt(next)
    <3>1. CASE next = Room
      BY <1>2, <3>1 DEF Punctual, HudArmed
    <3>2. CASE next # Room
      BY <1>2, <1>6, <1>7, <3>2 DEF EarlierAlarmAt
    <3> QED
      BY <3>1, <3>2
  <2> QED
    BY <1>4, <1>9, <2>1 DEF HudArmed, StaleClearAt
<1>11. HudClearedInTime'
  <2>1. ~HudEmpty(next) => now <= next.calledAt + HUD_STALE_CLEAR_MS + AlarmLatency
    BY <1>3, <1>7, TimingAssumption DEF DataFacts, Punctual, HudClearedInTime
  <2> QED
    BY <1>4, <1>5, <2>1 DEF HudClearedInTime
<1>12. TickArmed'
  <2>1. alarm' <= now + ALARM_TICK_MS
    BY <1>3, <1>6, <1>8, TimingAssumption
  <2> QED
    BY <1>5, <1>9, <2>1 DEF TickArmed
<1>13. ReapArmed' /\ SilentPeerReaped'
  <2>1. SilentPeerReaped'
    BY <1>5 DEF Punctual, SilentPeerReaped
  <2>2. ASSUME NEW r \in Live(sockets)
        PROVE  alarm' <= Later(sockets[r].lastPing + PEER_OFFLINE_MS, movedAt)
                           + ALARM_TICK_MS
    <3>1. sockets[r].lastPing + PEER_OFFLINE_MS \in Nat
      BY <1>1, LiveFacts, TimingAssumption
    <3>2. Later(sockets[r].lastPing + PEER_OFFLINE_MS, movedAt) \in Nat
      BY <1>3, <3>1, LaterFacts
    <3>3. alarm <= Later(sockets[r].lastPing + PEER_OFFLINE_MS, movedAt) + ALARM_TICK_MS
      BY DEF Punctual, ReapArmed
    <3> QED
      BY <1>6, <1>8, <3>2, <3>3, TimingAssumption
  <2> QED
    BY <1>5, <2>1, <2>2 DEF ReapArmed
<1>14. PingsArePast'
  BY <1>5 DEF Punctual, PingsArePast
<1> QED
  BY <1>4, <1>10, <1>11, <1>12, <1>13, <1>14 DEF Punctual

\* A restart empties the room: only the stale clear has to stay armed, and the
\* alarm that was armed for the tick is early enough for a call just stored.
LEMMA RestartPunctual ==
  ASSUME Punctual, Restart
  PROVE  Punctual'
<1>1. Stable' /\ Room' = Room /\ UNCHANGED <<now, alarm>>
  BY RestartStable DEF Punctual, Restart
<1>2. Live(sockets') = {}
  BY RestartedTypes DEF Punctual, Stable, Restart
<1>3. HudArmed' /\ HudClearedInTime'
  BY <1>1 DEF Punctual, HudArmed, HudClearedInTime, StaleClearAt
<1>4. TickArmed' /\ ReapArmed' /\ SilentPeerReaped' /\ PingsArePast'
  BY <1>2 DEF TickArmed, ReapArmed, SilentPeerReaped, PingsArePast
<1> QED
  BY <1>1, <1>3, <1>4 DEF Punctual

LEMMA CrashPunctual ==
  ASSUME Punctual, Crash
  PROVE  Punctual'
<1>1. Stable /\ TypeOK /\ Room \in RoomStates /\ now \in Nat
  BY RoomType, ReducerAssumption DEF Punctual, Stable, TypeOK
<1>2. PICK next \in RoomStates :
        /\ CrashWrites(next)
        /\ \/ \E socks : next = ReconcilePeers(Room, socks)
           \/ next = Room
           \/ \E s \in Live(sockets) : next \in Outcomes(s)
           \/ next = AfterReaping
           \/ next = AfterStaleClear
           \/ next = InitialState
  BY <1>1, CrashCases
<1>3. UNCHANGED <<now, alarm>> /\ cache' = Null /\ Live(sockets') = {}
  BY <1>1, RestartedTypes DEF Crash
<1>4. Stable' /\ Room' = next
  BY <1>1, <1>2, <1>3, CrashStable, CrashFacts, ReducerAssumption DEF CrashWrites, Stable
<1>5. ASSUME ~HudEmpty(next)
      PROVE  /\ alarm # Null /\ alarm <= StaleClearAt(next)
             /\ now <= next.calledAt + HUD_STALE_CLEAR_MS + AlarmLatency
  <2>1. next.calledAt \in Nat /\ Room.calledAt \in Nat
    BY <1>1 DEF RoomStates
  <2>2. CASE ~HudEmpty(Room) /\ next.calledAt = Room.calledAt
    BY <2>2 DEF Punctual, HudArmed, HudClearedInTime, StaleClearAt
  <2>3. CASE Live(sockets) # {} /\ next.calledAt >= now
    <3>1. alarm \in Nat /\ alarm # Null /\ alarm <= now + ALARM_TICK_MS
      BY <1>1, <2>3 DEF Punctual, TickArmed, TypeOK
    <3> QED
      BY <1>1, <2>1, <2>3, <3>1, TimingAssumption DEF StaleClearAt
  <2>4. CASE \E socks : next = ReconcilePeers(Room, socks)
    BY <1>1, <1>5, <2>2, <2>4, ReconcileFacts
  <2>5. CASE next = Room
    BY <1>5, <2>2, <2>5
  <2>6. CASE \E s \in Live(sockets) : next \in Outcomes(s)
    <3>1. DataFacts(Room, next, now) /\ Live(sockets) # {}
      BY <1>1, <2>6, OutcomeFacts
    <3> QED
      BY <1>5, <2>2, <2>3, <3>1 DEF DataFacts
  <2>7. CASE next = AfterReaping \/ next = AfterStaleClear
    BY <1>1, <1>5, <2>2, <2>7, AlarmFacts
  <2>8. CASE next = InitialState
    BY <1>5, <2>8, InitialStateType, ReducerAssumption
  <2> QED
    BY <1>2, <2>4, <2>5, <2>6, <2>7, <2>8
<1>6. HudArmed' /\ HudClearedInTime'
  BY <1>3, <1>4, <1>5 DEF HudArmed, HudClearedInTime, StaleClearAt
<1>7. TickArmed' /\ ReapArmed' /\ SilentPeerReaped' /\ PingsArePast'
  BY <1>3 DEF TickArmed, ReapArmed, SilentPeerReaped, PingsArePast
<1> QED
  BY <1>4, <1>6, <1>7 DEF Punctual

\* The clock does not run away from a due alarm.
LEMMA TickPunctual ==
  ASSUME Punctual, Tick
  PROVE  Punctual'
<1>1. Stable' /\ Room' = Room /\ TypeOK /\ Room \in RoomStates
  BY TickStable, RoomType, ReducerAssumption DEF Punctual, Stable
<1>2. /\ now' = now + 1
      /\ alarm # Null => now < alarm + AlarmLatency
      /\ UNCHANGED <<sockets, alarm, movedAt>>
  BY DEF Tick
<1>3. now \in Nat /\ movedAt \in Nat /\ alarm \in Nat \union {Null} /\ Room.calledAt \in Nat
  BY <1>1 DEF TypeOK, RoomStates
<1>4. TickArmed'
  BY <1>2, <1>3, TimingAssumption DEF Punctual, TickArmed
<1>5. HudArmed'
  BY <1>1, <1>2 DEF Punctual, HudArmed, StaleClearAt
<1>6. HudClearedInTime'
  <2>1. ~HudEmpty(Room) => now + 1 <= Room.calledAt + HUD_STALE_CLEAR_MS + AlarmLatency
    BY <1>2, <1>3, TimingAssumption DEF Punctual, HudArmed, StaleClearAt
  <2> QED
    BY <1>1, <1>2, <2>1 DEF HudClearedInTime
<1>7. ReapArmed'
  BY <1>2 DEF Punctual, ReapArmed
<1>8. SilentPeerReaped'
  <2>1. ASSUME NEW s \in Live(sockets)
        PROVE  now + 1 <= Later(sockets[s].lastPing + PEER_OFFLINE_MS, movedAt)
                            + ALARM_TICK_MS + AlarmLatency
    <3> DEFINE due == Later(sockets[s].lastPing + PEER_OFFLINE_MS, movedAt)
    <3>1. sockets[s].lastPing + PEER_OFFLINE_MS \in Nat
      BY <1>1, LiveFacts, TimingAssumption
    <3>2. due \in Nat
      BY <1>3, <3>1, LaterFacts
    <3>3. alarm \in Nat /\ alarm # Null /\ alarm <= due + ALARM_TICK_MS
      BY <1>3 DEF Punctual, TickArmed, ReapArmed
    <3> HIDE DEF due
    <3>4. now + 1 <= due + ALARM_TICK_MS + AlarmLatency
      BY <1>2, <1>3, <3>2, <3>3, TimingAssumption
    <3> QED
      BY <3>4 DEF due
  <2> QED
    BY <1>2, <2>1 DEF SilentPeerReaped
<1>9. PingsArePast'
  <2>1. ASSUME NEW s \in Live(sockets)
        PROVE  sockets[s].lastPing <= now + 1
    BY <1>1, <1>3, LiveFacts DEF Punctual, PingsArePast
  <2> QED
    BY <1>2, <2>1 DEF PingsArePast
<1> QED
  BY <1>1, <1>4, <1>5, <1>6, <1>7, <1>8, <1>9 DEF Punctual

LEMMA SocketOnlyPunctual ==
  ASSUME Punctual, NEW s \in Sockets,
         Accept(s) \/ RefuseHello(s) \/ LeaveRejected(s) \/ Ping(s)
  PROVE  Punctual'
<1>1. Stable /\ TypeOK /\ sockets \in SocketTable /\ now \in Nat
  BY DEF Punctual, Stable, TypeOK, SocketTable
<1>2. Stable' /\ Room' = Room
  BY <1>1, AcceptStable, RefuseHelloStable, LeaveRejectedStable, PingStable
<1>3. UNCHANGED <<now, alarm, movedAt>>
  BY DEF Accept, RefuseHello, LeaveRejected, Ping
<1>4. ASSUME NEW r \in Live(sockets')
      PROVE  /\ r \in Live(sockets)
             /\ sockets'[r].lastPing >= sockets[r].lastPing
             /\ sockets'[r].lastPing <= now
  <2>1. /\ r \in Sockets
        /\ sockets'[r] # Null /\ sockets'[r].closed = "no" /\ sockets'[r].ready
    BY DEF Live, Open
  <2>2. CASE sockets'[r] = sockets[r]
    <3>1. r \in Live(sockets)
      BY <2>1, <2>2 DEF Live, Open
    <3>2. sockets[r].lastPing \in Nat
      BY <1>1, <3>1, LiveFacts
    <3>3. sockets[r].lastPing <= now
      BY <3>1 DEF Punctual, PingsArePast
    <3> QED
      BY <2>2, <3>1, <3>2, <3>3
  <2>3. CASE sockets'[r] # sockets[r]
    <3>1. CASE Accept(s)
      BY <1>1, <2>1, <2>3, <3>1 DEF Accept, SocketTable
    <3>2. CASE RefuseHello(s)
      <4>1. PICK code \in CloseCodes : sockets' = Close(s, code)
        BY <3>2 DEF RefuseHello, CloseCodes
      <4>2. s \in Open(sockets)
        BY <3>2 DEF RefuseHello
      <4>3. r = s /\ sockets[s] \in Attachments
        BY <1>1, <2>1, <2>3, <4>1, <4>2, OpenFacts DEF Close, SocketTable
      <4>4. sockets'[s].closed = code /\ code # "no"
        BY <1>1, <4>1, <4>3 DEF Close, SocketTable, Attachments, CloseCodes
      <4> QED
        BY <2>1, <4>3, <4>4
    <3>3. CASE LeaveRejected(s)
      BY <1>1, <2>1, <2>3, <3>3 DEF LeaveRejected, Without, SocketTable
    <3>4. CASE Ping(s)
      <4>1. /\ s \in Live(sockets)
            /\ sockets' = [sockets EXCEPT ![s].lastPing = now]
        BY <3>4 DEF Ping
      <4>2. r = s
        BY <1>1, <2>1, <2>3, <4>1 DEF SocketTable
      <4>3. sockets[s] \in Attachments
        BY <1>1, <4>1, LiveFacts
      <4>4. sockets'[s].lastPing = now
        BY <1>1, <4>1, <4>3 DEF SocketTable, Attachments
      <4>5. now >= sockets[s].lastPing
        BY <1>1, <4>1, LiveFacts DEF Punctual, PingsArePast
      <4> QED
        BY <1>1, <4>1, <4>2, <4>4, <4>5
    <3> QED
      BY <3>1, <3>2, <3>3, <3>4
  <2> QED
    BY <2>2, <2>3
<1> QED
  BY <1>2, <1>3, <1>4, PunctualKept

LEMMA InitPunctual ==
  ASSUME Init
  PROVE  Punctual
<1>1. Stable
  BY InitStable
<1>2. Live(sockets) = {}
  BY DEF Init, Live, Open
<1>3. HudEmpty(Room)
  <2>1. cache = Null /\ (stored = NoState \/ \E updatedAt \in LegacyRooms : stored = V1(updatedAt))
    BY DEF Init, FreshRoom, LegacyRoom
  <2>2. CASE stored = NoState
    BY <2>1, <2>2, InitialStateType, ReducerAssumption DEF Room, Load, NoState
  <2>3. CASE \E updatedAt \in LegacyRooms : stored = V1(updatedAt)
    <3>1. Room = [InitialState EXCEPT !.updatedAt = stored.updatedAt]
      BY <2>1, <2>3 DEF Room, Load, V1
    <3> QED
      BY <3>1, InitialStateType, ReducerAssumption DEF HudEmpty, InitialState
  <2> QED
    BY <2>1, <2>2, <2>3
<1> QED
  BY <1>1, <1>2, <1>3
     DEF Punctual, TickArmed, HudArmed, HudClearedInTime, ReapArmed, SilentPeerReaped,
         PingsArePast

LEMMA NextPunctual ==
  ASSUME Punctual, [Next]_vars
  PROVE  Punctual'
<1>1. ASSUME NEW s \in Sockets,
             \/ Accept(s) \/ RefuseHello(s) \/ LeaveRejected(s) \/ Ping(s)
             \/ Join(s) \/ Leave(s) \/ Frame(s)
      PROVE  Punctual'
  BY <1>1, SocketOnlyPunctual, JoinPunctual, LeavePunctual, FramePunctual
<1>2. CASE AlarmTicks \/ AlarmExpires
  BY <1>2, AlarmTicksPunctual, AlarmExpiresPunctual
<1>3. CASE Restart \/ Crash \/ Tick
  BY <1>3, RestartPunctual, CrashPunctual, TickPunctual
<1>4. CASE Hibernate
  <2>1. Stable' /\ Room' = Room
    BY <1>4, HibernateStable DEF Punctual
  <2>2. UNCHANGED <<now, sockets, alarm, movedAt>>
    BY <1>4 DEF Hibernate
  <2> QED
    BY <2>1, <2>2
       DEF Punctual, TickArmed, HudArmed, HudClearedInTime, StaleClearAt, ReapArmed,
           SilentPeerReaped, PingsArePast
<1>5. CASE UNCHANGED vars
  <2>1. Stable'
    BY <1>5, NextStable DEF Punctual
  <2>2. UNCHANGED <<now, sockets, alarm, movedAt>> /\ Room' = Room
    BY <1>5 DEF vars, Room
  <2> QED
    BY <2>1, <2>2
       DEF Punctual, TickArmed, HudArmed, HudClearedInTime, StaleClearAt, ReapArmed,
           SilentPeerReaped, PingsArePast
<1> QED
  BY <1>1, <1>2, <1>3, <1>4, <1>5 DEF Next

\* A call leaves the HUD HUD_STALE_CLEAR_MS after it was made at the latest,
\* whatever acks, presence flips, restarts and crashes fall in between (alarm.ts).
THEOREM HudIsClearedInTime == Spec => []HudClearedInTime
<1>1. Init => Punctual
  BY InitPunctual
<1>2. Punctual /\ [Next]_vars => Punctual'
  BY NextPunctual
<1>3. Punctual => HudClearedInTime
  BY DEF Punctual
<1> QED
  BY <1>1, <1>2, <1>3, PTL DEF Spec

\* While somebody is in the room the next alarm is at most a tick away, so silent
\* peers are looked for (scheduleAlarm).
THEOREM TickIsArmed == Spec => []TickArmed
<1>1. Init => Punctual
  BY InitPunctual
<1>2. Punctual /\ [Next]_vars => Punctual'
  BY NextPunctual
<1>3. Punctual => TickArmed
  BY DEF Punctual
<1> QED
  BY <1>1, <1>2, <1>3, PTL DEF Spec

\* A silent peer is out of the room a tick after PEER_OFFLINE_MS, or a tick after
\* the last arrival or departure (reapSilentPeers).
THEOREM SilentPeersAreReaped == Spec => []SilentPeerReaped
<1>1. Init => Punctual
  BY InitPunctual
<1>2. Punctual /\ [Next]_vars => Punctual'
  BY NextPunctual
<1>3. Punctual => SilentPeerReaped
  BY DEF Punctual
<1> QED
  BY <1>1, <1>2, <1>3, PTL DEF Spec

--------------------------------------------------------------------------------
(* Who is in the room, what it is told of them, and what each socket was      *)
(* sent: the invariants that relate the table of sockets to the state, the    *)
(* PIN and the frames.                                                        *)

\* A state that tells of a peer is not the initial one.
Counted(state) == (\E role \in Roles : state.online[role]) => state.seq > 0

\* Only joined sockets have been sent anything.
FramesAreLive == \A s \in Sockets : frames[s] # Null => s \in Live(sockets)

\* Inductive: one driver because every joiner evicts, presence because whoever
\* changes the table reconciles, equal frames because whoever changes the state
\* broadcasts, and a seq above 0 because the joiner's own flag was raised.
Faithful ==
  /\ Stable
  /\ PresenceMatchesSockets
  /\ OneDriver
  /\ PinGuardsRoom
  /\ LiveSocketsShareTheRoom
  /\ FramesAreLive
  /\ FramesPassTheSeqGate
  /\ Counted(Room)

\* Where a handler can take the room: nowhere, or to a higher seq.
Advances(next) == next \in RoomStates /\ (next = Room \/ next.seq > Room.seq)

LEMMA AdvancesCounted ==
  ASSUME Faithful, NEW next, Advances(next)
  PROVE  Counted(next) /\ (next # Room => next.seq > 0)
<1>1. Room \in RoomStates
  BY RoomType, ReducerAssumption DEF Faithful, Stable
<1>2. Room.seq \in Nat /\ next.seq \in Nat
  BY <1>1 DEF Advances, RoomStates
<1> QED
  BY <1>2 DEF Advances, Counted, Faithful

\* reconcilePeers, frames and the stale clear only ever advance the room.
LEMMA ReconcileAdvances ==
  ASSUME Stable, NEW socks
  PROVE  Advances(ReconcilePeers(Room, socks))
<1>1. Room \in RoomStates /\ now \in Nat
  BY RoomType, ReducerAssumption DEF Stable, TypeOK
<1> QED
  BY <1>1, ReconcileFacts DEF Advances

LEMMA OutcomeAdvances ==
  ASSUME Stable, NEW s, NEW next \in Outcomes(s)
  PROVE  Advances(next) /\ next.online = Room.online
BY OutcomeFacts DEF Advances, DataFacts, Stable

LEMMA AlarmAdvances ==
  ASSUME Stable
  PROVE  /\ Advances(AfterReaping) /\ Advances(AfterStaleClear)
         /\ AfterStaleClear.online = AfterReaping.online
<1>1. Room \in RoomStates /\ now \in Nat
  BY RoomType, ReducerAssumption DEF Stable, TypeOK
<1>2. Advances(AfterReaping)
  BY <1>1, ReconcileAdvances DEF AfterReaping, Advances
<1>3. AfterReaping \in RoomStates /\ AfterStaleClear \in RoomStates
  BY AlarmStates DEF Stable
<1>4. /\ AfterStaleClear = AfterReaping \/ AfterStaleClear.seq > AfterReaping.seq
      /\ AfterStaleClear.online = AfterReaping.online
  BY <1>1, <1>3, StaleFacts, ReducerAssumption DEF AfterStaleClear
<1>5. Room.seq \in Nat /\ AfterReaping.seq \in Nat /\ AfterStaleClear.seq \in Nat
  BY <1>1, <1>3 DEF RoomStates
<1>6. Advances(AfterStaleClear)
  BY <1>2, <1>3, <1>4, <1>5 DEF Advances
<1> QED
  BY <1>2, <1>4, <1>6

--------------------------------------------------------------------------------
(* Steps that change nobody's membership.                                     *)

\* A step after which the same peers are joined, with the roles and tokens they
\* had, and nothing was changed or sent.
LEMMA FaithfulKept ==
  ASSUME Faithful, Stable', Room' = Room, UNCHANGED <<pin, frames>>,
         Live(sockets') = Live(sockets),
         \A s \in Live(sockets) : /\ sockets'[s].role = sockets[s].role
                                  /\ sockets'[s].token = sockets[s].token
  PROVE  Faithful'
<1>1. \A role : HasReadyPeer(sockets', role) <=> HasReadyPeer(sockets, role)
  BY DEF HasReadyPeer
<1>2. PresenceMatchesSockets'
  BY <1>1 DEF Faithful, PresenceMatchesSockets, HasReadyPeer
<1>3. OneDriver' /\ PinGuardsRoom'
  BY DEF Faithful, OneDriver, PinGuardsRoom
<1>4. LiveSocketsShareTheRoom' /\ FramesAreLive' /\ FramesPassTheSeqGate' /\ Counted(Room)'
  BY DEF Faithful, LiveSocketsShareTheRoom, FramesAreLive, FramesPassTheSeqGate, Counted
<1> QED
  BY <1>2, <1>3, <1>4 DEF Faithful

\* Sockets that are accepted, refused, dropped after a rejection or ping: nobody
\* joins or leaves, and nobody's role or token changes.
LEMMA SocketOnlyPeers ==
  ASSUME Stable, NEW s \in Sockets,
         Accept(s) \/ RefuseHello(s) \/ LeaveRejected(s) \/ Ping(s)
  PROVE  /\ Live(sockets') = Live(sockets)
         /\ \A r \in Live(sockets) : /\ sockets'[r].role = sockets[r].role
                                     /\ sockets'[r].token = sockets[r].token
<1>1. Stable /\ sockets \in SocketTable
  BY DEF Stable, TypeOK, SocketTable
<1>2. \A r \in Sockets : r # s => sockets'[r] = sockets[r]
  BY <1>1 DEF Accept, RefuseHello, LeaveRejected, Ping, Close, Without, SocketTable
<1>3. /\ s \in Live(sockets') <=> s \in Live(sockets)
      /\ s \in Live(sockets) => /\ sockets'[s].role = sockets[s].role
                                /\ sockets'[s].token = sockets[s].token
  <2>1. CASE Accept(s)
    BY <1>1, <2>1 DEF Accept, Live, Open, SocketTable
  <2>2. CASE RefuseHello(s)
    <3>1. PICK code \in CloseCodes : sockets' = Close(s, code)
      BY <2>2 DEF RefuseHello, CloseCodes
    <3>2. s \notin Live(sockets) /\ sockets[s] \in Attachments
      BY <1>1, <2>2, OpenFacts DEF RefuseHello
    <3>3. sockets'[s].closed = code /\ code # "no"
      BY <1>1, <3>1, <3>2 DEF Close, SocketTable, Attachments, CloseCodes
    <3> QED
      BY <3>2, <3>3 DEF Live, Open
  <2>3. CASE LeaveRejected(s)
    BY <1>1, <2>3 DEF LeaveRejected, Without, Live, Open, SocketTable
  <2>4. CASE Ping(s)
    <3>1. sockets' = [sockets EXCEPT ![s].lastPing = now] /\ s \in Live(sockets)
      BY <2>4 DEF Ping
    <3>2. sockets[s] \in Attachments
      BY <1>1, <3>1, OpenFacts DEF Live
    <3>3. sockets'[s] = [sockets[s] EXCEPT !.lastPing = now]
      BY <1>1, <3>1 DEF SocketTable
    <3>4. /\ sockets'[s] \in Attachments
          /\ sockets'[s].role = sockets[s].role /\ sockets'[s].token = sockets[s].token
          /\ sockets'[s].ready = sockets[s].ready /\ sockets'[s].closed = sockets[s].closed
      BY <1>1, <3>2, <3>3 DEF Attachments, Stable, TypeOK
    <3>5. sockets'[s] # Null
      BY <3>4, UrlAssumption
    <3> QED
      BY <3>1, <3>4, <3>5 DEF Live, Open
  <2> QED
    BY <2>1, <2>2, <2>3, <2>4
<1>4. Live(sockets') = Live(sockets)
  BY <1>2, <1>3 DEF Live, Open
<1>5. \A r \in Live(sockets) : /\ sockets'[r].role = sockets[r].role
                               /\ sockets'[r].token = sockets[r].token
  BY <1>2, <1>3 DEF Live, Open
<1> QED
  BY <1>4, <1>5

LEMMA SocketOnlyFaithful ==
  ASSUME Faithful, NEW s \in Sockets,
         Accept(s) \/ RefuseHello(s) \/ LeaveRejected(s) \/ Ping(s)
  PROVE  Faithful'
<1>1. Stable
  BY DEF Faithful
<1>2. Stable' /\ Room' = Room /\ UNCHANGED <<pin, frames>>
  BY <1>1, AcceptStable, RefuseHelloStable, LeaveRejectedStable, PingStable
     DEF Accept, RefuseHello, LeaveRejected, Ping
<1> QED
  BY <1>1, <1>2, SocketOnlyPeers, FaithfulKept

--------------------------------------------------------------------------------
(* Steps that change the state and tell the room.                             *)

\* Nobody joins; whoever stays keeps role and token, and the flags of the new
\* state are those of whoever stays.
LEMMA FaithfulBroadcast ==
  ASSUME Faithful, Stable', pin' = pin,
         NEW next, Advances(next), Room' = next,
         NEW socks, sockets' = socks, frames' = Broadcast(next, socks),
         \A s \in Live(socks) : /\ s \in Live(sockets)
                                /\ socks[s].role = sockets[s].role
                                /\ socks[s].token = sockets[s].token,
         \A s \in Open(socks) : s \in Live(sockets) => s \in Live(socks),
         Live(socks) # {} =>
           \A role \in Roles : next.online[role] = HasReadyPeer(socks, role)
  PROVE  Faithful'
<1>1. PresenceMatchesSockets'
  BY DEF PresenceMatchesSockets
<1>2. OneDriver' /\ PinGuardsRoom'
  BY DEF Faithful, OneDriver, PinGuardsRoom
<1>3. \A s \in Sockets : s \in Live(socks) => s \in Open(socks)
  BY DEF Live
<1>4. LiveSocketsShareTheRoom'
  <2> SUFFICES ASSUME NEW s \in Live(socks) PROVE frames'[s] = next
    BY DEF LiveSocketsShareTheRoom
  <2>1. s \in Sockets /\ s \in Open(socks) /\ frames[s] = Room
    BY DEF Live, Open, Faithful, LiveSocketsShareTheRoom
  <2> QED
    BY <2>1 DEF Broadcast
<1>5. ASSUME NEW s \in Sockets, frames'[s] # Null
      PROVE  s \in Live(socks) /\ frames'[s].seq > 0
  <2>1. s \in Open(socks)
    BY <1>5 DEF Broadcast
  <2>2. next # Room => next.seq > 0
    BY AdvancesCounted
  <2>3. CASE next # Room /\ s \in Live(socks)
    BY <2>1, <2>2, <2>3 DEF Broadcast
  <2>4. CASE ~(next # Room /\ s \in Live(socks))
    <3>1. frames'[s] = frames[s]
      BY <2>1, <2>4 DEF Broadcast
    <3>2. s \in Live(sockets) /\ frames[s].seq > 0
      BY <1>5, <3>1 DEF Faithful, FramesAreLive, FramesPassTheSeqGate
    <3> QED
      BY <1>5, <2>1, <3>1, <3>2
  <2> QED
    BY <2>3, <2>4
<1>6. FramesAreLive' /\ FramesPassTheSeqGate'
  BY <1>5 DEF FramesAreLive, FramesPassTheSeqGate
<1>7. Counted(Room)'
  BY AdvancesCounted DEF Counted
<1> QED
  BY <1>1, <1>2, <1>4, <1>6, <1>7 DEF Faithful

LEMMA FrameFaithful ==
  ASSUME Faithful, NEW s \in Sockets, Frame(s)
  PROVE  Faithful'
<1>1. Stable
  BY DEF Faithful
<1>2. PICK next \in Outcomes(s) : Persist(next) /\ frames' = Broadcast(next, sockets)
  BY DEF Frame
<1>3. Advances(next) /\ next.online = Room.online
  BY <1>1, OutcomeAdvances
<1>4. Stable' /\ Room' = next
  BY <1>1, <1>2, <1>3, FrameStable, PersistFacts, ReducerAssumption, InputAssumption
     DEF Persist, Stable, Advances
<1>5. sockets' = sockets /\ pin' = pin
  BY DEF Frame
<1>6. Live(sockets) # {} =>
        \A role \in Roles : next.online[role] = HasReadyPeer(sockets, role)
  BY <1>3 DEF Faithful, PresenceMatchesSockets
<1> QED
  BY <1>2, <1>3, <1>4, <1>5, <1>6, FaithfulBroadcast

LEMMA LeaveFaithful ==
  ASSUME Faithful, NEW s \in Sockets, Leave(s)
  PROVE  Faithful'
<1> DEFINE socks == Without(s)
           next  == AfterLeave(s)
<1>1. Stable /\ TypeOK /\ Room \in RoomStates /\ now \in Nat
  BY RoomType, ReducerAssumption DEF Faithful, Stable, TypeOK
<1>2. Stable' /\ Room' = next
  BY <1>1, LeaveStable
<1>3. sockets' = socks /\ frames' = Broadcast(next, socks) /\ pin' = pin
  BY DEF Leave, AfterLeave
<1>4. Advances(next)
  BY <1>1, ReconcileAdvances DEF AfterLeave, Advances
<1>5. \A r \in Live(socks) : r \in Live(sockets) /\ r # s /\ socks[r] = sockets[r]
  BY <1>1, WithoutFacts
<1>6. \A r \in Open(socks) : r \in Live(sockets) => r \in Live(socks)
  BY <1>1 DEF Open, Live, Without, TypeOK
<1>7. ASSUME Live(socks) # {}, NEW role \in Roles
      PROVE  next.online[role] = HasReadyPeer(socks, role)
  <2>1. CASE s \in Live(sockets)
    <3>1. next = ReconcilePeers(Room, socks)
      BY <2>1 DEF AfterLeave
    <3> QED
      BY <1>1, <3>1, ReconcileFacts
  <2>2. CASE s \notin Live(sockets)
    <3>1. next = Room
      BY <2>2 DEF AfterLeave
    <3>2. \A r \in Live(sockets) : r \in Live(socks)
      BY <1>1, <2>2 DEF Without, Live, Open, TypeOK
    <3>3. HasReadyPeer(socks, role) <=> HasReadyPeer(sockets, role)
      BY <1>5, <3>2 DEF HasReadyPeer
    <3>4. Room.online[role] = HasReadyPeer(sockets, role)
      BY <1>5, <1>7 DEF Faithful, PresenceMatchesSockets
    <3> QED
      BY <3>1, <3>3, <3>4, HasReadyPeerType DEF HasReadyPeer
  <2> QED
    BY <2>1, <2>2
<1> HIDE DEF socks, next
<1> QED
  BY <1>2, <1>3, <1>4, <1>5, <1>6, <1>7, FaithfulBroadcast

LEMMA AlarmTicksFaithful ==
  ASSUME Faithful, AlarmTicks
  PROVE  Faithful'
<1>1. Stable /\ TypeOK /\ Room \in RoomStates /\ now \in Nat
  BY RoomType, ReducerAssumption DEF Faithful, Stable, TypeOK
<1>2. Stable' /\ Room' = AfterStaleClear
  BY <1>1, AlarmTicksStable
<1>3. sockets' = Reaped /\ frames' = Broadcast(AfterStaleClear, Reaped) /\ pin' = pin
  BY DEF AlarmTicks
<1>4. Advances(AfterStaleClear) /\ AfterStaleClear.online = AfterReaping.online
  BY <1>1, AlarmAdvances
<1>5. \A r \in Live(Reaped) : r \in Live(sockets) /\ Reaped[r] = sockets[r]
  BY <1>1, ReapedFacts
<1>6. \A r \in Open(Reaped) : r \in Live(sockets) => r \in Live(Reaped)
  <2> SUFFICES ASSUME NEW r \in Open(Reaped), r \in Live(sockets)
               PROVE  r \in Live(Reaped)
    OBVIOUS
  <2>1. r \in Sockets /\ Reaped[r].closed = "no" /\ sockets[r] \in Attachments
    BY <1>1, LiveFacts DEF Open
  <2>2. r \notin Silent
    BY <2>1 DEF Reaped, Attachments
  <2>3. Reaped[r] = sockets[r]
    BY <2>1, <2>2 DEF Reaped
  <2> QED
    BY <2>3 DEF Live
<1>7. ASSUME Live(Reaped) # {}, NEW role \in Roles
      PROVE  AfterReaping.online[role] = HasReadyPeer(Reaped, role)
  <2>1. CASE Silent = {}
    <3>1. AfterReaping = Room
      BY <2>1 DEF AfterReaping
    <3>2. Reaped = sockets
      BY <1>1, <2>1 DEF Reaped, TypeOK
    <3> QED
      BY <1>7, <3>1, <3>2 DEF Faithful, PresenceMatchesSockets
  <2>2. CASE Silent # {}
    <3>1. AfterReaping = ReconcilePeers(Room, Reaped)
      BY <2>2 DEF AfterReaping
    <3> QED
      BY <1>1, <3>1, ReconcileFacts
  <2> QED
    BY <2>1, <2>2
<1> QED
  BY <1>2, <1>3, <1>4, <1>5, <1>6, <1>7, FaithfulBroadcast

--------------------------------------------------------------------------------
(* A hello is accepted.                                                       *)

\* The newcomer is joined, with the role and the token of its URL.
LEMMA JoinerIsLive ==
  ASSUME TypeOK, NEW s \in Open(sockets)
  PROVE  s \in Live(Joined(s)) /\ Joined(s)[s].role = sockets[s].role
<1>1. s \in Sockets /\ sockets[s] \in Attachments /\ sockets[s].closed = "no"
  BY OpenFacts DEF TypeOK, SocketTable
<1>2. Joined(s)[s] = [sockets[s] EXCEPT !.ready = TRUE, !.lastPing = now]
  BY <1>1 DEF Joined
<1>3. /\ Joined(s)[s] \in Attachments /\ Joined(s)[s].ready
      /\ Joined(s)[s].closed = "no" /\ Joined(s)[s].role = sockets[s].role
  BY <1>1, <1>2 DEF Attachments, TypeOK
<1>4. Joined(s)[s] # Null
  BY <1>3, UrlAssumption
<1> QED
  BY <1>1, <1>3, <1>4 DEF Live, Open

\* Everybody in the room has presented the PIN once s has joined.
LEMMA JoinGuarded ==
  ASSUME Faithful, NEW s \in Sockets, Join(s)
  PROVE  PinGuardsRoom'
<1>1. /\ TypeOK /\ s \in Open(sockets) /\ ~PinRefused(sockets[s].token)
      /\ sockets' = Joined(s) /\ pin' = PinAfter(s)
  BY DEF Faithful, Stable, Join, MayJoin
<1> SUFFICES ASSUME NEW r \in Live(Joined(s))
             PROVE  /\ pin'.set
                    /\ pin'.value # Null => Joined(s)[r].token = pin'.value
  BY <1>1 DEF PinGuardsRoom
<1>2. CASE r = s
  <2>1. Joined(s)[r].token = sockets[s].token
    BY <1>1, <1>2, JoinedFacts
  <2> QED
    BY <1>1, <2>1 DEF PinAfter, PinRefused
<1>3. CASE r # s
  <2>1. r \in Live(sockets) /\ Joined(s)[r] = sockets[r]
    BY <1>1, <1>3, JoinedFacts
  <2> QED
    BY <1>1, <2>1 DEF PinAfter, Faithful, PinGuardsRoom
<1> QED
  BY <1>2, <1>3

LEMMA JoinOneDriver ==
  ASSUME Faithful, NEW s \in Sockets, Join(s)
  PROVE  OneDriver'
<1>1. TypeOK /\ s \in Open(sockets) /\ sockets' = Joined(s)
  BY DEF Faithful, Stable, Join, MayJoin
<1> SUFFICES ASSUME NEW q \in Live(Joined(s)), NEW r \in Live(Joined(s)),
                    Joined(s)[q].role = "driver", Joined(s)[r].role = "driver"
             PROVE  q = r
  BY <1>1 DEF OneDriver
<1>2. CASE q # s /\ r # s
  BY <1>1, <1>2, JoinedFacts DEF Faithful, OneDriver
<1>3. CASE q = s \/ r = s
  BY <1>1, <1>3, JoinedFacts, JoinerIsLive
<1> QED
  BY <1>2, <1>3

LEMMA JoinFaithful ==
  ASSUME Faithful, NEW s \in Sockets, Join(s)
  PROVE  Faithful'
<1> DEFINE socks == Joined(s)
           next  == ReconcilePeers(Room, socks)
<1>1. Stable /\ TypeOK /\ Room \in RoomStates /\ now \in Nat /\ s \in Open(sockets)
  BY RoomType, ReducerAssumption DEF Faithful, Stable, TypeOK, Join, MayJoin
<1>2. Stable' /\ Room' = next
  BY <1>1, JoinStable
<1>3. sockets' = socks /\ frames' = [Broadcast(next, socks) EXCEPT ![s] = next]
  BY DEF Join
<1>4. /\ Advances(next)
      /\ \A role \in Roles : next.online[role] = HasReadyPeer(socks, role)
  BY <1>1, ReconcileAdvances, ReconcileFacts
<1>5. s \in Live(socks) /\ socks[s].role = sockets[s].role
  BY <1>1, JoinerIsLive
<1>6. \A r \in Live(socks) : r # s => r \in Live(sockets) /\ socks[r] = sockets[r]
  BY <1>1, JoinedFacts
<1>7. next.seq > 0
  <2>1. sockets[s].role \in Roles
    BY <1>1, OpenFacts DEF Join, MayJoin, Attachments, TypeOK, SocketTable
  <2>2. next.online[sockets[s].role]
    BY <1>4, <1>5, <2>1 DEF HasReadyPeer
  <2> QED
    BY <1>4, <2>1, <2>2, AdvancesCounted DEF Counted
<1>8. ASSUME NEW r \in Open(socks), r \in Live(sockets) PROVE r \in Live(socks)
  <2>1. /\ r \in Sockets /\ socks[r].closed = "no" /\ sockets[r] \in Attachments
        /\ sockets[r].ready
    BY <1>1, <1>8, LiveFacts DEF Open
  <2>2. r = s \/ socks[r] = sockets[r] \/ socks[r] = [sockets[r] EXCEPT !.closed = "driver_evicted"]
    BY <2>1 DEF Joined
  <2>3. r = s \/ socks[r] = sockets[r]
    BY <2>1, <2>2 DEF Attachments
  <2> QED
    BY <1>5, <2>1, <2>3 DEF Live
<1> HIDE DEF socks, next
<1>9. PresenceMatchesSockets'
  BY <1>2, <1>3, <1>4 DEF PresenceMatchesSockets
<1>10. OneDriver' /\ PinGuardsRoom'
  BY JoinOneDriver, JoinGuarded
<1>11. ASSUME NEW r \in Sockets, r # s
       PROVE  frames'[r] = Broadcast(next, socks)[r]
  BY <1>3, <1>11 DEF Broadcast
<1>12. frames'[s] = next
  BY <1>3 DEF Broadcast
<1>13. LiveSocketsShareTheRoom'
  <2> SUFFICES ASSUME NEW r \in Live(socks) PROVE frames'[r] = next
    BY <1>2, <1>3 DEF LiveSocketsShareTheRoom
  <2>1. CASE r # s
    <3>1. r \in Sockets /\ r \in Open(socks) /\ frames[r] = Room
      BY <1>6, <2>1 DEF Live, Open, Faithful, LiveSocketsShareTheRoom
    <3> QED
      BY <1>11, <2>1, <3>1 DEF Broadcast
  <2> QED
    BY <1>12, <2>1
<1>14. ASSUME NEW r \in Sockets, frames'[r] # Null
       PROVE  r \in Live(socks) /\ frames'[r].seq > 0
  <2>1. CASE r # s
    <3>1. r \in Open(socks)
      BY <1>11, <1>14, <2>1 DEF Broadcast
    <3>2. CASE next # Room /\ r \in Live(socks)
      <4>1. frames'[r] = next
        BY <1>11, <2>1, <3>1, <3>2 DEF Broadcast
      <4> QED
        BY <1>7, <3>2, <4>1
    <3>3. CASE ~(next # Room /\ r \in Live(socks))
      <4>1. frames'[r] = frames[r]
        BY <1>11, <2>1, <3>1, <3>3 DEF Broadcast
      <4>2. r \in Live(sockets) /\ frames[r].seq > 0
        BY <1>14, <4>1 DEF Faithful, FramesAreLive, FramesPassTheSeqGate
      <4> QED
        BY <1>8, <3>1, <4>1, <4>2
    <3> QED
      BY <3>2, <3>3
  <2> QED
    BY <1>5, <1>7, <1>12, <2>1
<1>15. FramesAreLive' /\ FramesPassTheSeqGate'
  BY <1>3, <1>14 DEF FramesAreLive, FramesPassTheSeqGate
<1>16. Counted(Room)'
  BY <1>2, <1>4, AdvancesCounted DEF Counted
<1> QED
  BY <1>2, <1>9, <1>10, <1>13, <1>15, <1>16 DEF Faithful

--------------------------------------------------------------------------------
(* Steps that leave the room empty.                                           *)

LEMMA FaithfulEmptied ==
  ASSUME Stable', Live(sockets') = {}, \A s \in Sockets : frames'[s] = Null, Counted(Room)'
  PROVE  Faithful'
BY DEF Faithful, PresenceMatchesSockets, OneDriver, PinGuardsRoom, LiveSocketsShareTheRoom,
       FramesAreLive, FramesPassTheSeqGate

LEMMA InitialCounted == ~\E role \in Roles : InitialState.online[role]
BY DEF InitialState

LEMMA AlarmExpiresFaithful ==
  ASSUME Faithful, AlarmExpires
  PROVE  Faithful'
<1>1. Stable' /\ Room' = InitialState
  BY AlarmExpiresStable DEF Faithful
<1>2. Open(Reaped) = {}
  BY DEF AlarmExpires, RoomExpired
<1>3. sockets' = Reaped /\ frames' = Broadcast(ReduceExpire(AfterReaping), Reaped)
  BY DEF AlarmExpires
<1>4. Live(sockets') = {}
  BY <1>2, <1>3 DEF Live
<1>5. \A s \in Sockets : frames'[s] = Null
  BY <1>2, <1>3 DEF Broadcast
<1>6. Counted(Room)'
  BY <1>1, InitialCounted DEF Counted
<1> QED
  BY <1>1, <1>4, <1>5, <1>6, FaithfulEmptied

LEMMA RestartFaithful ==
  ASSUME Faithful, Restart
  PROVE  Faithful'
<1>1. Stable' /\ Room' = Room
  BY RestartStable DEF Faithful
<1>2. Live(sockets') = {} /\ \A s \in Sockets : frames'[s] = Null
  BY DEF Restart, Restarted, Live, Open
<1>3. Counted(Room)'
  BY <1>1 DEF Faithful, Counted
<1> QED
  BY <1>1, <1>2, <1>3, FaithfulEmptied

LEMMA CrashFaithful ==
  ASSUME Faithful, Crash
  PROVE  Faithful'
<1>1. Stable
  BY DEF Faithful
<1>2. PICK next \in RoomStates :
        /\ CrashWrites(next)
        /\ \/ \E socks : next = ReconcilePeers(Room, socks)
           \/ next = Room
           \/ \E s \in Live(sockets) : next \in Outcomes(s)
           \/ next = AfterReaping
           \/ next = AfterStaleClear
           \/ next = InitialState
  BY <1>1, CrashCases
<1>3. Live(sockets') = {} /\ (\A s \in Sockets : frames'[s] = Null) /\ cache' = Null
  BY DEF Crash, Restarted, Live, Open
<1>4. Stable' /\ Room' = next
  BY <1>1, <1>2, <1>3, CrashStable, CrashFacts, ReducerAssumption DEF CrashWrites, Stable
<1>5. Advances(next) \/ next = InitialState
  <2>1. CASE \E socks : next = ReconcilePeers(Room, socks)
    BY <1>1, <2>1, ReconcileAdvances
  <2>2. CASE next = Room
    BY <2>2 DEF Advances
  <2>3. CASE \E s \in Live(sockets) : next \in Outcomes(s)
    BY <1>1, <2>3, OutcomeAdvances
  <2>4. CASE next = AfterReaping \/ next = AfterStaleClear
    BY <1>1, <2>4, AlarmAdvances
  <2> QED
    BY <1>2, <2>1, <2>2, <2>3, <2>4
<1>6. Counted(Room)'
  BY <1>4, <1>5, AdvancesCounted, InitialCounted DEF Counted
<1> QED
  BY <1>3, <1>4, <1>6, FaithfulEmptied

--------------------------------------------------------------------------------

LEMMA InitFaithful ==
  ASSUME Init
  PROVE  Faithful
<1>1. Stable
  BY InitStable
<1>2. Live(sockets) = {} /\ \A s \in Sockets : frames[s] = Null
  BY DEF Init, Live, Open
<1>3. cache = Null /\ (stored = NoState \/ \E updatedAt \in LegacyRooms : stored = V1(updatedAt))
  BY DEF Init, FreshRoom, LegacyRoom
<1>4. Room.online = InitialState.online
  BY <1>3 DEF Room, Load, NoState, V1, InitialState
<1>5. Counted(Room)
  BY <1>4, InitialCounted DEF Counted
<1> QED
  BY <1>1, <1>2, <1>5
     DEF Faithful, PresenceMatchesSockets, OneDriver, PinGuardsRoom, LiveSocketsShareTheRoom,
         FramesAreLive, FramesPassTheSeqGate

LEMMA NextFaithful ==
  ASSUME Faithful, [Next]_vars
  PROVE  Faithful'
<1>1. ASSUME NEW s \in Sockets,
             \/ Accept(s) \/ RefuseHello(s) \/ LeaveRejected(s) \/ Ping(s)
             \/ Join(s) \/ Leave(s) \/ Frame(s)
      PROVE  Faithful'
  BY <1>1, SocketOnlyFaithful, JoinFaithful, LeaveFaithful, FrameFaithful
<1>2. CASE AlarmTicks \/ AlarmExpires
  BY <1>2, AlarmTicksFaithful, AlarmExpiresFaithful
<1>3. CASE Restart \/ Crash
  BY <1>3, RestartFaithful, CrashFaithful
<1>4. CASE Hibernate \/ Tick
  <2>1. Stable' /\ Room' = Room
    BY <1>4, HibernateStable, TickStable DEF Faithful
  <2>2. UNCHANGED <<sockets, pin, frames>>
    BY <1>4 DEF Hibernate, Tick
  <2> QED
    BY <2>1, <2>2, FaithfulKept
<1>5. CASE UNCHANGED vars
  <2>1. Stable'
    BY <1>5, NextStable DEF Faithful
  <2>2. UNCHANGED <<sockets, pin, frames>> /\ Room' = Room
    BY <1>5 DEF vars, Room
  <2> QED
    BY <2>1, <2>2, FaithfulKept
<1> QED
  BY <1>1, <1>2, <1>3, <1>4, <1>5 DEF Next

\* No step takes the room back, except the one that deletes it and those that
\* cut every socket off.
LEMMA RoomAdvances ==
  ASSUME Faithful, [Next]_vars
  PROVE  Advances(Room') \/ \A s \in Sockets : frames'[s] = Null
<1>1. Stable /\ Room \in RoomStates
  BY RoomType, ReducerAssumption DEF Faithful, Stable
<1>2. ASSUME NEW s \in Sockets,
             Accept(s) \/ RefuseHello(s) \/ LeaveRejected(s) \/ Ping(s)
      PROVE  Room' = Room
  BY <1>1, <1>2, AcceptStable, RefuseHelloStable, LeaveRejectedStable, PingStable
<1>3. ASSUME NEW s \in Sockets, Join(s) \/ Leave(s) \/ Frame(s)
      PROVE  Advances(Room')
  <2>1. CASE Join(s)
    BY <1>1, <2>1, JoinStable, ReconcileAdvances
  <2>2. CASE Leave(s)
    <3>1. Room' = AfterLeave(s)
      BY <1>1, <2>2, LeaveStable
    <3> QED
      BY <1>1, <3>1, ReconcileAdvances DEF AfterLeave, Advances
  <2>3. CASE Frame(s)
    BY <1>1, <2>3, FrameStable, OutcomeAdvances
  <2> QED
    BY <1>3, <2>1, <2>2, <2>3
<1>4. CASE AlarmTicks
  BY <1>1, <1>4, AlarmTicksStable, AlarmAdvances
<1>5. CASE AlarmExpires
  BY <1>5 DEF AlarmExpires, RoomExpired, Broadcast
<1>6. CASE Restart \/ Crash
  BY <1>6 DEF Restart, Crash, Restarted
<1>7. CASE Hibernate \/ Tick
  BY <1>1, <1>7, HibernateStable, TickStable DEF Advances
<1>8. CASE UNCHANGED vars
  BY <1>1, <1>8 DEF vars, Room, Advances
<1> QED
  BY <1>1, <1>2, <1>3, <1>4, <1>5, <1>6, <1>7, <1>8 DEF Next, Advances

LEMMA StepFramesGrow ==
  ASSUME Faithful, Faithful', [Next]_vars,
         NEW s \in Sockets, frames[s] # Null, frames'[s] # Null, frames'[s] # frames[s]
  PROVE  frames'[s].seq > frames[s].seq
<1>1. frames[s] = Room
  BY DEF Faithful, FramesAreLive, LiveSocketsShareTheRoom
<1>2. frames'[s] = Room'
  BY DEF Faithful, FramesAreLive, LiveSocketsShareTheRoom
<1> QED
  BY <1>1, <1>2, RoomAdvances DEF Advances

--------------------------------------------------------------------------------

\* While anybody is in the room the flags are those of the joined sockets: the
\* evictions, reaping, departures and restarts of race-room.ts all keep it.
THEOREM PresenceIsTrue == Spec => []PresenceMatchesSockets
<1>1. Init => Faithful
  BY InitFaithful
<1>2. Faithful /\ [Next]_vars => Faithful'
  BY NextFaithful
<1>3. Faithful => PresenceMatchesSockets
  BY DEF Faithful
<1> QED
  BY <1>1, <1>2, <1>3, PTL DEF Spec

\* There is one driver, the last that joined (webSocketMessage evicts the rest).
THEOREM DriverIsUnique == Spec => []OneDriver
<1>1. Init => Faithful
  BY InitFaithful
<1>2. Faithful /\ [Next]_vars => Faithful'
  BY NextFaithful
<1>3. Faithful => OneDriver
  BY DEF Faithful
<1> QED
  BY <1>1, <1>2, <1>3, PTL DEF Spec

\* Whoever is in a room with a PIN has presented it, whoever set it and when.
THEOREM PinIsRequired == Spec => []PinGuardsRoom
<1>1. Init => Faithful
  BY InitFaithful
<1>2. Faithful /\ [Next]_vars => Faithful'
  BY NextFaithful
<1>3. Faithful => PinGuardsRoom
  BY DEF Faithful
<1> QED
  BY <1>1, <1>2, <1>3, PTL DEF Spec

\* The last frame of every joined socket is the room's state (persistAndBroadcast
\* and the replay of a join).
THEOREM EverybodySeesTheRoom == Spec => []LiveSocketsShareTheRoom
<1>1. Init => Faithful
  BY InitFaithful
<1>2. Faithful /\ [Next]_vars => Faithful'
  BY NextFaithful
<1>3. Faithful => LiveSocketsShareTheRoom
  BY DEF Faithful
<1> QED
  BY <1>1, <1>2, <1>3, PTL DEF Spec

\* No replay has seq 0, which a client would drop.
THEOREM ReplaysAreSeen == Spec => []FramesPassTheSeqGate
<1>1. Init => Faithful
  BY InitFaithful
<1>2. Faithful /\ [Next]_vars => Faithful'
  BY NextFaithful
<1>3. Faithful => FramesPassTheSeqGate
  BY DEF Faithful
<1> QED
  BY <1>1, <1>2, <1>3, PTL DEF Spec

\* From each frame of a socket to its next the seq grows, so that a client that
\* keeps only what is above its last seq misses nothing.
THEOREM FramesAreOrdered == Spec => FramesGrow
<1>1. Init => Faithful
  BY InitFaithful
<1>2. Faithful /\ [Next]_vars => Faithful'
  BY NextFaithful
<1>3. Faithful /\ Faithful' /\ [Next]_vars =>
        [\A s \in Sockets :
           frames[s] # Null /\ frames'[s] # Null /\ frames'[s] # frames[s] =>
             frames'[s].seq > frames[s].seq]_vars
  BY StepFramesGrow
<1> QED
  BY <1>1, <1>2, <1>3, PTL DEF Spec, FramesGrow

--------------------------------------------------------------------------------
(* The TTL: updatedAt is the only clock of an empty room, so the room is kept *)
(* long enough if whatever empties it stamps it.                              *)

\* A change is stamped with now, and the stamp never goes back.
LEMMA ChangedClock ==
  ASSUME NEW state \in RoomStates, NEW stamp \in Nat
  PROVE  /\ Changed(state, stamp).updatedAt >= stamp
         /\ Changed(state, stamp).updatedAt >= state.updatedAt
<1> DEFINE bumped == [state EXCEPT !.seq = state.seq + 1]
           time == Later(state.updatedAt, stamp)
<1>1. /\ bumped \in RoomStates
      /\ state.updatedAt \in Nat
      /\ bumped.updatedAt = state.updatedAt
  BY DEF RoomStates
<1>2. Changed(state, stamp) = [bumped EXCEPT !.updatedAt = time]
  BY <1>1 DEF Changed
<1>3. time >= stamp /\ time >= state.updatedAt
  BY <1>1, LaterFacts
<1> HIDE DEF bumped, time
<1>4. Changed(state, stamp).updatedAt = time
  BY <1>1, <1>2 DEF RoomStates
<1> QED
  BY <1>3, <1>4

LEMMA PeerClock ==
  ASSUME NEW state \in RoomStates, NEW role \in Roles, NEW online \in BOOLEAN,
         NEW stamp \in Nat
  PROVE  LET next == ReducePeer(state, role, online, stamp)
         IN  /\ next.updatedAt >= state.updatedAt
             /\ state.online[role] # online => next.updatedAt >= stamp
<1> DEFINE flipped == [state EXCEPT !.online[role] = online]
<1>1. /\ flipped \in RoomStates
      /\ flipped.updatedAt = state.updatedAt
      /\ state.updatedAt \in Nat
  BY DEF RoomStates
<1>2. CASE state.online[role] = online
  BY <1>1, <1>2 DEF ReducePeer
<1>3. CASE state.online[role] # online
  <2>1. ReducePeer(state, role, online, stamp) = Changed(flipped, stamp)
    BY <1>3 DEF ReducePeer
  <2> HIDE DEF flipped
  <2> QED
    BY <1>1, <2>1, ChangedClock
<1> QED
  BY <1>2, <1>3

\* reconcilePeers stamps the room when it changes a flag.
LEMMA ReconcileClock ==
  ASSUME now \in Nat, NEW state \in RoomStates, NEW socks
  PROVE  LET next == ReconcilePeers(state, socks)
         IN  /\ next.updatedAt >= state.updatedAt
             /\ \A role \in Roles :
                  state.online[role] # HasReadyPeer(socks, role) => next.updatedAt >= now
<1> DEFINE spotter == HasReadyPeer(socks, "spotter")
           driver  == HasReadyPeer(socks, "driver")
           first   == ReducePeer(state, "spotter", spotter, now)
           next    == ReducePeer(first, "driver", driver, now)
<1>1. spotter \in BOOLEAN /\ driver \in BOOLEAN
  BY HasReadyPeerType
<1>2. "spotter" \in Roles /\ "driver" \in Roles
  BY DEF Roles
<1>3. ReconcilePeers(state, socks) = next
  BY DEF ReconcilePeers
<1> HIDE DEF spotter, driver
<1>4. /\ first \in RoomStates
      /\ first.online = [state.online EXCEPT !["spotter"] = spotter]
      /\ first.updatedAt >= state.updatedAt
      /\ state.online["spotter"] # spotter => first.updatedAt >= now
  BY <1>1, <1>2, PeerFacts, PeerClock
<1> HIDE DEF first
<1>5. /\ next \in RoomStates
      /\ next.updatedAt >= first.updatedAt
      /\ first.online["driver"] # driver => next.updatedAt >= now
  BY <1>1, <1>2, <1>4, PeerFacts, PeerClock
<1> HIDE DEF next
<1>6. /\ state.updatedAt \in Nat /\ first.updatedAt \in Nat /\ next.updatedAt \in Nat
      /\ first.online["driver"] = state.online["driver"]
  BY <1>2, <1>4, <1>5 DEF RoomStates
<1>7. /\ next.updatedAt >= state.updatedAt
      /\ state.online["spotter"] # spotter => next.updatedAt >= now
      /\ state.online["driver"] # driver => next.updatedAt >= now
  BY <1>4, <1>5, <1>6
<1>8. \A role \in Roles :
        state.online[role] # HasReadyPeer(socks, role) => next.updatedAt >= now
  BY <1>7 DEF Roles, spotter, driver
<1> QED
  BY <1>3, <1>7, <1>8

LEMMA StaleClock ==
  ASSUME NEW state \in RoomStates, NEW stamp \in Nat, ReducerAssumption
  PROVE  ReduceStale(state, stamp).updatedAt >= state.updatedAt
<1> DEFINE blank == [state EXCEPT !.lane = Null, !.cars = NoCars,
                                  !.msg = Null, !.calledAt = 0]
<1>1. NoCars \in Cars
  BY DEF NoCars, Cars, ReducerAssumption
<1>2. /\ blank \in RoomStates
      /\ blank.updatedAt = state.updatedAt
      /\ state.updatedAt \in Nat
  BY <1>1 DEF RoomStates
<1> HIDE DEF blank
<1>3. Changed(blank, stamp).updatedAt >= state.updatedAt
  BY <1>2, ChangedClock
<1> QED
  BY <1>2, <1>3 DEF ReduceStale, blank

\* Everybody who joined has a role, so that the flags tell of everybody.
RolesAreKnown == \A s \in Live(sockets) : sockets[s].role \in Roles

\* An empty room has been updated since it was left.
EmptySinceUpdate == pin.set /\ Live(sockets) = {} => movedAt <= Room.updatedAt

\* Inductive without restarts: the last peer to leave lowers a flag.
Dated == Faithful /\ RolesAreKnown /\ EmptySinceUpdate

\* Whatever empties the room lowers a flag, and stamps the room by that.
LEMMA EmptiedRoomIsStamped ==
  ASSUME Faithful, RolesAreKnown, Live(sockets) # {}, NEW socks, Live(socks) = {}
  PROVE  ReconcilePeers(Room, socks).updatedAt >= now
<1>1. Room \in RoomStates /\ now \in Nat
  BY RoomType, ReducerAssumption DEF Faithful, Stable, TypeOK
<1>2. PICK s \in Live(sockets) : sockets[s].role \in Roles
  BY DEF RolesAreKnown
<1> DEFINE role == sockets[s].role
<1>3. role \in Roles /\ HasReadyPeer(sockets, role)
  BY <1>2 DEF HasReadyPeer
<1>4. Room.online[role] = HasReadyPeer(sockets, role)
  BY <1>3 DEF Faithful, PresenceMatchesSockets
<1>5. ~HasReadyPeer(socks, role)
  BY DEF HasReadyPeer
<1> HIDE DEF role
<1>6. Room.online[role] # HasReadyPeer(socks, role)
  BY <1>3, <1>4, <1>5
<1> QED
  BY <1>1, <1>3, <1>6, ReconcileClock

\* So does the alarm that reaps the last peer.
LEMMA AlarmClock ==
  ASSUME Faithful, RolesAreKnown
  PROVE  /\ AfterReaping.updatedAt >= Room.updatedAt
         /\ AfterStaleClear.updatedAt >= AfterReaping.updatedAt
         /\ Live(sockets) # {} /\ Live(Reaped) = {} => AfterReaping.updatedAt >= now
<1>1. /\ Room \in RoomStates /\ now \in Nat /\ AfterReaping \in RoomStates
      /\ sockets \in SocketTable
  BY RoomType, AlarmStates, ReducerAssumption DEF Faithful, Stable, TypeOK, SocketTable
<1>2. Room.updatedAt \in Nat /\ AfterReaping.updatedAt \in Nat
  BY <1>1 DEF RoomStates
<1>3. AfterReaping.updatedAt >= Room.updatedAt
  BY <1>1, <1>2, ReconcileClock DEF AfterReaping
<1>4. AfterStaleClear.updatedAt >= AfterReaping.updatedAt
  BY <1>1, <1>2, StaleClock, ReducerAssumption DEF AfterStaleClear
<1>5. ASSUME Live(sockets) # {}, Live(Reaped) = {}
      PROVE  AfterReaping.updatedAt >= now
  <2>1. Silent # {}
    <3>1. Silent = {} => Reaped = sockets
      BY <1>1 DEF Reaped, SocketTable
    <3> QED
      BY <1>5, <3>1
  <2>2. AfterReaping = ReconcilePeers(Room, Reaped)
    BY <2>1 DEF AfterReaping
  <2> QED
    BY <1>5, <2>2, EmptiedRoomIsStamped
<1> QED
  BY <1>3, <1>4, <1>5

\* Nobody joins: the roles stay known.
LEMMA RolesKept ==
  ASSUME RolesAreKnown,
         \A s \in Live(sockets') : /\ s \in Live(sockets)
                                   /\ sockets'[s].role = sockets[s].role
  PROVE  RolesAreKnown'
BY DEF RolesAreKnown

\* A step that neither changes the room nor who is in it.
LEMMA DatedKept ==
  ASSUME Dated, Faithful', Room' = Room, UNCHANGED <<pin, movedAt>>,
         Live(sockets') = Live(sockets),
         \A s \in Live(sockets) : sockets'[s].role = sockets[s].role
  PROVE  Dated'
<1>1. RolesAreKnown'
  BY RolesKept DEF Dated
<1>2. EmptySinceUpdate'
  BY DEF Dated, EmptySinceUpdate
<1> QED
  BY <1>1, <1>2 DEF Dated

LEMMA SocketOnlyDated ==
  ASSUME Dated, NEW s \in Sockets,
         Accept(s) \/ RefuseHello(s) \/ LeaveRejected(s) \/ Ping(s)
  PROVE  Dated'
<1>1. Faithful /\ Stable
  BY DEF Dated, Faithful
<1>2. Faithful'
  BY <1>1, SocketOnlyFaithful
<1>3. Room' = Room
  BY <1>1, AcceptStable, RefuseHelloStable, LeaveRejectedStable, PingStable
<1>4. UNCHANGED <<pin, movedAt>>
  BY DEF Accept, RefuseHello, LeaveRejected, Ping
<1>5. /\ Live(sockets') = Live(sockets)
      /\ \A r \in Live(sockets) : sockets'[r].role = sockets[r].role
  BY <1>1, SocketOnlyPeers
<1> QED
  BY <1>2, <1>3, <1>4, <1>5, DatedKept

LEMMA JoinDated ==
  ASSUME Dated, NEW s \in Sockets, Join(s)
  PROVE  Dated'
<1>1. /\ Faithful /\ TypeOK /\ s \in Open(sockets) /\ sockets[s].role # Null
      /\ sockets' = Joined(s)
  BY DEF Dated, Faithful, Stable, Join, MayJoin
<1>2. Faithful'
  BY <1>1, JoinFaithful
<1>3. sockets[s].role \in Roles
  BY <1>1, OpenFacts DEF Attachments, TypeOK, SocketTable
<1>4. RolesAreKnown'
  <2> SUFFICES ASSUME NEW r \in Live(Joined(s)) PROVE Joined(s)[r].role \in Roles
    BY <1>1 DEF RolesAreKnown
  <2>1. CASE r = s
    BY <1>1, <1>3, <2>1, JoinedFacts
  <2>2. CASE r # s
    BY <1>1, <2>2, JoinedFacts DEF Dated, RolesAreKnown
  <2> QED
    BY <2>1, <2>2
<1>5. Live(sockets') # {}
  BY <1>1, JoinerIsLive
<1> QED
  BY <1>2, <1>4, <1>5 DEF Dated, EmptySinceUpdate

LEMMA LeaveDated ==
  ASSUME Dated, NEW s \in Sockets, Leave(s)
  PROVE  Dated'
<1>1. /\ Faithful /\ RolesAreKnown /\ Stable /\ TypeOK
      /\ Room \in RoomStates /\ now \in Nat
  BY RoomType, ReducerAssumption DEF Dated, Faithful, Stable, TypeOK
<1>2. Faithful'
  BY <1>1, LeaveFaithful
<1>3. Room' = AfterLeave(s)
  BY <1>1, LeaveStable
<1>4. /\ sockets' = Without(s) /\ pin' = pin
      /\ movedAt' = IF Live(sockets) # {} THEN now ELSE movedAt
  BY DEF Leave
<1>5. \A r \in Live(Without(s)) : r \in Live(sockets) /\ Without(s)[r] = sockets[r]
  BY <1>1, WithoutFacts
<1>6. RolesAreKnown'
  BY <1>1, <1>4, <1>5, RolesKept
<1>7. EmptySinceUpdate'
  <2> SUFFICES ASSUME pin.set, Live(Without(s)) = {}
               PROVE  movedAt' <= AfterLeave(s).updatedAt
    BY <1>3, <1>4 DEF EmptySinceUpdate
  <2>1. CASE Live(sockets) = {}
    BY <1>4, <2>1 DEF AfterLeave, Dated, EmptySinceUpdate
  <2>2. CASE Live(sockets) # {}
    <3>1. s \in Live(sockets)
      <4> SUFFICES ASSUME s \notin Live(sockets) PROVE FALSE
        OBVIOUS
      <4>1. PICK r \in Live(sockets) : r # s
        BY <2>2
      <4>2. Without(s)[r] = sockets[r] /\ r \in Sockets
        BY <1>1, <4>1, LiveFacts DEF Without, TypeOK
      <4>3. r \in Live(Without(s))
        BY <4>1, <4>2 DEF Live, Open
      <4> QED
        BY <4>3
    <3>2. AfterLeave(s) = ReconcilePeers(Room, Without(s))
      BY <3>1 DEF AfterLeave
    <3>3. AfterLeave(s).updatedAt >= now /\ AfterLeave(s) \in RoomStates
      BY <1>1, <2>2, <3>2, EmptiedRoomIsStamped, ReconcileFacts
    <3> QED
      BY <1>1, <1>4, <2>2, <3>3 DEF RoomStates
  <2> QED
    BY <2>1, <2>2
<1> QED
  BY <1>2, <1>6, <1>7 DEF Dated

LEMMA FrameDated ==
  ASSUME Dated, NEW s \in Sockets, Frame(s)
  PROVE  Dated'
<1>1. Faithful'
  BY FrameFaithful DEF Dated
<1>2. sockets' = sockets /\ Live(sockets) # {}
  BY DEF Frame
<1> QED
  BY <1>1, <1>2 DEF Dated, RolesAreKnown, EmptySinceUpdate

LEMMA AlarmTicksDated ==
  ASSUME Dated, AlarmTicks
  PROVE  Dated'
<1>1. Faithful /\ RolesAreKnown /\ Stable /\ TypeOK
  BY DEF Dated, Faithful, Stable
<1>2. Faithful' /\ Room' = AfterStaleClear
  BY <1>1, AlarmTicksFaithful, AlarmTicksStable
<1>3. sockets' = Reaped /\ pin' = pin /\ Vacated(Reaped)
  BY DEF AlarmTicks
<1>4. \A r \in Live(Reaped) : r \in Live(sockets) /\ Reaped[r] = sockets[r]
  BY <1>1, ReapedFacts
<1>5. RolesAreKnown'
  BY <1>1, <1>3, <1>4, RolesKept
<1>6. EmptySinceUpdate'
  <2> SUFFICES ASSUME pin.set, Live(Reaped) = {}
               PROVE  movedAt' <= AfterStaleClear.updatedAt
    BY <1>2, <1>3 DEF EmptySinceUpdate
  <2>1. /\ Room.updatedAt \in Nat /\ AfterReaping.updatedAt \in Nat
        /\ AfterStaleClear.updatedAt \in Nat /\ now \in Nat /\ movedAt \in Nat
    BY <1>1, RoomType, AlarmStates, ReducerAssumption DEF RoomStates, TypeOK
  <2>2. /\ AfterReaping.updatedAt >= Room.updatedAt
        /\ AfterStaleClear.updatedAt >= AfterReaping.updatedAt
        /\ Live(sockets) # {} => AfterReaping.updatedAt >= now
    BY <1>1, AlarmClock
  <2>3. CASE Live(sockets) = {}
    <3>1. movedAt' = movedAt /\ movedAt <= Room.updatedAt
      BY <1>3, <2>3 DEF Vacated, Dated, EmptySinceUpdate
    <3> QED
      BY <2>1, <2>2, <3>1
  <2>4. CASE Live(sockets) # {}
    <3>1. movedAt' = now
      BY <1>3, <2>4 DEF Vacated
    <3> QED
      BY <2>1, <2>2, <2>4, <3>1
  <2> QED
    BY <2>3, <2>4
<1> QED
  BY <1>2, <1>5, <1>6 DEF Dated

LEMMA AlarmExpiresDated ==
  ASSUME Dated, AlarmExpires
  PROVE  Dated'
<1>1. Faithful'
  BY AlarmExpiresFaithful DEF Dated
<1>2. Live(sockets') = {} /\ pin' = NoPin
  BY DEF AlarmExpires, RoomExpired, Live
<1> QED
  BY <1>1, <1>2 DEF Dated, RolesAreKnown, EmptySinceUpdate, NoPin

LEMMA InitDated ==
  ASSUME Init
  PROVE  Dated
<1>1. Faithful
  BY InitFaithful
<1>2. Live(sockets) = {}
  BY DEF Init, Live, Open
<1>3. EmptySinceUpdate
  <2>1. CASE FreshRoom
    BY <2>1 DEF FreshRoom, NoPin, EmptySinceUpdate
  <2>2. CASE LegacyRoom
    <3>1. PICK updatedAt \in LegacyRooms : stored = V1(updatedAt)
      BY <2>2 DEF LegacyRoom
    <3>2. stored # NoState /\ stored.updatedAt = updatedAt /\ stored.kind = "v1"
      BY <3>1 DEF NoState, V1
    <3>3. cache = Null /\ movedAt = updatedAt
      BY <3>2 DEF Init
    <3>4. Room = [InitialState EXCEPT !.updatedAt = updatedAt]
      BY <3>2, <3>3 DEF Room, Load
    <3>5. Room.updatedAt = updatedAt /\ updatedAt \in Nat
      BY <3>1, <3>4, InputAssumption, TimingAssumption DEF InitialState
    <3> QED
      BY <3>3, <3>5 DEF EmptySinceUpdate
  <2> QED
    BY <2>1, <2>2 DEF Init
<1> QED
  BY <1>1, <1>2, <1>3 DEF Dated, RolesAreKnown

LEMMA NextDated ==
  ASSUME Dated, [Next]_vars, Faults \subseteq {"hibernate"}
  PROVE  Dated'
<1>1. ASSUME NEW s \in Sockets,
             \/ Accept(s) \/ RefuseHello(s) \/ LeaveRejected(s) \/ Ping(s)
             \/ Join(s) \/ Leave(s) \/ Frame(s)
      PROVE  Dated'
  BY <1>1, SocketOnlyDated, JoinDated, LeaveDated, FrameDated
<1>2. CASE AlarmTicks \/ AlarmExpires
  BY <1>2, AlarmTicksDated, AlarmExpiresDated
<1>3. CASE Restart \/ Crash
  BY <1>3 DEF Restart, Crash
<1>4. CASE Hibernate \/ Tick
  <2>1. Faithful' /\ Room' = Room
    BY <1>4, NextFaithful, HibernateStable, TickStable DEF Dated, Faithful
  <2>2. UNCHANGED <<sockets, pin, movedAt>>
    BY <1>4 DEF Hibernate, Tick
  <2> QED
    BY <2>1, <2>2, DatedKept
<1>5. CASE UNCHANGED vars
  <2>1. Faithful'
    BY NextFaithful DEF Dated
  <2>2. UNCHANGED <<sockets, pin, movedAt>> /\ Room' = Room
    BY <1>5 DEF vars, Room
  <2> QED
    BY <2>1, <2>2, DatedKept
<1> QED
  BY <1>1, <1>2, <1>3, <1>4, <1>5 DEF Next

\* Only the alarm of an expired room takes a PIN away.
LEMMA PinIsTakenByTheAlarm ==
  ASSUME [Next]_vars, pin.set, pin' # pin, Faults \subseteq {"hibernate"}
  PROVE  AlarmExpires
<1>1. \A s \in Sockets : Join(s) => pin' = pin
  BY DEF Join, PinAfter
<1>2. ASSUME NEW s \in Sockets,
             \/ Accept(s) \/ RefuseHello(s) \/ LeaveRejected(s) \/ Ping(s)
             \/ Leave(s) \/ Frame(s)
      PROVE  pin' = pin
  BY <1>2 DEF Accept, RefuseHello, LeaveRejected, Ping, Leave, Frame
<1>3. AlarmTicks \/ Hibernate \/ Tick \/ UNCHANGED vars => pin' = pin
  BY DEF AlarmTicks, Hibernate, Tick, vars
<1>4. ~Restart /\ ~Crash
  BY DEF Restart, Crash
<1> QED
  BY <1>1, <1>2, <1>3, <1>4 DEF Next

LEMMA StepExpires ==
  ASSUME Dated, [Next]_vars, pin.set, pin' # pin,
         ROOM_TTL_MS > 0, Faults \subseteq {"hibernate"}
  PROVE  /\ ~pin'.set
         /\ Open(sockets') = {}
         /\ Live(sockets) = {}
         /\ now >= movedAt + ROOM_TTL_MS
<1>1. AlarmExpires
  BY PinIsTakenByTheAlarm
<1>2. /\ pin' = NoPin /\ sockets' = Reaped /\ Open(Reaped) = {}
      /\ now >= AfterReaping.updatedAt + ROOM_TTL_MS
  BY <1>1 DEF AlarmExpires, RoomExpired
<1>3. Faithful /\ RolesAreKnown /\ TypeOK
  BY DEF Dated, Faithful, Stable
<1>4. /\ Room.updatedAt \in Nat /\ AfterReaping.updatedAt \in Nat
      /\ now \in Nat /\ movedAt \in Nat /\ ROOM_TTL_MS \in Nat
  BY <1>3, RoomType, AlarmStates, ReducerAssumption, TimingAssumption DEF RoomStates, TypeOK
<1>5. /\ AfterReaping.updatedAt >= Room.updatedAt
      /\ Live(sockets) # {} /\ Live(Reaped) = {} => AfterReaping.updatedAt >= now
  BY <1>3, AlarmClock
<1>6. Live(Reaped) = {}
  BY <1>2 DEF Live
<1>7. Live(sockets) = {}
  BY <1>2, <1>4, <1>5, <1>6
<1>8. movedAt <= Room.updatedAt
  BY <1>7 DEF Dated, EmptySinceUpdate
<1>9. now >= movedAt + ROOM_TTL_MS
  BY <1>2, <1>4, <1>5, <1>8
<1> QED
  BY <1>2, <1>7, <1>9 DEF NoPin

\* A room and its PIN live for ROOM_TTL_MS after the last peer left, however it
\* left (expireRoom), as long as the process is not restarted: a restart empties
\* the room without stamping it.
THEOREM RoomsOutliveTheirTTL ==
  ASSUME ROOM_TTL_MS > 0, Faults \subseteq {"hibernate"}
  PROVE  Spec => ExpiresOnlyAfterTTL
<1>1. Init => Dated
  BY InitDated
<1>2. Dated /\ [Next]_vars => Dated'
  BY NextDated
<1>3. Dated /\ [Next]_vars =>
        [pin.set /\ pin' # pin =>
           /\ ~pin'.set
           /\ Open(sockets') = {}
           /\ Live(sockets) = {}
           /\ now >= movedAt + ROOM_TTL_MS]_vars
  BY StepExpires
<1> QED
  BY <1>1, <1>2, <1>3, PTL DEF Spec, ExpiresOnlyAfterTTL
================================================================================

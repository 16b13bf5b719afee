--------------------------- MODULE RoomSystemProofs ---------------------------
(* For any clients, sockets and timings: only what a driver was shown is       *)
(* acked, and relay and clients implement one room that is watched.            *)
EXTENDS RoomSystem, SequenceTheorems, TLAPS

--------------------------------------------------------------------------------
(* What is proved of RaceRoom holds of the relay in the system.                *)

Facts == INSTANCE RaceRoomProofs WITH
  Texts <- {}, Pins <- {}, BadPin <- "malformed", CarReports <- {}, LegacyRooms <- {},
  Urls <- {[role |-> RoleOf[c], token |-> Null] : c \in Clients}

LEMMA FactsHold ==
  /\ Facts!ReducerAssumption /\ Facts!NoMessageAssumption
  /\ Facts!TimingAssumption /\ Facts!InputAssumption /\ Facts!UrlAssumption
<1>1. Facts!ReducerAssumption /\ Facts!NoMessageAssumption
  BY RelayAssumption DEF Relay!Messages, Facts!Messages
<1>2. Facts!TimingAssumption
  BY RelayAssumption
<1>3. Facts!InputAssumption
  BY RelayAssumption DEF Relay!RoomStates, Facts!RoomStates, Relay!Sides, Facts!Sides,
     Relay!Cars, Facts!Cars, Relay!Roles, Facts!Roles, Relay!Messages, Facts!Messages
<1>4. Facts!UrlAssumption
  BY RelayAssumption DEF Relay!Url, Facts!Url, Relay!Roles, Facts!Roles, Relay!Attachments,
     Facts!Attachments, Relay!Tokens, Facts!Tokens, Relay!CloseCodes, Facts!CloseCodes
<1> QED
  BY <1>1, <1>2, <1>3, <1>4

LEMMA SameStates ==
  /\ Relay!InitialState = Facts!InitialState /\ Relay!NoCars = Facts!NoCars
  /\ Relay!RoomStates = Facts!RoomStates
BY DEF Relay!InitialState, Facts!InitialState, Relay!NoCars, Facts!NoCars, Relay!Sides,
   Facts!Sides, Relay!Roles, Facts!Roles, Relay!RoomStates, Facts!RoomStates, Relay!Cars,
   Facts!Cars, Relay!Messages, Facts!Messages

LEMMA SameLoad == \A x : Relay!Load(x) = Facts!Load(x)
BY SameStates DEF Relay!Load, Facts!Load

LEMMA SameRoom == Relay!Room = Facts!Room /\ Relay!Room' = Facts!Room'
BY SameLoad DEF Relay!Room, Facts!Room

LEMMA SameEmpty == \A x : Relay!HudEmpty(x) = Facts!HudEmpty(x)
BY SameStates DEF Relay!HudEmpty, Facts!HudEmpty

LEMMA SameStamps ==
  \A x, t : /\ Relay!Changed(x, t) = Facts!Changed(x, t)
            /\ Relay!Called(x, t) = Facts!Called(x, t)
BY DEF Relay!Changed, Facts!Changed, Relay!Called, Facts!Called, Relay!Later, Facts!Later

LEMMA SamePeer == \A x, r, o, t : Relay!ReducePeer(x, r, o, t) = Facts!ReducePeer(x, r, o, t)
BY SameStamps DEF Relay!ReducePeer, Facts!ReducePeer

LEMMA SameLane == \A x, y, t : Relay!ReduceLane(x, y, t) = Facts!ReduceLane(x, y, t)
BY SameStamps DEF Relay!ReduceLane, Facts!ReduceLane

LEMMA SameMessage == \A x, y, t : Relay!ReduceMessage(x, y, t) = Facts!ReduceMessage(x, y, t)
BY SameStamps DEF Relay!ReduceMessage, Facts!ReduceMessage

LEMMA SameClear == \A x, t : Relay!ReduceClear(x, t) = Facts!ReduceClear(x, t)
BY SameStamps DEF Relay!ReduceClear, Facts!ReduceClear

LEMMA SameAck == \A x, y, t : Relay!ReduceAck(x, y, t) = Facts!ReduceAck(x, y, t)
BY SameStamps DEF Relay!ReduceAck, Facts!ReduceAck

LEMMA SameStale == \A x, t : Relay!ReduceStale(x, t) = Facts!ReduceStale(x, t)
BY SameStamps, SameEmpty, SameStates DEF Relay!ReduceStale, Facts!ReduceStale

LEMMA SameSockets == \A x : Relay!Open(x) = Facts!Open(x) /\ Relay!Live(x) = Facts!Live(x)
BY DEF Relay!Open, Facts!Open, Relay!Live, Facts!Live

LEMMA SameReconcile ==
  \A x, y : Relay!ReconcilePeers(x, y) = Facts!ReconcilePeers(x, y)
<1>1. \A x, r : Relay!HasReadyPeer(x, r) = Facts!HasReadyPeer(x, r)
  BY SameSockets DEF Relay!HasReadyPeer, Facts!HasReadyPeer
<1> QED
  BY <1>1, SamePeer DEF Relay!ReconcilePeers, Facts!ReconcilePeers

LEMMA SamePersist == \A x : Relay!Persist(x) = Facts!Persist(x)
BY SameRoom DEF Relay!Persist, Facts!Persist, Relay!Written, Facts!Written, Relay!V2, Facts!V2

LEMMA SameBroadcast == \A x, y : Relay!Broadcast(x, y) = Facts!Broadcast(x, y)
BY SameRoom, SameSockets DEF Relay!Broadcast, Facts!Broadcast

LEMMA SameAlarm ==
  \A x, y : /\ Relay!ScheduleAlarm(x, y) = Facts!ScheduleAlarm(x, y)
            /\ Relay!EarlierAlarmAt(x, y) = Facts!EarlierAlarmAt(x, y)
BY SameEmpty, SameSockets
   DEF Relay!ScheduleAlarm, Facts!ScheduleAlarm, Relay!NextAlarmAt, Facts!NextAlarmAt,
       Relay!Sooner, Facts!Sooner, Relay!StaleClearAt, Facts!StaleClearAt,
       Relay!EarlierAlarmAt, Facts!EarlierAlarmAt

LEMMA SameOutcomes == \A s : Relay!Outcomes(s) = Facts!Outcomes(s)
BY SameRoom, SameLane, SameMessage, SameClear, SameAck
   DEF Relay!Outcomes, Facts!Outcomes, Relay!SpotterOutcomes, Facts!SpotterOutcomes,
       Relay!DriverOutcomes, Facts!DriverOutcomes

LEMMA SameHandlers ==
  ASSUME NEW s
  PROVE  /\ Relay!Accept(s) = Facts!Accept(s) /\ Relay!Join(s) = Facts!Join(s)
         /\ Relay!Leave(s) = Facts!Leave(s) /\ Relay!LeaveRejected(s) = Facts!LeaveRejected(s)
         /\ Relay!Frame(s) = Facts!Frame(s)
<1>1. Relay!Accept(s) = Facts!Accept(s)
  BY DEF Relay!Accept, Facts!Accept
<1>2. Relay!Join(s) = Facts!Join(s)
  BY SameReconcile, SameSockets, SamePersist, SameBroadcast, SameAlarm, SameRoom
     DEF Relay!Join, Facts!Join, Relay!MayJoin, Facts!MayJoin, Relay!PinRefused,
         Facts!PinRefused, Relay!Joined, Facts!Joined, Relay!PinAfter, Facts!PinAfter
<1>3. Relay!Leave(s) = Facts!Leave(s)
  BY SameReconcile, SameSockets, SamePersist, SameBroadcast, SameAlarm, SameRoom
     DEF Relay!Leave, Facts!Leave, Relay!Without, Facts!Without
<1>4. Relay!LeaveRejected(s) = Facts!LeaveRejected(s)
  BY DEF Relay!LeaveRejected, Facts!LeaveRejected, Relay!Without, Facts!Without
<1>5. Relay!Frame(s) = Facts!Frame(s)
  BY SameOutcomes, SameSockets, SamePersist, SameBroadcast, SameAlarm, SameRoom
     DEF Relay!Frame, Facts!Frame, Relay!IdsAfter, Facts!IdsAfter
<1> QED
  BY <1>1, <1>2, <1>3, <1>4, <1>5

LEMMA SameAlarmTicks == Relay!AlarmTicks = Facts!AlarmTicks
<1>1. /\ Relay!Silent = Facts!Silent /\ Relay!Reaped = Facts!Reaped
      /\ Relay!AfterReaping = Facts!AfterReaping
  BY SameSockets, SameReconcile, SameRoom
     DEF Relay!Silent, Facts!Silent, Relay!Reaped, Facts!Reaped, Relay!AfterReaping,
         Facts!AfterReaping
<1> QED
  BY <1>1, SameSockets, SamePersist, SameBroadcast, SameAlarm, SameEmpty, SameStale
     DEF Relay!AlarmTicks, Facts!AlarmTicks, Relay!AlarmDue, Facts!AlarmDue,
         Relay!RoomExpired, Facts!RoomExpired, Relay!AfterStaleClear, Facts!AfterStaleClear,
         Relay!StaleClearDue, Facts!StaleClearDue, Relay!StaleClearAt, Facts!StaleClearAt,
         Relay!Vacated, Facts!Vacated

LEMMA SameRestart == Relay!Restart = Facts!Restart
BY SameSockets
   DEF Relay!Restart, Facts!Restart, Relay!Restarted, Facts!Restarted, Relay!Vacated,
       Facts!Vacated

LEMMA SameInit == Relay!Init = Facts!Init
BY DEF Relay!Init, Facts!Init, Relay!FreshRoom, Facts!FreshRoom, Relay!LegacyRoom,
   Facts!LegacyRoom, Relay!NoState, Facts!NoState, Relay!NoPin, Facts!NoPin, Relay!V1,
   Facts!V1

--------------------------------------------------------------------------------
(* The relay's side of a step.                                                 *)

RelayActs ==
  \/ \E s \in Sockets : \/ Relay!Accept(s) \/ Relay!Join(s) \/ Relay!Leave(s)
                        \/ Relay!LeaveRejected(s) \/ Relay!Frame(s)
  \/ Relay!AlarmTicks
  \/ Relay!Restart
  \/ UNCHANGED relayVars

RelaySound == Facts!Faithful

LEMMA RelayIsSound ==
  ASSUME RelaySound
  PROVE  /\ Facts!Stable
         /\ Relay!Room \in Relay!RoomStates /\ Relay!Room # Null
         /\ sockets \in [Sockets -> Facts!Attachments \union {Null}]
         /\ now \in Nat /\ nextId \in Nat
<1>1. Facts!Stable /\ Facts!TypeOK
  BY DEF RelaySound, Facts!Faithful, Facts!Stable
<1>2. Facts!Room \in Facts!RoomStates
  BY <1>1, Facts!RoomType, FactsHold
<1>3. Null \notin Facts!RoomStates
  BY FactsHold DEF Facts!InputAssumption
<1> QED
  BY <1>1, <1>2, <1>3, SameRoom, SameStates DEF Facts!TypeOK

LEMMA StaysSound ==
  ASSUME RelaySound, RelayActs
  PROVE  RelaySound'
<1>1. [Facts!Next]_(Facts!vars)
  BY SameHandlers, SameAlarmTicks, SameRestart DEF RelayActs, Facts!Next, Facts!vars, relayVars
<1> QED
  BY <1>1, Facts!NextFaithful, FactsHold DEF RelaySound

\* A handler leaves the message alone or takes it away, unless it is a frame's.
Keeps(next) ==
  /\ next = Relay!Room \/ next.seq > Relay!Room.seq
  /\ next.msg = Relay!Room.msg \/ next.msg = Null

LEMMA ReconcileKeeps ==
  ASSUME RelaySound, NEW socks
  PROVE  Keeps(Facts!ReconcilePeers(Relay!Room, socks))
BY RelayIsSound, SameStates, Facts!ReconcileFacts, FactsHold DEF Keeps

LEMMA StaleKeeps ==
  ASSUME NEW state \in Facts!RoomStates, NEW stamp \in Nat
  PROVE  LET next == Facts!ReduceStale(state, stamp)
         IN  next.msg = state.msg \/ next.msg = Null
BY DEF Facts!ReduceStale, Facts!Changed, Facts!RoomStates

LEMMA AlarmKeeps ==
  ASSUME RelaySound
  PROVE  Keeps(Facts!AfterStaleClear)
<1>1. Facts!Advances(Facts!AfterStaleClear)
  BY RelayIsSound, Facts!AlarmAdvances, FactsHold
<1>2. Facts!AfterReaping \in Facts!RoomStates
  BY RelayIsSound, Facts!AlarmStates, FactsHold DEF Facts!Stable
<1>3. Facts!AfterReaping.msg = Relay!Room.msg \/ Facts!AfterReaping.msg = Null
  BY ReconcileKeeps, SameRoom DEF Facts!AfterReaping, Keeps
<1>4. Facts!AfterStaleClear.msg = Facts!AfterReaping.msg \/ Facts!AfterStaleClear.msg = Null
  BY <1>2, StaleKeeps, RelayIsSound DEF Facts!AfterStaleClear
<1> QED
  BY <1>1, <1>3, <1>4, SameRoom DEF Keeps, Facts!Advances

LEMMA QuietStep ==
  ASSUME RelaySound,
         \/ \E s \in Sockets : \/ Relay!Accept(s) \/ Relay!Join(s) \/ Relay!Leave(s)
                               \/ Relay!LeaveRejected(s)
         \/ Relay!AlarmTicks \/ Relay!Restart \/ UNCHANGED relayVars
  PROVE  Keeps(Relay!Room')
<1>1. Facts!Stable /\ Keeps(Relay!Room)
  BY RelayIsSound DEF Keeps
<1>2. ASSUME NEW s \in Sockets,
             Facts!Accept(s) \/ Facts!Join(s) \/ Facts!Leave(s) \/ Facts!LeaveRejected(s)
      PROVE  Keeps(Facts!Room')
  <2>1. CASE Facts!Accept(s) \/ Facts!LeaveRejected(s)
    BY <1>1, <2>1, Facts!AcceptStable, Facts!LeaveRejectedStable, FactsHold, SameRoom
  <2>2. CASE Facts!Join(s)
    BY <1>1, <2>2, Facts!JoinStable, FactsHold, SameRoom, ReconcileKeeps
  <2>3. CASE Facts!Leave(s)
    <3>1. Facts!Room' = Facts!AfterLeave(s)
      BY <1>1, <2>3, Facts!LeaveStable, FactsHold
    <3> QED
      BY <1>1, <3>1, SameRoom, ReconcileKeeps DEF Facts!AfterLeave
  <2> QED
    BY <1>2, <2>1, <2>2, <2>3
<1>3. Facts!AlarmTicks => Keeps(Facts!Room')
  BY <1>1, Facts!AlarmTicksStable, AlarmKeeps, FactsHold
<1>4. Facts!Restart => Keeps(Facts!Room')
  BY <1>1, Facts!RestartStable, FactsHold, SameRoom
<1>5. UNCHANGED relayVars => Keeps(Facts!Room')
  <2>1. UNCHANGED relayVars => Facts!Room' = Facts!Room
    BY DEF relayVars, Facts!Room
  <2> QED
    BY <1>1, <2>1, SameRoom
<1>6. Relay!Room' = Facts!Room'
  BY SameRoom
<1> QED
  BY <1>2, <1>3, <1>4, <1>5, <1>6, SameHandlers, SameAlarmTicks, SameRestart

LEMMA FrameStep ==
  ASSUME RelaySound, NEW s \in Sockets, Relay!Frame(s)
  PROVE  /\ Relay!Room' = cache'
         /\ Relay!Room' = Relay!Room \/ Relay!Room'.seq > Relay!Room.seq
<1>1. Facts!Stable /\ Facts!Frame(s)
  BY RelayIsSound, SameHandlers
<1>2. Facts!Room' \in Facts!Outcomes(s)
  BY <1>1, Facts!FrameStable, FactsHold
<1>3. Facts!Advances(Facts!Room')
  BY <1>1, <1>2, Facts!OutcomeAdvances, FactsHold
<1>4. PICK next \in Facts!Outcomes(s) : cache' = next
  BY <1>1 DEF Facts!Frame, Facts!Persist
<1>5. next \in Facts!RoomStates
  BY <1>1, <1>4, Facts!OutcomeAdvances, FactsHold DEF Facts!Advances
<1>6. cache' # Null
  BY <1>4, <1>5, FactsHold DEF Facts!InputAssumption
<1>7. Facts!Room' = cache'
  BY <1>6 DEF Facts!Room
<1> QED
  BY <1>3, <1>7, SameRoom DEF Facts!Advances

\* Acked means that a driver was shown it.
AckSeen(state, ids) == state.msg # Null /\ state.msg.acked => state.msg.id \in ids

Kept == [kind : {"lane", "msg"}, says : Lanes \union {Null}]
AcksOf(ids) == [kind : {"ack"}, says : ids]

LEMMA KeptFrame ==
  ASSUME NEW state \in Relay!RoomStates, NEW stamp, NEW lane, NEW newId, NEW ids,
         AckSeen(state, ids)
  PROVE  /\ AckSeen(Relay!ReduceLane(state, lane, stamp), ids)
         /\ AckSeen(Relay!ReduceMessage(state, newId, stamp), ids)
<1>1. Relay!ReduceLane(state, lane, stamp).msg = state.msg
  BY DEF Relay!ReduceLane, Relay!Called, Relay!Changed, Relay!RoomStates
<1>2. Relay!ReduceMessage(state, newId, stamp).msg = [id |-> newId, acked |-> FALSE]
  BY DEF Relay!ReduceMessage, Relay!Called, Relay!Changed, Relay!RoomStates
<1> QED
  BY <1>1, <1>2 DEF AckSeen

LEMMA AckFrame ==
  ASSUME NEW state \in Relay!RoomStates, NEW stamp, NEW ids, NEW id \in ids,
         AckSeen(state, ids)
  PROVE  AckSeen(Relay!ReduceAck(state, id, stamp), ids)
<1>1. CASE state.msg # Null /\ state.msg.id = id /\ ~state.msg.acked
  <2>1. state.msg \in Relay!Messages
    BY <1>1 DEF Relay!RoomStates
  <2>2. Relay!ReduceAck(state, id, stamp).msg = [state.msg EXCEPT !.acked = TRUE]
    BY <1>1 DEF Relay!ReduceAck, Relay!Changed, Relay!RoomStates
  <2>3. [state.msg EXCEPT !.acked = TRUE].id = id
    BY <1>1, <2>1 DEF Relay!Messages
  <2> QED
    BY <2>2, <2>3 DEF AckSeen
<1>2. CASE ~(state.msg # Null /\ state.msg.id = id /\ ~state.msg.acked)
  BY <1>2 DEF Relay!ReduceAck
<1> QED
  BY <1>1, <1>2

LEMMA ReducedSeen ==
  ASSUME RelaySound, NEW ids, AckSeen(Relay!Room, ids), NEW call \in Kept \union AcksOf(ids)
  PROVE  AckSeen(Reduced(call), ids)
<1>1. Relay!Room \in Relay!RoomStates
  BY RelayIsSound
<1> QED
  BY <1>1, KeptFrame, AckFrame DEF Reduced, Kept, AcksOf

--------------------------------------------------------------------------------
(* The client's operators: what they keep of a link, its socket and its wires. *)

HandedOf(ids) == [intent : Kept \union AcksOf(ids), to : {Url}, synced : BOOLEAN]

LinkFields ==
  {"url", "socket", "status", "replayed", "lastSeen", "heard", "openAge", "ping", "connect",
   "retry", "backoff", "lane", "cars", "messages", "wires", "rejected", "handed"}

\* Nothing pending is an ack, and an ack that was handed over was seen.
IsLink(l, ids) ==
  /\ DOMAIN l = LinkFields
  /\ l.url \in {Null, Url} /\ l.socket \in Sockets \union {Null}
  /\ l.wires \in [Sockets -> Client!Wires \union {Null}]
  /\ l.socket # Null => l.wires[l.socket] # Null
  /\ l.lane \in Kept \union {Null} /\ l.cars = Null /\ l.messages \in Seq(Kept)
  /\ l.handed \in Seq(HandedOf(ids))

\* Sockets are given up and not lost, and a new one is taken only from slots.
Goes(l, m, slots) ==
  /\ m.socket \in {l.socket, Null} \union slots
  /\ \A s \in Sockets : l.wires[s] # Null => m.wires[s] # Null

LEMMA ClearedLink ==
  ASSUME NEW ids, NEW l, IsLink(l, ids)
  PROVE  /\ IsLink(Client!ClearTimers(l), ids) /\ Goes(l, Client!ClearTimers(l), {})
         /\ IsLink(Client!ClearPending(l), ids) /\ Goes(l, Client!ClearPending(l), {})
<1>1. IsLink(Client!ClearTimers(l), ids) /\ Goes(l, Client!ClearTimers(l), {})
  BY DEF Client!ClearTimers, IsLink, Goes, LinkFields
<1>2. IsLink(Client!ClearPending(l), ids) /\ Goes(l, Client!ClearPending(l), {})
  BY DEF Client!ClearPending, IsLink, Goes, LinkFields
<1> QED
  BY <1>1, <1>2

WireTable == [Sockets -> Client!Wires \union {Null}]

LEMMA WireFacts ==
  /\ Null \notin Client!Wires /\ Null \notin Sockets /\ Null # Url
  /\ Client!NewWire(Url) \in Client!Wires
  /\ \A w \in Client!Wires : [w EXCEPT !.closed = TRUE] \in Client!Wires
  /\ \A w \in Client!Wires : [w EXCEPT !.phase = "open"] \in Client!Wires
BY ClientAssumption
   DEF Client!NoSocketAssumption, Client!NullAssumption, Client!NewWire, Client!Wires

LEMMA WirePut ==
  ASSUME NEW wires \in WireTable, NEW s \in Sockets, NEW w \in Client!Wires
  PROVE  LET next == [wires EXCEPT ![s] = w]
         IN  /\ next \in WireTable
             /\ next[s] = w
             /\ \A r \in Sockets : wires[r] # Null => next[r] # Null
BY WireFacts DEF WireTable

\* A link with another socket, url and wires.
LEMMA Rewired ==
  ASSUME NEW ids, NEW l, IsLink(l, ids), NEW m, NEW slots,
         DOMAIN m = LinkFields, m.url \in {Null, Url},
         m.socket \in Sockets \union {Null}, m.socket \in {l.socket, Null} \union slots,
         m.wires \in WireTable,
         m.socket # Null => m.wires[m.socket] # Null,
         \A s \in Sockets : l.wires[s] # Null => m.wires[s] # Null,
         m.lane = l.lane, m.cars = l.cars, m.messages = l.messages, m.handed = l.handed
  PROVE  IsLink(m, ids) /\ Goes(l, m, slots)
BY DEF IsLink, Goes, WireTable

LEMMA RetiredLink ==
  ASSUME NEW ids, NEW l, IsLink(l, ids)
  PROVE  LET m == Client!Retire(l)
         IN  IsLink(m, ids) /\ Goes(l, m, {}) /\ m.socket = Null /\ m.url = l.url
<1>1. CASE l.socket = Null
  BY <1>1 DEF Client!Retire, Goes
<1>2. CASE l.socket # Null
  <2> DEFINE w == [l.wires[l.socket] EXCEPT !.closed = TRUE]
             wires == [l.wires EXCEPT ![l.socket] = w]
             m == Client!Retire(l)
  <2>1. l.wires \in WireTable /\ l.socket \in Sockets /\ l.wires[l.socket] \in Client!Wires
    BY <1>2 DEF IsLink, WireTable
  <2>2. w \in Client!Wires
    BY <2>1, WireFacts
  <2>3. m = [l EXCEPT !.socket = Null, !.openAge = 0, !.wires = wires]
    BY <1>2, <2>1 DEF Client!Retire, IsLink, LinkFields
  <2> HIDE DEF w
  <2>4. wires \in WireTable /\ \A s \in Sockets : l.wires[s] # Null => wires[s] # Null
    BY <2>1, <2>2, WirePut
  <2> HIDE DEF wires, m
  <2>5. /\ DOMAIN m = LinkFields /\ m.url = l.url /\ m.socket = Null /\ m.wires = wires
        /\ m.lane = l.lane /\ m.cars = l.cars /\ m.messages = l.messages
        /\ m.handed = l.handed
    BY <2>3 DEF IsLink, LinkFields
  <2>6. m.url \in {Null, Url}
    BY <2>5 DEF IsLink
  <2>7. IsLink(m, ids) /\ Goes(l, m, {})
    BY <2>4, <2>5, <2>6, Rewired
  <2> QED
    BY <2>5, <2>7 DEF m
<1> QED
  BY <1>1, <1>2

LEMMA OpenedLink ==
  ASSUME NEW ids, NEW l, IsLink(l, ids), NEW s \in Sockets
  PROVE  LET m == Client!OpenSocket(l, s)
         IN  IsLink(m, ids) /\ Goes(l, m, {s}) /\ m.url = l.url
<1>1. CASE l.url = Null
  BY <1>1 DEF Client!OpenSocket, Goes
<1>2. CASE l.url # Null
  <2> DEFINE w == Client!NewWire(l.url)
             wires == [l.wires EXCEPT ![s] = w]
             m == Client!OpenSocket(l, s)
             timer == Client!Timer(1, s)
  <2>1. l.wires \in WireTable /\ l.url = Url
    BY <1>2 DEF IsLink, WireTable
  <2>2. w \in Client!Wires
    BY <2>1, WireFacts
  <2>3. m = [l EXCEPT !.ping = Null, !.replayed = FALSE, !.lastSeen = 0, !.heard = Null,
                      !.status = "connecting", !.socket = s, !.wires = wires,
                      !.rejected = FALSE, !.connect = timer]
    BY <1>2, <2>1 DEF Client!OpenSocket, IsLink, LinkFields
  <2> HIDE DEF w, timer
  <2>4. /\ wires \in WireTable /\ wires[s] # Null
        /\ \A r \in Sockets : l.wires[r] # Null => wires[r] # Null
    BY <2>1, <2>2, WirePut, WireFacts
  <2> HIDE DEF wires, m
  <2>5. /\ DOMAIN m = LinkFields /\ m.url = l.url /\ m.socket = s /\ m.wires = wires
        /\ m.lane = l.lane /\ m.cars = l.cars /\ m.messages = l.messages
        /\ m.handed = l.handed
    BY <2>3 DEF IsLink, LinkFields
  <2>6. m.url \in {Null, Url} /\ m.socket \in Sockets \union {Null}
        /\ m.socket \in {l.socket, Null} \union {s}
    BY <2>5 DEF IsLink
  <2>7. IsLink(m, ids) /\ Goes(l, m, {s})
    BY <2>4, <2>5, <2>6, Rewired
  <2> QED
    BY <2>5, <2>7 DEF m
<1> QED
  BY <1>1, <1>2

LEMMA BoundLink ==
  ASSUME NEW ids, NEW l, IsLink(l, ids), NEW url \in {Null, Url}
  PROVE  LET m == [l EXCEPT !.url = url]
         IN  IsLink(m, ids) /\ Goes(l, m, {}) /\ m.url = url
BY DEF IsLink, Goes, LinkFields

LEMMA GoesOn ==
  ASSUME NEW l, NEW m, NEW n, NEW a, NEW b, Goes(l, m, a), Goes(m, n, b)
  PROVE  Goes(l, n, a \union b)
BY DEF Goes

LEMMA ClearedUrl ==
  ASSUME NEW ids, NEW l, IsLink(l, ids)
  PROVE  Client!ClearTimers(l).url = l.url /\ Client!ClearPending(l).url = l.url
BY DEF Client!ClearTimers, Client!ClearPending, IsLink, LinkFields

LEMMA ConnectedLink ==
  ASSUME NEW ids, NEW l, IsLink(l, ids), NEW s \in Sockets
  PROVE  LET m == Client!Connect(l, Url, s)
         IN  IsLink(m, ids) /\ Goes(l, m, {s}) /\ m.url = Url
<1> DEFINE named == [l EXCEPT !.url = Url]
           idle == Client!ClearTimers(named)
           bound == Client!Retire(idle)
           empty == Client!ClearPending(bound)
           start == IF l.url \in {Null, Url} THEN bound ELSE empty
           m == Client!Connect(l, Url, s)
<1>1. CASE Client!Healthy(l, Url)
  BY <1>1 DEF Client!Connect, Goes, Client!Healthy
<1>2. CASE ~Client!Healthy(l, Url)
  <2>1. m = Client!OpenSocket(start, s)
    BY <1>2 DEF Client!Connect
  <2>2. IsLink(named, ids) /\ Goes(l, named, {}) /\ named.url = Url
    BY BoundLink
  <2> HIDE DEF named
  <2>3. IsLink(idle, ids) /\ Goes(named, idle, {}) /\ idle.url = Url
    BY <2>2, ClearedLink, ClearedUrl
  <2> HIDE DEF idle
  <2>4. IsLink(bound, ids) /\ Goes(idle, bound, {}) /\ bound.url = Url
    BY <2>3, RetiredLink
  <2> HIDE DEF bound
  <2>5. IsLink(empty, ids) /\ Goes(bound, empty, {}) /\ empty.url = Url
    BY <2>4, ClearedLink, ClearedUrl
  <2> HIDE DEF empty
  <2>6. IsLink(start, ids) /\ Goes(l, start, {}) /\ start.url = Url
    <3>1. Goes(l, idle, {})
      BY <2>2, <2>3, GoesOn
    <3>2. Goes(l, bound, {})
      BY <2>4, <3>1, GoesOn
    <3>3. Goes(l, empty, {})
      BY <2>5, <3>2, GoesOn
    <3> QED
      BY <2>4, <2>5, <3>2, <3>3
  <2> HIDE DEF start, m
  <2>7. IsLink(m, ids) /\ Goes(start, m, {s}) /\ m.url = Url
    BY <2>1, <2>6, OpenedLink
  <2>8. Goes(l, m, {s})
    BY <2>6, <2>7, GoesOn
  <2> QED
    BY <2>7, <2>8 DEF m
<1> QED
  BY <1>1, <1>2

LEMMA DisconnectedLink ==
  ASSUME NEW ids, NEW l, IsLink(l, ids)
  PROVE  LET m == Client!Disconnect(l)
         IN  IsLink(m, ids) /\ Goes(l, m, {}) /\ m.url = Null
<1> DEFINE idle == Client!ClearTimers(l)
           bound == Client!Retire(idle)
           empty == Client!ClearPending(bound)
           m == Client!Disconnect(l)
<1>1. IsLink(idle, ids) /\ Goes(l, idle, {})
  BY ClearedLink
<1> HIDE DEF idle
<1>2. IsLink(bound, ids) /\ Goes(idle, bound, {})
  BY <1>1, RetiredLink
<1> HIDE DEF bound
<1>3. IsLink(empty, ids) /\ Goes(bound, empty, {})
  BY <1>2, ClearedLink
<1> HIDE DEF empty
<1>4. Goes(l, empty, {})
  <2>1. Goes(l, bound, {})
    BY <1>1, <1>2, GoesOn
  <2> QED
    BY <2>1, <1>3, GoesOn
<1>5. m = [empty EXCEPT !.url = Null, !.replayed = FALSE, !.heard = Null,
                        !.status = "closed", !.rejected = FALSE]
  BY DEF Client!Disconnect, empty, bound, idle
<1> HIDE DEF m
<1>6. /\ DOMAIN m = LinkFields /\ m.url = Null /\ m.socket = empty.socket
      /\ m.wires = empty.wires /\ m.lane = empty.lane /\ m.cars = empty.cars
      /\ m.messages = empty.messages /\ m.handed = empty.handed
  BY <1>3, <1>5 DEF IsLink, LinkFields
<1>7. IsLink(m, ids) /\ Goes(l, m, {}) /\ m.url = Null
  BY <1>3, <1>4, <1>6 DEF IsLink, Goes
<1> QED
  BY <1>7 DEF m

--------------------------------------------------------------------------------
(* What is handed to a socket.                                                 *)

Says(ids) == Kept \union AcksOf(ids)

LEMMA TransmittedLink ==
  ASSUME NEW ids, NEW l, IsLink(l, ids), NEW intents \in Seq(Says(ids))
  PROVE  LET m == Client!Transmit(l, intents)
         IN  IsLink(m, ids) /\ Goes(l, m, {}) /\ m.url = l.url /\ m.lastSeen = l.lastSeen
<1>1. CASE l.socket = Null
  BY <1>1 DEF Client!Transmit, Goes
<1>2. CASE l.socket # Null
  <2> DEFINE wire == l.wires[l.socket]
             more == [i \in DOMAIN intents |->
                        [intent |-> intents[i], to |-> wire.url, synced |-> wire.synced]]
             all == l.handed \o more
             m == Client!Transmit(l, intents)
  <2>1. wire \in Client!Wires
    BY <1>2 DEF IsLink
  <2>2. wire.url \in {Url} /\ wire.synced \in BOOLEAN
    BY <2>1 DEF Client!Wires
  <2>3. m = [l EXCEPT !.handed = all]
    BY <1>2 DEF Client!Transmit
  <2> HIDE DEF wire
  <2>4. more \in Seq(HandedOf(ids))
    <3>1. DOMAIN intents = 1 .. Len(intents) /\ Len(intents) \in Nat
      BY LenProperties
    <3>2. \A i \in 1 .. Len(intents) : intents[i] \in Says(ids)
      BY ElementOfSeq
    <3> QED
      BY <2>2, <3>1, <3>2 DEF HandedOf, Says
  <2> HIDE DEF more
  <2>5. all \in Seq(HandedOf(ids))
    BY <2>4, ConcatProperties DEF IsLink
  <2> HIDE DEF all, m
  <2>6. /\ DOMAIN m = LinkFields /\ m.url = l.url /\ m.socket = l.socket /\ m.wires = l.wires
        /\ m.lane = l.lane /\ m.cars = l.cars /\ m.messages = l.messages
        /\ m.handed = all /\ m.lastSeen = l.lastSeen
    BY <2>3 DEF IsLink, LinkFields
  <2>7. IsLink(m, ids) /\ Goes(l, m, {})
    BY <2>5, <2>6 DEF IsLink, Goes
  <2> QED
    BY <2>6, <2>7 DEF m
<1> QED
  BY <1>1, <1>2

LEMMA QueuedLink ==
  ASSUME NEW ids, NEW l, IsLink(l, ids), NEW intent \in Kept
  PROVE  LET m == Client!Queue(l, intent) IN IsLink(m, ids) /\ Goes(l, m, {})
<1>1. intent.kind \in {"lane", "msg"}
  BY DEF Kept
<1>2. CASE intent.kind = "lane"
  BY <1>2 DEF Client!Queue, IsLink, Goes, LinkFields
<1>3. CASE intent.kind = "msg"
  <2> DEFINE all == Append(l.messages, intent)
             m == Client!Queue(l, intent)
  <2>1. all \in Seq(Kept)
    BY AppendProperties DEF IsLink
  <2>2. m = [l EXCEPT !.messages = all]
    BY <1>3 DEF Client!Queue
  <2> HIDE DEF all
  <2> QED
    BY <2>1, <2>2 DEF IsLink, Goes, LinkFields
<1> QED
  BY <1>1, <1>2, <1>3

LEMMA SentLink ==
  ASSUME NEW ids, NEW l, IsLink(l, ids), NEW intent \in Says(ids)
  PROVE  LET m == Client!Send(l, intent) IN IsLink(m, ids) /\ Goes(l, m, {})
<1>1. CASE l.socket # Null /\ l.replayed
  <2> DEFINE one == <<intent>>
  <2>1. one \in Seq(Says(ids))
    OBVIOUS
  <2>2. Client!Send(l, intent) = Client!Transmit(l, one)
    BY <1>1 DEF Client!Send
  <2> HIDE DEF one
  <2> QED
    BY <2>1, <2>2, TransmittedLink
<1>2. CASE ~(l.socket # Null /\ l.replayed) /\ intent.kind = "ack"
  BY <1>2 DEF Client!Send, Goes
<1>3. CASE ~(l.socket # Null /\ l.replayed) /\ intent.kind # "ack"
  <2>1. intent \in Kept
    BY <1>3 DEF Says, AcksOf
  <2> QED
    BY <1>3, <2>1, QueuedLink DEF Client!Send
<1> QED
  BY <1>1, <1>2, <1>3

LEMMA PendingType ==
  ASSUME NEW ids, NEW l, IsLink(l, ids)
  PROVE  Client!Pending(l) \in Seq(Says(ids))
<1> DEFINE lane == IF l.lane = Null THEN <<>> ELSE <<l.lane>>
           cars == IF l.cars = Null THEN <<>> ELSE <<l.cars>>
<1>1. lane \in Seq(Says(ids))
  <2>1. l.lane = Null => lane = <<>>
    OBVIOUS
  <2>2. ASSUME NEW x \in Says(ids) PROVE <<x>> \in Seq(Says(ids))
    OBVIOUS
  <2>3. l.lane # Null => l.lane \in Says(ids)
    BY DEF IsLink, Says
  <2>4. <<>> \in Seq(Says(ids))
    OBVIOUS
  <2> QED
    BY <2>1, <2>2, <2>3, <2>4
<1>2. cars \in Seq(Says(ids))
  BY DEF IsLink
<1>3. l.messages \in Seq(Says(ids))
  <2>1. l.messages \in Seq(Kept)
    BY DEF IsLink
  <2>2. Len(l.messages) \in Nat /\ \A i \in 1 .. Len(l.messages) : l.messages[i] \in Says(ids)
    BY <2>1, ElementOfSeq, LenProperties DEF Says
  <2> QED
    BY <2>1, <2>2, LenProperties, IsASeq
<1>4. Client!Pending(l) = (lane \o cars) \o l.messages
  BY DEF Client!Pending
<1> HIDE DEF lane, cars
<1> QED
  BY <1>1, <1>2, <1>3, <1>4, ConcatProperties

LEMMA FlushedLink ==
  ASSUME NEW ids, NEW l, IsLink(l, ids)
  PROVE  LET m == Client!FlushPending(l)
         IN  IsLink(m, ids) /\ Goes(l, m, {}) /\ m.lastSeen = l.lastSeen
<1> DEFINE empty == Client!ClearPending(l)
           pending == Client!Pending(l)
           m == Client!FlushPending(l)
<1>1. IsLink(empty, ids) /\ Goes(l, empty, {})
  BY ClearedLink
<1>2. empty.lastSeen = l.lastSeen
  BY DEF Client!ClearPending, IsLink, LinkFields
<1>3. pending \in Seq(Says(ids)) /\ m = Client!Transmit(empty, pending)
  BY PendingType DEF Client!FlushPending
<1> HIDE DEF empty, pending, m
<1>4. IsLink(m, ids) /\ Goes(empty, m, {}) /\ m.lastSeen = empty.lastSeen
  BY <1>1, <1>3, TransmittedLink
<1>5. Goes(l, m, {})
  BY <1>1, <1>4, GoesOn
<1> QED
  BY <1>2, <1>4, <1>5 DEF m

--------------------------------------------------------------------------------
(* The events of a socket.                                                     *)

LEMMA OpenEventLink ==
  ASSUME NEW ids, NEW l, IsLink(l, ids), NEW s \in Sockets
  PROVE  LET m == Client!HandleOpen(l, s) IN IsLink(m, ids) /\ Goes(l, m, {})
BY DEF Client!HandleOpen, IsLink, Goes, LinkFields

LEMMA StateEventLink ==
  ASSUME NEW ids, NEW l, IsLink(l, ids), NEW s \in Sockets, NEW seq
  PROVE  LET m == Client!HandleMessage(l, s, seq, Null)
         IN  /\ IsLink(m, ids) /\ Goes(l, m, {})
             /\ m.lastSeen # l.lastSeen => l.socket = s
<1> DEFINE heard == [l EXCEPT !.heard = 0, !.openAge = 0]
           told == [l EXCEPT !.heard = 0, !.openAge = 0, !.lastSeen = seq]
           back == [told EXCEPT !.replayed = TRUE, !.backoff = RECONNECT_MIN_MS]
           m == Client!HandleMessage(l, s, seq, Null)
<1>1. /\ IsLink(heard, ids) /\ Goes(l, heard, {}) /\ heard.lastSeen = l.lastSeen
      /\ IsLink(told, ids) /\ Goes(l, told, {})
  BY DEF IsLink, Goes, LinkFields
<1>2. m = l \/ m = heard \/ (l.socket = s /\ (m = told \/ m = Client!FlushPending(back)))
  BY DEF Client!HandleMessage
<1> HIDE DEF heard, told
<1>3. IsLink(back, ids) /\ Goes(told, back, {})
  BY <1>1 DEF IsLink, Goes, LinkFields
<1> HIDE DEF back
<1>4. IsLink(Client!FlushPending(back), ids) /\ Goes(back, Client!FlushPending(back), {})
  BY <1>3, FlushedLink
<1>5. Goes(l, back, {})
  BY <1>1, <1>3, GoesOn
<1>6. Goes(l, Client!FlushPending(back), {})
  BY <1>4, <1>5, GoesOn
<1>7. Goes(l, l, {})
  BY DEF Goes
<1> HIDE DEF m
<1>8. IsLink(m, ids) /\ Goes(l, m, {}) /\ (m.lastSeen # l.lastSeen => l.socket = s)
  BY <1>1, <1>2, <1>4, <1>6, <1>7
<1> QED
  BY <1>8 DEF m

LEMMA RetryLink ==
  ASSUME NEW ids, NEW l, IsLink(l, ids), NEW delay
  PROVE  LET m == Client!ScheduleReconnect(l, delay) IN IsLink(m, ids) /\ Goes(l, m, {})
BY DEF Client!ScheduleReconnect, IsLink, Goes, LinkFields

LEMMA DroppedLink ==
  ASSUME NEW ids, NEW l, IsLink(l, ids), NEW s, NEW m \in Client!DropDeadSocket(l, s)
  PROVE  IsLink(m, ids) /\ Goes(l, m, {})
<1> DEFINE quiet == [l EXCEPT !.connect = Null, !.ping = Null]
           bare == Client!Retire(quiet)
           over == [bare EXCEPT !.replayed = FALSE, !.heard = Null, !.status = "closed"]
<1>1. CASE m = l
  BY <1>1 DEF Goes
<1>2. CASE \E delay : m = Client!ScheduleReconnect(over, delay)
  <2>1. IsLink(quiet, ids) /\ Goes(l, quiet, {})
    BY DEF IsLink, Goes, LinkFields
  <2> HIDE DEF quiet
  <2>2. IsLink(bare, ids) /\ Goes(quiet, bare, {})
    BY <2>1, RetiredLink
  <2> HIDE DEF bare
  <2>3. IsLink(over, ids) /\ Goes(bare, over, {})
    BY <2>2 DEF IsLink, Goes, LinkFields
  <2> HIDE DEF over
  <2>4. PICK delay : m = Client!ScheduleReconnect(over, delay)
    BY <1>2
  <2>5. IsLink(m, ids) /\ Goes(over, m, {})
    BY <2>3, <2>4, RetryLink
  <2>6. Goes(l, bare, {})
    BY <2>1, <2>2, GoesOn
  <2>7. Goes(l, over, {})
    BY <2>3, <2>6, GoesOn
  <2> QED
    BY <2>5, <2>7, GoesOn
<1> QED
  BY <1>1, <1>2 DEF Client!DropDeadSocket

\* A socket that is gone is no longer a wire.
GoesBut(l, m, s) ==
  /\ m.socket \in {l.socket, Null}
  /\ \A r \in Sockets \ {s} : l.wires[r] # Null => m.wires[r] # Null

LEMMA GoneLink ==
  ASSUME NEW ids, NEW l, IsLink(l, ids), NEW s \in Sockets, NEW terminal
  PROVE  LET gone == Client!Gone(l, s)
             m == Client!Closed(gone, terminal)
         IN  /\ l.socket # s => IsLink(gone, ids) /\ GoesBut(l, gone, s)
             /\ l.socket = s => IsLink(m, ids) /\ GoesBut(l, m, s) /\ m.url = l.url
             /\ gone.socket = l.socket /\ gone.backoff = l.backoff
<1> DEFINE wires == [l.wires EXCEPT ![s] = Null]
           gone == Client!Gone(l, s)
           m == Client!Closed(gone, terminal)
<1>1. /\ wires \in WireTable
      /\ \A r \in Sockets \ {s} : wires[r] = l.wires[r]
  BY DEF IsLink, WireTable
<1>2. gone = [l EXCEPT !.wires = wires]
  BY DEF Client!Gone
<1> HIDE DEF wires
<1>3. /\ DOMAIN gone = LinkFields /\ gone.url = l.url /\ gone.socket = l.socket
      /\ gone.wires = wires /\ gone.lane = l.lane /\ gone.cars = l.cars
      /\ gone.messages = l.messages /\ gone.handed = l.handed /\ gone.backoff = l.backoff
  BY <1>2 DEF IsLink, LinkFields
<1> HIDE DEF gone
<1>4. l.socket # s => IsLink(gone, ids) /\ GoesBut(l, gone, s)
  BY <1>1, <1>3 DEF IsLink, GoesBut, WireTable
<1>5. /\ DOMAIN m = LinkFields /\ m.url = l.url /\ m.socket = Null /\ m.wires = wires
      /\ m.lane \in {Null, l.lane} /\ m.cars \in {Null, l.cars}
      /\ m.messages = l.messages \/ m.messages = <<>>
      /\ m.handed = l.handed
  BY <1>3 DEF Client!Closed, Client!ClearPending, LinkFields
<1>6. IsLink(m, ids) /\ GoesBut(l, m, s)
  <2>1. <<>> \in Seq(Kept)
    OBVIOUS
  <2> HIDE DEF m
  <2> QED
    BY <1>1, <1>5, <2>1 DEF IsLink, GoesBut, WireTable
<1> QED
  BY <1>3, <1>4, <1>5, <1>6 DEF gone

LEMMA GoesButOn ==
  ASSUME NEW l, NEW m, NEW n, NEW s, GoesBut(l, m, s), Goes(m, n, {})
  PROVE  GoesBut(l, n, s)
BY DEF GoesBut, Goes

LEMMA CloseEventLink ==
  ASSUME NEW ids, NEW l, IsLink(l, ids), NEW s \in Sockets, NEW terminal \in BOOLEAN,
         NEW m \in Client!HandleClose(Client!Gone(l, s), s, terminal, s), m.url = l.url
  PROVE  IsLink(m, ids) /\ GoesBut(l, m, s)
<1> DEFINE gone == Client!Gone(l, s)
           over == Client!Closed(gone, terminal)
<1>1. CASE l.socket # s
  BY <1>1, GoneLink DEF Client!HandleClose
<1>2. CASE l.socket = s
  <2>1. IsLink(over, ids) /\ GoesBut(l, over, s) /\ over.url = l.url /\ gone.socket = s
    BY <1>2, GoneLink
  <2>2. \/ terminal = TRUE /\ m \in Client!Reactions(over, s)
        \/ \E delay : m = Client!ScheduleReconnect(over, delay)
    BY <2>1 DEF Client!HandleClose
  <2> HIDE DEF over, gone
  <2>3. CASE m = over
    BY <2>1, <2>3
  <2>4. CASE \E delay : m = Client!ScheduleReconnect(over, delay)
    <3>1. PICK delay : m = Client!ScheduleReconnect(over, delay)
      BY <2>4
    <3>2. IsLink(m, ids) /\ Goes(over, m, {})
      BY <2>1, <3>1, RetryLink
    <3> QED
      BY <2>1, <3>2, GoesButOn
  <2>5. CASE m = Client!Disconnect(over)
    <3>1. IsLink(m, ids) /\ Goes(over, m, {})
      BY <2>1, <2>5, DisconnectedLink
    <3> QED
      BY <2>1, <3>1, GoesButOn
  <2>6. CASE \E url \in {Url} \ {over.url} : m = Client!Connect(Client!Disconnect(over), url, s)
    <3> DEFINE left == Client!Disconnect(over)
    <3>1. over.url # Url /\ m = Client!Connect(left, Url, s)
      BY <2>6
    <3>2. IsLink(left, ids)
      BY <2>1, DisconnectedLink
    <3> HIDE DEF left
    <3>3. m.url = Url
      BY <3>1, <3>2, ConnectedLink
    <3> QED
      BY <2>1, <3>1, <3>3
  <2> QED
    BY <2>2, <2>3, <2>4, <2>5, <2>6 DEF Client!Reactions
<1> QED
  BY <1>1, <1>2

--------------------------------------------------------------------------------
(* What is underway on the connections, and what the clients show.             *)

Frames(ids) == {Hello, Bye} \union Says(ids)
Events ==
  {Opened} \union [event : {"state"}, state : Relay!RoomStates]
           \union [event : {"close"}, code : Relay!CloseCodes \union {"gone", "lost"}]

\* Every link with nothing left to hand over, and every channel with what its
\* end can read.
LinksSound ==
  /\ DOMAIN links = Clients
  /\ \A c \in Clients : IsLink(links[c], seen) /\ links[c].handed = <<>>

UpSound   == up \in [Sockets -> Seq(Frames(seen))]
DownSound == down \in [Sockets -> Seq(Events)]

\* What a driver shows is what it was shown.
ShownSound ==
  /\ shown \in [Clients -> Relay!RoomStates \union {Null}]
  /\ \A c \in Clients :
       RoleOf[c] = "driver" /\ shown[c] # Null /\ shown[c].msg # Null => shown[c].msg.id \in seen

SystemSound ==
  RelaySound /\ LinksSound /\ UpSound /\ DownSound /\ ShownSound /\ AckSeen(Relay!Room, seen)

LEMMA SeqGrows ==
  ASSUME NEW S, NEW T, S \subseteq T, NEW q \in Seq(S)
  PROVE  q \in Seq(T)
<1>1. Len(q) \in Nat /\ \A i \in 1 .. Len(q) : q[i] \in T
  BY LenProperties, ElementOfSeq
<1>2. DOMAIN q = 1 .. Len(q) /\ q = [i \in 1 .. Len(q) |-> q[i]]
  BY LenProperties
<1> QED
  BY <1>1, <1>2

\* More was seen: everything that was sound still is.
LEMMA LinkGrows ==
  ASSUME NEW ids, NEW more, ids \subseteq more, NEW l, IsLink(l, ids)
  PROVE  IsLink(l, more)
<1>1. HandedOf(ids) \subseteq HandedOf(more)
  BY DEF HandedOf, AcksOf
<1>2. l.handed \in Seq(HandedOf(more))
  BY <1>1, SeqGrows DEF IsLink
<1> QED
  BY <1>2 DEF IsLink

LEMMA UpGrows ==
  ASSUME NEW ids, NEW more, ids \subseteq more, NEW q \in [Sockets -> Seq(Frames(ids))]
  PROVE  q \in [Sockets -> Seq(Frames(more))]
<1>1. Frames(ids) \subseteq Frames(more)
  BY DEF Frames, Says, AcksOf
<1> QED
  BY <1>1, SeqGrows

LEMMA HandedOver ==
  ASSUME NEW ids, NEW l, IsLink(l, ids)
  PROVE  LET m == [l EXCEPT !.handed = <<>>]
         IN  /\ IsLink(m, ids) /\ m.handed = <<>> /\ Goes(l, m, {})
             /\ m.socket = l.socket /\ m.wires = l.wires
<1>1. <<>> \in Seq(HandedOf(ids))
  OBVIOUS
<1> DEFINE m == [l EXCEPT !.handed = <<>>]
<1>2. /\ DOMAIN m = LinkFields /\ m.url = l.url /\ m.socket = l.socket /\ m.wires = l.wires
      /\ m.lane = l.lane /\ m.cars = l.cars /\ m.messages = l.messages
      /\ m.handed = <<>>
  BY DEF IsLink, LinkFields
<1> HIDE DEF m
<1>3. IsLink(m, ids) /\ Goes(l, m, {})
  BY <1>1, <1>2 DEF IsLink, Goes
<1> QED
  BY <1>2, <1>3 DEF m

LEMMA WrittenType ==
  ASSUME NEW ids, NEW l, IsLink(l, ids), NEW s
  PROVE  WrittenBy(l, s) \in Seq(Frames(ids))
<1>1. CASE s # l.socket
  BY <1>1 DEF WrittenBy
<1>2. CASE s = l.socket
  <2> DEFINE q == l.handed
  <2>1. Len(q) \in Nat /\ DOMAIN q = 1 .. Len(q) /\ \A i \in 1 .. Len(q) : q[i] \in HandedOf(ids)
    BY LenProperties, ElementOfSeq DEF IsLink
  <2>2. \A i \in 1 .. Len(q) : q[i].intent \in Frames(ids)
    BY <2>1 DEF HandedOf, Frames, Says
  <2>3. WrittenBy(l, s) = [i \in 1 .. Len(q) |-> q[i].intent]
    BY <1>2, <2>1 DEF WrittenBy
  <2> HIDE DEF q
  <2> QED
    BY <2>1, <2>2, <2>3
<1> QED
  BY <1>1, <1>2

LEMMA ActsSound ==
  ASSUME LinksSound, UpSound, NEW c \in Clients, NEW l, IsLink(l, seen), NEW hello \in BOOLEAN,
         Acts(c, l, hello)
  PROVE  /\ DOMAIN links' = Clients
         /\ \A d \in Clients : IsLink(links'[d], seen) /\ links'[d].handed = <<>>
         /\ up' \in [Sockets -> Seq(Frames(seen))]
<1> DEFINE m == [l EXCEPT !.handed = <<>>]
<1>1. IsLink(m, seen) /\ m.handed = <<>>
  BY HandedOver
<1>2. links' = [links EXCEPT ![c] = m]
  BY DEF Acts
<1> HIDE DEF m
<1>3. /\ DOMAIN links' = Clients
      /\ \A d \in Clients : IsLink(links'[d], seen) /\ links'[d].handed = <<>>
  BY <1>1, <1>2 DEF LinksSound
<1>4. ASSUME NEW s \in Sockets PROVE up'[s] \in Seq(Frames(seen))
  <2> DEFINE greets == IF hello /\ s = l.socket THEN <<Hello>> ELSE <<>>
             parts == IF JustClosed(c, l, s) THEN <<Bye>> ELSE <<>>
             written == WrittenBy(l, s)
  <2>1. greets \in Seq(Frames(seen)) /\ parts \in Seq(Frames(seen))
    <3>1. Hello \in Frames(seen) /\ Bye \in Frames(seen)
      BY DEF Frames
    <3>2. \A x \in Frames(seen) : <<x>> \in Seq(Frames(seen))
      OBVIOUS
    <3>3. <<>> \in Seq(Frames(seen))
      OBVIOUS
    <3> QED
      BY <3>1, <3>2, <3>3
  <2>2. written \in Seq(Frames(seen))
    BY WrittenType
  <2>3. up[s] \in Seq(Frames(seen))
    BY DEF UpSound
  <2>4. up'[s] = IF ~Carries(s) THEN up[s] ELSE ((up[s] \o greets) \o written) \o parts
    BY DEF Acts
  <2> HIDE DEF greets, parts, written
  <2>5. ((up[s] \o greets) \o written) \o parts \in Seq(Frames(seen))
    BY <2>1, <2>2, <2>3, ConcatProperties
  <2> QED
    BY <2>3, <2>4, <2>5
<1>5. DOMAIN up' = Sockets /\ up' = [s \in Sockets |-> up'[s]]
  BY DEF Acts
<1> QED
  BY <1>3, <1>4, <1>5

--------------------------------------------------------------------------------
(* The steps of the clients.                                                   *)

LEMMA ConnectHands ==
  ASSUME NEW ids, NEW l, IsLink(l, ids), NEW s, l.handed = <<>>
  PROVE  Client!Connect(l, Url, s).handed = <<>>
BY DEF IsLink, LinkFields, Client!Connect, Client!OpenSocket, Client!Retire,
   Client!ClearTimers, Client!ClearPending

\* A step of one client: its link goes on, may take a new socket, and what it wrote
\* is on its way.
Moves(c, l, slots) ==
  /\ IsLink(l, seen) /\ Goes(links[c], l, slots)
  /\ Acts(c, l, TRUE) \/ Acts(c, l, FALSE)

LEMMA ClientStep ==
  ASSUME SystemSound, NEW c \in Clients, NEW l, IsLink(l, seen), NEW hello \in BOOLEAN,
         Acts(c, l, hello), UNCHANGED <<relayVars, shown, seen>>,
         down' \in [Sockets -> Seq(Events)]
  PROVE  SystemSound'
<1>1. /\ LinksSound' /\ UpSound'
  BY ActsSound DEF SystemSound, LinksSound, UpSound
<1>2. RelaySound'
  BY StaysSound DEF SystemSound, RelayActs
<1>3. Relay!Room' = Relay!Room
  BY DEF Relay!Room, relayVars
<1> QED
  BY <1>1, <1>2, <1>3 DEF SystemSound, DownSound, ShownSound, AckSeen

LEMMA HearsType ==
  ASSUME DownSound, NEW c, NEW s \in Sockets, NEW event, Hears(c, s, event)
  PROVE  /\ down' \in [Sockets -> Seq(Events)]
         /\ Head(down[s]) \in Events
<1>1. down[s] \in Seq(Events) /\ down[s] # <<>>
  BY DEF DownSound, Hears
<1>2. Tail(down[s]) \in Seq(Events) /\ Head(down[s]) \in Events
  BY <1>1, HeadTailProperties
<1> QED
  BY <1>2 DEF DownSound, Hears

LEMMA OpensMoves ==
  ASSUME SystemSound, NEW c \in Clients, NEW s \in Sockets, ClientOpens(c, s)
  PROVE  \E l : Moves(c, l, {})
<1> DEFINE w == [links[c].wires[s] EXCEPT !.phase = "open"]
           wires == [links[c].wires EXCEPT ![s] = w]
           k == [links[c] EXCEPT !.wires[s].phase = "open"]
           l == Client!HandleOpen(k, s)
           hello == links[c].socket = s
<1>1. IsLink(links[c], seen) /\ links[c].wires \in WireTable
  BY DEF SystemSound, LinksSound, IsLink, WireTable
<1>2. links[c].wires[s] \in Client!Wires
  BY <1>1 DEF ClientOpens, Hears, Wired, IsLink
<1>3. w \in Client!Wires
  BY <1>2, WireFacts
<1>4. k = [links[c] EXCEPT !.wires = wires]
  BY <1>1, <1>2 DEF IsLink, LinkFields, Client!Wires
<1> HIDE DEF w
<1>5. wires \in WireTable /\ \A r \in Sockets : links[c].wires[r] # Null => wires[r] # Null
  BY <1>1, <1>3, WirePut
<1> HIDE DEF wires, k
<1>6. IsLink(k, seen) /\ Goes(links[c], k, {})
  <2>1. /\ DOMAIN k = LinkFields /\ k.url = links[c].url /\ k.socket = links[c].socket
        /\ k.wires = wires /\ k.lane = links[c].lane /\ k.cars = links[c].cars
        /\ k.messages = links[c].messages /\ k.handed = links[c].handed
    BY <1>1, <1>4 DEF IsLink, LinkFields
  <2> QED
    BY <1>1, <1>5, <2>1 DEF IsLink, Goes, WireTable
<1>7. IsLink(l, seen) /\ Goes(k, l, {})
  BY <1>6, OpenEventLink
<1>8. Acts(c, l, hello)
  BY DEF ClientOpens, k
<1>9. Acts(c, l, TRUE) \/ Acts(c, l, FALSE)
  <2>1. hello = TRUE \/ hello = FALSE
    OBVIOUS
  <2> QED
    BY <1>8, <2>1
<1> HIDE DEF l, hello
<1>10. Goes(links[c], l, {})
  BY <1>6, <1>7, GoesOn
<1> QED
  BY <1>7, <1>9, <1>10 DEF Moves

LEMMA ClosesMoves ==
  ASSUME SystemSound, NEW c \in Clients, NEW s \in Sockets, ClientCloses(c, s)
  PROVE  \E l : IsLink(l, seen) /\ GoesBut(links[c], l, s) /\ Acts(c, l, FALSE)
<1> DEFINE terminal == Head(down[s]).code \in TerminalCodes
<1>1. PICK l \in Client!HandleClose(Client!Gone(links[c], s), s, terminal, s) :
        l.url = links[c].url /\ Acts(c, l, FALSE)
  BY DEF ClientCloses
<1>2. IsLink(links[c], seen) /\ terminal \in BOOLEAN
  BY DEF SystemSound, LinksSound
<1> HIDE DEF terminal
<1>3. IsLink(l, seen) /\ GoesBut(links[c], l, s)
  BY <1>1, <1>2, CloseEventLink
<1> QED
  BY <1>1, <1>3

\* A timer, a foreground or a call of the app.
OwnStep(c) == ClientGivesUp(c) \/ ClientRetries(c) \/ AppReturns(c) \/ AppCalls(c)

LEMMA FreeUnused == Unused \subseteq Sockets
BY DEF Unused

\* An app only acks what it shows.
LEMMA CallsType ==
  ASSUME SystemSound, NEW c \in Clients, NEW call \in Calls(c)
  PROVE  call \in Says(seen)
<1>1. CASE RoleOf[c] = "spotter"
  <2>1. PICK lane \in Lanes \union {Null}, kind \in {"lane", "msg"} :
          call = [kind |-> kind, says |-> lane]
    BY <1>1 DEF Calls
  <2> QED
    BY <2>1 DEF Says, Kept
<1>2. CASE RoleOf[c] # "spotter"
  <2>1. RoleOf[c] = "driver"
    BY <1>2, SystemAssumption
  <2>2. PICK msg \in (IF shown[c] = Null THEN {} ELSE {shown[c].msg} \ {Null}) :
          call = [kind |-> "ack", says |-> msg.id]
    BY <1>2 DEF Calls
  <2>3. shown[c] # Null /\ msg = shown[c].msg /\ msg # Null
    BY <2>2
  <2>4. msg.id \in seen
    BY <2>1, <2>3 DEF SystemSound, ShownSound
  <2> QED
    BY <2>2, <2>4 DEF Says, AcksOf
<1> QED
  BY <1>1, <1>2

LEMMA GoesFurther ==
  ASSUME NEW l, NEW m, NEW a, NEW b, a \subseteq b, Goes(l, m, a)
  PROVE  Goes(l, m, b)
BY DEF Goes

LEMMA OwnMoves ==
  ASSUME SystemSound, NEW c \in Clients, OwnStep(c)
  PROVE  \E l : Moves(c, l, Unused)
<1>1. IsLink(links[c], seen)
  BY DEF SystemSound, LinksSound
<1>3. CASE ClientGivesUp(c)
  <2>1. PICK l \in Client!DropDeadSocket(links[c], links[c].socket) : Acts(c, l, FALSE)
    BY <1>3 DEF ClientGivesUp
  <2>2. IsLink(l, seen) /\ Goes(links[c], l, {})
    BY <1>1, <2>1, DroppedLink
  <2>3. Goes(links[c], l, Unused)
    BY <2>2, GoesFurther
  <2>4. Acts(c, l, FALSE)
    BY <2>1
  <2> QED
    BY <2>2, <2>3, <2>4 DEF Moves
<1>4. CASE ClientRetries(c)
  <2> DEFINE k == [links[c] EXCEPT !.retry = Null]
  <2>1. PICK s \in Unused : Acts(c, Client!OpenSocket(k, s), FALSE)
    BY <1>4 DEF ClientRetries
  <2> DEFINE l == Client!OpenSocket(k, s)
  <2>2. IsLink(k, seen) /\ Goes(links[c], k, {})
    BY <1>1 DEF IsLink, LinkFields, Goes
  <2> HIDE DEF k
  <2>3. Acts(c, l, FALSE)
    BY <2>1
  <2>4. IsLink(l, seen) /\ Goes(k, l, {s})
    BY <2>2, OpenedLink, FreeUnused
  <2> HIDE DEF l
  <2>5. Goes(links[c], l, {} \union {s})
    BY <2>2, <2>4, GoesOn
  <2>6. Goes(links[c], l, Unused)
    BY <2>1, <2>5, GoesFurther
  <2> QED
    BY <2>3, <2>4, <2>6 DEF Moves
<1>5. CASE AppReturns(c)
  <2>1. PICK s \in Unused, heard \in {links[c].heard, Client!QuietMax} :
          Acts(c, Client!Connect([links[c] EXCEPT !.heard = heard], Url, s), FALSE)
    BY <1>5 DEF AppReturns
  <2> DEFINE k == [links[c] EXCEPT !.heard = heard]
             l == Client!Connect(k, Url, s)
  <2>2. IsLink(k, seen) /\ Goes(links[c], k, {})
    BY <1>1 DEF IsLink, LinkFields, Goes
  <2>3. Acts(c, l, FALSE)
    BY <2>1
  <2> HIDE DEF k
  <2>4. IsLink(l, seen) /\ Goes(k, l, {s})
    BY <2>2, ConnectedLink, FreeUnused
  <2> HIDE DEF l
  <2>5. Goes(links[c], l, {} \union {s})
    BY <2>2, <2>4, GoesOn
  <2>6. Goes(links[c], l, Unused)
    BY <2>1, <2>5, GoesFurther
  <2> QED
    BY <2>3, <2>4, <2>6 DEF Moves
<1>6. CASE AppCalls(c)
  <2>1. PICK call \in Calls(c) : Acts(c, Client!Send(links[c], call), FALSE)
    BY <1>6 DEF AppCalls
  <2> DEFINE l == Client!Send(links[c], call)
  <2>2. IsLink(l, seen) /\ Goes(links[c], l, {})
    BY <1>1, <2>1, CallsType, SentLink
  <2>3. Acts(c, l, FALSE)
    BY <2>1
  <2> HIDE DEF l
  <2>4. Goes(links[c], l, Unused)
    BY <2>2, GoesFurther
  <2> QED
    BY <2>2, <2>3, <2>4 DEF Moves
<1> QED
  BY <1>3, <1>4, <1>5, <1>6 DEF OwnStep

LEMMA ClientStepsSound ==
  ASSUME SystemSound, NEW c \in Clients,
         \/ OwnStep(c) \/ \E s \in Sockets : ClientOpens(c, s) \/ ClientCloses(c, s)
  PROVE  SystemSound'
<1>1. \E l : IsLink(l, seen) /\ (Acts(c, l, TRUE) \/ Acts(c, l, FALSE))
  <2>1. \A s \in Sockets : ClientCloses(c, s) =>
          \E l : IsLink(l, seen) /\ Acts(c, l, FALSE)
    BY ClosesMoves
  <2>2. \A s \in Sockets : ClientOpens(c, s) => \E l : Moves(c, l, {})
    BY OpensMoves
  <2>3. OwnStep(c) => \E l : Moves(c, l, Unused)
    BY OwnMoves
  <2> QED
    BY <2>1, <2>2, <2>3 DEF Moves
<1>2. UNCHANGED <<relayVars, shown, seen>>
  BY DEF OwnStep, ClientGivesUp, ClientRetries, AppReturns, AppCalls, ClientOpens, ClientCloses,
     Hears
<1>3. down' \in [Sockets -> Seq(Events)]
  <2>1. OwnStep(c) => down' = down
    BY DEF OwnStep, ClientGivesUp, ClientRetries, AppReturns, AppCalls
  <2>2. \A s \in Sockets : ClientOpens(c, s) \/ ClientCloses(c, s) =>
          down' \in [Sockets -> Seq(Events)]
    BY HearsType DEF ClientOpens, ClientCloses, SystemSound
  <2> QED
    BY <2>1, <2>2 DEF SystemSound, DownSound
<1> QED
  BY <1>1, <1>2, <1>3, ClientStep

LEMMA ClientSeesSound ==
  ASSUME SystemSound, NEW c \in Clients, NEW s \in Sockets, ClientSees(c, s)
  PROVE  SystemSound'
<1> DEFINE state == Head(down[s]).state
           l == Client!HandleMessage(links[c], s, state.seq, Null)
           news == l.lastSeen # links[c].lastSeen
<1>1. /\ Hears(c, s, "state") /\ Acts(c, l, FALSE)
      /\ shown' = IF news THEN [shown EXCEPT ![c] = state] ELSE shown
      /\ seen' = IF news /\ RoleOf[c] = "driver" /\ state.msg # Null
                 THEN seen \union {state.msg.id} ELSE seen
  BY DEF ClientSees
<1>2. state \in Relay!RoomStates /\ down' \in [Sockets -> Seq(Events)]
  <2>1. Head(down[s]).event = "state" /\ Head(down[s]) \in Events
    BY <1>1, HearsType DEF SystemSound, Hears
  <2> QED
    BY <1>1, <2>1, HearsType DEF SystemSound, Events, Opened
<1>3. IsLink(l, seen)
  BY StateEventLink DEF SystemSound, LinksSound
<1> HIDE DEF state, l, news
<1>4. /\ DOMAIN links' = Clients
      /\ \A d \in Clients : IsLink(links'[d], seen) /\ links'[d].handed = <<>>
      /\ up' \in [Sockets -> Seq(Frames(seen))]
  BY <1>1, <1>3, ActsSound DEF SystemSound
<1>5. seen \subseteq seen'
  BY <1>1
<1>6. LinksSound' /\ UpSound'
  BY <1>4, <1>5, LinkGrows, UpGrows DEF LinksSound, UpSound
<1>7. ShownSound'
  <2>1. shown' \in [Clients -> Relay!RoomStates \union {Null}]
    BY <1>1, <1>2 DEF SystemSound, ShownSound
  <2>2. ASSUME NEW d \in Clients, RoleOf[d] = "driver", shown'[d] # Null, shown'[d].msg # Null
        PROVE  shown'[d].msg.id \in seen'
    <3>1. CASE shown'[d] = shown[d]
      BY <1>5, <2>2, <3>1 DEF SystemSound, ShownSound
    <3>2. CASE shown'[d] # shown[d]
      <4>1. news /\ d = c /\ shown'[d] = state
        BY <1>1, <3>2 DEF SystemSound, ShownSound
      <4> QED
        BY <1>1, <2>2, <4>1
    <3> QED
      BY <3>1, <3>2
  <2> QED
    BY <2>1, <2>2 DEF ShownSound
<1>8. UNCHANGED relayVars
  BY <1>1 DEF Hears
<1>9. RelaySound' /\ Relay!Room' = Relay!Room
  BY <1>8, StaysSound DEF SystemSound, RelayActs, Relay!Room, relayVars
<1> QED
  BY <1>2, <1>5, <1>6, <1>7, <1>9 DEF SystemSound, DownSound, AckSeen

--------------------------------------------------------------------------------
(* The steps of the relay and of the network.                                  *)

LEMMA RelayTypesNext ==
  ASSUME RelaySound'
  PROVE  \A s \in Sockets :
           /\ frames'[s] # Null => frames'[s] \in Relay!RoomStates
           /\ sockets'[s] # Null => sockets'[s].closed \in Relay!CloseCodes \union {"no"}
BY SameStates DEF RelaySound, Facts!Faithful, Facts!Stable, Facts!TypeOK, Facts!Attachments,
   Facts!CloseCodes, Relay!CloseCodes

LEMMA SentType ==
  ASSUME RelaySound', NEW s \in Sockets
  PROVE  Sent(s) \in Seq(Events)
<1> DEFINE told == IF frames'[s] # Null /\ frames'[s] # frames[s] THEN <<Told(frames'[s])>>
                   ELSE <<>>
           ended == IF sockets[s] = Null \/ sockets[s].closed # "no" THEN <<>>
                    ELSE IF sockets'[s] = Null THEN <<Ended("gone")>>
                    ELSE IF sockets'[s].closed # "no" THEN <<Ended(sockets'[s].closed)>> ELSE <<>>
<1>1. \A x \in Events : <<x>> \in Seq(Events)
  OBVIOUS
<1>2. <<>> \in Seq(Events)
  OBVIOUS
<1>3. frames'[s] # Null => frames'[s] \in Relay!RoomStates
  BY RelayTypesNext
<1>4. sockets'[s] # Null => sockets'[s].closed \in Relay!CloseCodes \union {"no"}
  BY RelayTypesNext
<1>5. told \in Seq(Events)
  <2>1. frames'[s] # Null => Told(frames'[s]) \in Events
    BY <1>3 DEF Told, Events
  <2> QED
    BY <1>1, <1>2, <2>1
<1>6. ended \in Seq(Events)
  <2>1. Ended("gone") \in Events
    BY DEF Ended, Events
  <2>2. sockets'[s] # Null /\ sockets'[s].closed # "no" => Ended(sockets'[s].closed) \in Events
    BY <1>4 DEF Ended, Events
  <2> QED
    BY <1>1, <1>2, <2>1, <2>2
<1>7. Sent(s) = told \o ended
  BY DEF Sent
<1> HIDE DEF told, ended
<1> QED
  BY <1>5, <1>6, <1>7, ConcatProperties

\* A step of the relay, whatever it leaves of the frames that were written to it.
LEMMA RelayStep ==
  ASSUME SystemSound, RelayActs, UNCHANGED clientVars,
         up' \in [Sockets -> Seq(Frames(seen))], down' \in [Sockets -> Seq(Events)],
         AckSeen(Relay!Room', seen)
  PROVE  SystemSound'
<1>1. RelaySound'
  BY StaysSound DEF SystemSound
<1> QED
  BY <1>1 DEF SystemSound, LinksSound, UpSound, DownSound, ShownSound, AckSeen, clientVars

LEMMA SendsType ==
  ASSUME SystemSound, RelaySound', RelaySends
  PROVE  down' \in [Sockets -> Seq(Events)]
<1>1. ASSUME NEW s \in Sockets PROVE down'[s] \in Seq(Events)
  <2>1. down[s] \in Seq(Events) /\ Sent(s) \in Seq(Events)
    BY SentType DEF SystemSound, DownSound
  <2>2. down'[s] = IF Reaches(s) THEN down[s] \o Sent(s) ELSE down[s]
    BY DEF RelaySends
  <2> QED
    BY <2>1, <2>2, ConcatProperties
<1> QED
  BY <1>1 DEF RelaySends

LEMMA QuietSeen ==
  ASSUME NEW next, Keeps(next), NEW ids, AckSeen(Relay!Room, ids)
  PROVE  AckSeen(next, ids)
BY DEF Keeps, AckSeen

LEMMA RelayAcceptsSound ==
  ASSUME SystemSound, NEW s \in Sockets, RelayAccepts(s)
  PROVE  SystemSound'
<1>1. /\ Relay!Accept(s) /\ UNCHANGED clientVars /\ up' = up
      /\ down' = [down EXCEPT ![s] = <<Opened>>]
  BY DEF RelayAccepts
<1>2. <<Opened>> \in Seq(Events)
  <2>1. Opened \in Events
    BY DEF Events
  <2> QED
    BY <2>1
<1>3. down' \in [Sockets -> Seq(Events)] /\ up' \in [Sockets -> Seq(Frames(seen))]
  BY <1>1, <1>2 DEF SystemSound, UpSound, DownSound
<1>4. RelayActs /\ AckSeen(Relay!Room', seen)
  BY <1>1, QuietStep, QuietSeen DEF RelayActs, SystemSound
<1> QED
  BY <1>1, <1>3, <1>4, RelayStep

LEMMA RelayHearsSound ==
  ASSUME SystemSound, NEW s \in Sockets, RelayHears(s)
  PROVE  SystemSound'
<1> DEFINE frame == Head(up[s])
<1>1. /\ up' = [up EXCEPT ![s] = Tail(@)] /\ up[s] # <<>> /\ RelaySends
      /\ UNCHANGED clientVars
  BY DEF RelayHears, RelaySends
<1>2. up[s] \in Seq(Frames(seen))
  BY DEF SystemSound, UpSound
<1>3. frame \in Frames(seen) /\ Tail(up[s]) \in Seq(Frames(seen))
  BY <1>1, <1>2, HeadTailProperties
<1>4. up' \in [Sockets -> Seq(Frames(seen))]
  BY <1>1, <1>3 DEF SystemSound, UpSound
<1>5. RelayActs /\ AckSeen(Relay!Room', seen)
  <2>1. \/ Relay!Leave(s) \/ Relay!LeaveRejected(s) \/ Relay!Join(s) \/ UNCHANGED relayVars
        \/ frame # Bye /\ frame # Hello /\ cache' = Reduced(frame) /\ Relay!Frame(s)
    BY DEF RelayHears
  <2>2. CASE \/ Relay!Leave(s) \/ Relay!LeaveRejected(s) \/ Relay!Join(s) \/ UNCHANGED relayVars
    <3>1. Keeps(Relay!Room')
      BY <2>2, QuietStep DEF SystemSound
    <3> QED
      BY <2>2, <3>1, QuietSeen DEF RelayActs, SystemSound
  <2>3. CASE frame # Bye /\ frame # Hello /\ cache' = Reduced(frame) /\ Relay!Frame(s)
    <3>1. frame \in Kept \union AcksOf(seen)
      BY <1>3, <2>3 DEF Frames, Says
    <3>2. AckSeen(Reduced(frame), seen)
      BY <3>1, ReducedSeen DEF SystemSound
    <3>3. Relay!Room' = cache'
      BY <2>3, FrameStep DEF SystemSound
    <3> QED
      BY <2>3, <3>2, <3>3 DEF RelayActs
  <2> QED
    BY <2>1, <2>2, <2>3
<1>6. RelaySound'
  BY <1>5, StaysSound DEF SystemSound
<1>7. down' \in [Sockets -> Seq(Events)]
  BY <1>1, <1>6, SendsType
<1> QED
  BY <1>1, <1>4, <1>5, <1>7, RelayStep

LEMMA RelayAlarmSound ==
  ASSUME SystemSound, RelayAlarm
  PROVE  SystemSound'
<1>1. RelayActs /\ AckSeen(Relay!Room', seen)
  BY QuietStep, QuietSeen DEF RelayAlarm, RelayActs, SystemSound
<1>2. down' \in [Sockets -> Seq(Events)]
  BY <1>1, StaysSound, SendsType DEF SystemSound, RelayAlarm
<1> QED
  BY <1>1, <1>2, RelayStep DEF RelayAlarm, RelaySends, SystemSound, UpSound

LEMMA NetworkSound ==
  ASSUME SystemSound, (\E s \in Sockets : Breaks(s)) \/ RelayRestarts
  PROVE  SystemSound'
<1>1. /\ <<>> \in Seq(Frames(seen)) /\ <<Bye>> \in Seq(Frames(seen))
      /\ <<Ended("lost")>> \in Seq(Events)
  <2>1. Bye \in Frames(seen) /\ Ended("lost") \in Events
    BY DEF Frames, Ended, Events
  <2> QED
    BY <2>1
<1>2. up' \in [Sockets -> Seq(Frames(seen))]
  BY <1>1 DEF Breaks, RelayRestarts, SystemSound, UpSound
<1>3. down' \in [Sockets -> Seq(Events)]
  BY <1>1 DEF Breaks, RelayRestarts, SystemSound, DownSound
<1>4. UNCHANGED clientVars /\ (UNCHANGED relayVars \/ Relay!Restart)
  BY DEF Breaks, RelayRestarts
<1>5. RelayActs /\ AckSeen(Relay!Room', seen)
  BY <1>4, QuietStep, QuietSeen DEF RelayActs, SystemSound
<1> QED
  BY <1>2, <1>3, <1>4, <1>5, RelayStep

--------------------------------------------------------------------------------
(* Only what was shown is acked.                                               *)

LEMMA SystemStarts == SystemInit => SystemSound
<1> SUFFICES ASSUME SystemInit PROVE SystemSound
  OBVIOUS
<1> DEFINE Separate(f) == \A c, d \in Clients : f[c] = f[d] => c = d
           first == CHOOSE f \in [Clients -> Sockets] : Separate(f)
           start == [url |-> Null, socket |-> Null, status |-> "closed", replayed |-> FALSE,
                     lastSeen |-> 0, heard |-> Null, openAge |-> 0, ping |-> Null,
                     connect |-> Null, retry |-> Null, backoff |-> RECONNECT_MIN_MS,
                     lane |-> Null, cars |-> Null, messages |-> <<>>,
                     wires |-> [s \in Sockets |-> Null], rejected |-> FALSE, handed |-> <<>>]
<1>1. first \in [Clients -> Sockets]
  BY SystemAssumption
<1>2. /\ links = [c \in Clients |-> Client!Connect(start, Url, first[c])]
      /\ Relay!Init /\ shown = [c \in Clients |-> Null]
      /\ up = [s \in Sockets |-> <<>>] /\ down = [s \in Sockets |-> <<>>] /\ seen = {}
  BY DEF SystemInit
<1>3. IsLink(start, seen) /\ start.handed = <<>>
  <2>1. <<>> \in Seq(Kept) /\ <<>> \in Seq(HandedOf(seen))
    OBVIOUS
  <2>2. DOMAIN start = LinkFields
    BY DEF LinkFields
  <2>3. /\ start.url = Null /\ start.socket = Null /\ start.lane = Null /\ start.cars = Null
        /\ start.messages = <<>> /\ start.handed = <<>>
        /\ start.wires = [s \in Sockets |-> Null]
    OBVIOUS
  <2> HIDE DEF start
  <2> QED
    BY <2>1, <2>2, <2>3 DEF IsLink
<1> HIDE DEF first, start
<1>4. LinksSound
  <2>1. ASSUME NEW c \in Clients
        PROVE  IsLink(links[c], seen) /\ links[c].handed = <<>>
    <3>1. links[c] = Client!Connect(start, Url, first[c]) /\ first[c] \in Sockets
      BY <1>1, <1>2
    <3>2. IsLink(Client!Connect(start, Url, first[c]), seen)
      BY <1>3, <3>1, ConnectedLink
    <3>3. Client!Connect(start, Url, first[c]).handed = <<>>
      BY <1>3, ConnectHands
    <3> QED
      BY <3>1, <3>2, <3>3
  <2> QED
    BY <1>2, <2>1 DEF LinksSound
<1>5. RelaySound /\ Relay!Room.msg = Null
  <2>1. RelaySound
    BY <1>2, Facts!InitFaithful, FactsHold, SameInit DEF RelaySound
  <2>2. Relay!Room = Relay!InitialState
    BY <1>2 DEF Relay!Init, Relay!FreshRoom, Relay!LegacyRoom, Relay!Room, Relay!Load,
       Relay!NoState
  <2> QED
    BY <2>1, <2>2 DEF Relay!InitialState
<1>6. UpSound /\ DownSound /\ ShownSound
  BY <1>2 DEF UpSound, DownSound, ShownSound
<1> QED
  BY <1>4, <1>5, <1>6 DEF SystemSound, AckSeen

LEMMA StepSound ==
  ASSUME SystemSound, [SystemNext]_systemVars
  PROVE  SystemSound'
<1>1. CASE UNCHANGED systemVars
  <2>1. UNCHANGED <<relayVars, clientVars, up, down>>
    BY <1>1 DEF systemVars
  <2>2. RelayActs /\ AckSeen(Relay!Room', seen)
    BY <2>1, QuietStep, QuietSeen DEF RelayActs, SystemSound
  <2> QED
    BY <2>1, <2>2, RelayStep DEF SystemSound, UpSound, DownSound
<1>2. CASE SystemNext
  <2>1. CASE Progress
    BY <2>1, RelayAcceptsSound, RelayHearsSound, ClientSeesSound, ClientStepsSound
       DEF Progress, OwnStep
  <2>2. CASE \E c \in Clients : ClientGivesUp(c) \/ AppReturns(c) \/ AppCalls(c)
    BY <2>2, ClientStepsSound DEF OwnStep
  <2>3. CASE (\E s \in Sockets : Breaks(s)) \/ RelayAlarm \/ RelayRestarts
    BY <2>3, NetworkSound, RelayAlarmSound
  <2> QED
    BY <1>2, <2>1, <2>2, <2>3 DEF SystemNext
<1> QED
  BY <1>1, <1>2

\* Links, channels and screens are what their ends can read, in every state.
LEMMA AlwaysSound == SystemSpec => []SystemSound
<1>1. SystemInit => SystemSound
  BY SystemStarts
<1>2. SystemSound /\ [SystemNext]_systemVars => SystemSound'
  BY StepSound
<1> QED
  BY <1>1, <1>2, PTL DEF SystemSpec

\* AckMeansSeen (reduceAck, driver.ts ack): whatever is late, lost, replayed or sent
\* again, the relay marks a message as acked only when a driver was shown it.
THEOREM AckedWasSeen == SystemSpec => []AckMeansSeen
<1>1. SystemSound => AckMeansSeen
  BY DEF SystemSound, AckSeen, AckMeansSeen
<1> QED
  BY <1>1, AlwaysSound, PTL

--------------------------------------------------------------------------------
(* Channels of the relay: the states in one grow, and nothing follows a close. *)

IsState(e) == e.event = "state"
StatesOf(q) == {q[i].state : i \in {j \in DOMAIN q : IsState(q[j])}}

Follows(a, b) == b = Null \/ a = b \/ a.seq > b.seq

Growing(q) ==
  \A i, j \in DOMAIN q : i < j /\ IsState(q[i]) /\ IsState(q[j]) => q[j].state.seq > q[i].state.seq
Unclosed(q) == \A i \in DOMAIN q : q[i].event # "close"
ClosesLast(q) == \A i \in DOMAIN q : q[i].event = "close" => i = Len(q)
Tidy(q) == Growing(q) /\ ClosesLast(q)

LEMMA StatesType ==
  ASSUME NEW q \in Seq(Events), NEW x \in StatesOf(q)
  PROVE  x \in Relay!RoomStates
<1>1. PICK i \in DOMAIN q : IsState(q[i]) /\ x = q[i].state
  BY DEF StatesOf
<1>2. q[i] \in Events
  BY <1>1, LenProperties, ElementOfSeq
<1> QED
  BY <1>1, <1>2 DEF IsState, Events, Opened

LEMMA EmptyChannel == StatesOf(<<>>) = {} /\ Tidy(<<>>) /\ Unclosed(<<>>)
BY DEF StatesOf, Tidy, Growing, ClosesLast, Unclosed

LEMMA OneOf ==
  ASSUME NEW e, e.event # "state"
  PROVE  StatesOf(<<e>>) = {} /\ Tidy(<<e>>)
<1> DEFINE q == <<e>>
<1>1. DOMAIN q = {1} /\ q[1] = e /\ Len(q) = 1
  OBVIOUS
<1> HIDE DEF q
<1>2. StatesOf(q) = {} /\ Tidy(q)
  BY <1>1 DEF StatesOf, Tidy, Growing, ClosesLast, IsState
<1> QED
  BY <1>2 DEF q

LEMMA TailChannel ==
  ASSUME NEW q \in Seq(Events), q # <<>>, Tidy(q)
  PROVE  /\ Tidy(Tail(q))
         /\ StatesOf(Tail(q)) \subseteq StatesOf(q)
         /\ IsState(Head(q)) => /\ Head(q).state \in StatesOf(q)
                                /\ \A x \in StatesOf(Tail(q)) : x.seq > Head(q).state.seq
         /\ Head(q).event = "close" => StatesOf(Tail(q)) = {}
<1> DEFINE t == Tail(q)
<1>1. /\ Len(q) \in Nat /\ Len(q) >= 1 /\ DOMAIN q = 1 .. Len(q) /\ Head(q) = q[1]
      /\ Len(t) = Len(q) - 1 /\ DOMAIN t = 1 .. Len(q) - 1
      /\ \A i \in 1 .. Len(q) - 1 : t[i] = q[i + 1]
  BY LenProperties, HeadTailProperties, EmptySeq
<1> HIDE DEF t
<1>2. ASSUME NEW i \in DOMAIN t, NEW j \in DOMAIN t, i < j, IsState(t[i]), IsState(t[j])
      PROVE  t[j].state.seq > t[i].state.seq
  <2>1. /\ i + 1 \in DOMAIN q /\ t[i] = q[i + 1] /\ j + 1 \in DOMAIN q /\ t[j] = q[j + 1]
        /\ i + 1 < j + 1
    BY <1>1, <1>2
  <2> QED
    BY <1>2, <2>1 DEF Tidy, Growing
<1>3. ClosesLast(t)
  BY <1>1 DEF Tidy, ClosesLast
<1>4. StatesOf(t) \subseteq StatesOf(q)
  BY <1>1 DEF StatesOf
<1>5. ASSUME IsState(Head(q))
      PROVE  /\ Head(q).state \in StatesOf(q)
             /\ \A x \in StatesOf(t) : x.seq > Head(q).state.seq
  <2>1. Head(q).state \in StatesOf(q)
    BY <1>1, <1>5 DEF StatesOf
  <2>2. ASSUME NEW x \in StatesOf(t) PROVE x.seq > Head(q).state.seq
    <3>1. PICK i \in DOMAIN t : IsState(t[i]) /\ x = t[i].state
      BY DEF StatesOf
    <3>2. i + 1 \in DOMAIN q /\ 1 \in DOMAIN q /\ 1 < i + 1 /\ t[i] = q[i + 1]
      BY <1>1
    <3> QED
      BY <1>1, <1>5, <3>1, <3>2 DEF Tidy, Growing
  <2> QED
    BY <2>1, <2>2
<1>6. Head(q).event = "close" => StatesOf(t) = {}
  <2>1. Head(q).event = "close" => DOMAIN t = {}
    BY <1>1 DEF Tidy, ClosesLast
  <2> QED
    BY <2>1 DEF StatesOf
<1> QED
  BY <1>2, <1>3, <1>4, <1>5, <1>6 DEF t, Tidy, Growing

\* One more event at the end of a channel that was not closed.
LEMMA LongerChannel ==
  ASSUME NEW q \in Seq(Events), Tidy(q), Unclosed(q), NEW e \in Events,
         IsState(e) => \A x \in StatesOf(q) : e.state.seq > x.seq
  PROVE  LET r == q \o <<e>>
         IN  /\ Tidy(r)
             /\ StatesOf(r) \subseteq StatesOf(q) \union {x \in {e.state} : IsState(e)}
             /\ e.event # "close" => Unclosed(r)
<1> DEFINE r == q \o <<e>>
           n == Len(q)
<1>1. /\ n \in Nat /\ DOMAIN q = 1 .. n /\ DOMAIN r = 1 .. n + 1 /\ Len(r) = n + 1
      /\ r[n + 1] = e /\ \A i \in 1 .. n : r[i] = q[i]
  <2>1. <<e>> \in Seq(Events) /\ Len(<<e>>) = 1 /\ <<e>>[1] = e
    OBVIOUS
  <2> QED
    BY <2>1, LenProperties, ConcatProperties
<1> HIDE DEF r, n
<1>2. ASSUME NEW i \in DOMAIN r, NEW j \in DOMAIN r, i < j, IsState(r[i]), IsState(r[j])
      PROVE  r[j].state.seq > r[i].state.seq
  <2>1. i \in 1 .. n /\ r[i] = q[i]
    BY <1>1, <1>2
  <2>2. CASE j = n + 1
    <3>1. r[i].state \in StatesOf(q)
      BY <1>1, <1>2, <2>1 DEF StatesOf
    <3> QED
      BY <1>1, <1>2, <2>2, <3>1
  <2>3. CASE j # n + 1
    <3>1. j \in 1 .. n /\ r[j] = q[j]
      BY <1>1, <1>2, <2>3
    <3> QED
      BY <1>1, <1>2, <2>1, <3>1 DEF Tidy, Growing
  <2> QED
    BY <2>2, <2>3
<1>3. ClosesLast(r)
  <2> SUFFICES ASSUME NEW i \in DOMAIN r, r[i].event = "close" PROVE i = n + 1
    BY <1>1 DEF ClosesLast
  <2> QED
    BY <1>1 DEF Unclosed
<1>4. ASSUME NEW x \in StatesOf(r)
      PROVE  x \in StatesOf(q) \/ (x = e.state /\ IsState(e))
  <2>1. PICK i \in DOMAIN r : IsState(r[i]) /\ x = r[i].state
    BY DEF StatesOf
  <2> QED
    BY <1>1, <2>1 DEF StatesOf
<1>5. e.event # "close" => Unclosed(r)
  BY <1>1 DEF Unclosed
<1> QED
  BY <1>2, <1>3, <1>4, <1>5 DEF r, Tidy, Growing

--------------------------------------------------------------------------------
(* What keeps the channels and the screens in order.                           *)

\* Nothing was sent yet on a connection that has not joined, or that has no reader.
Waiting(s) == sockets[s] # Null /\ sockets[s].closed = "no" /\ ~sockets[s].ready
Fresh(s) == Waiting(s) \/ \A c \in Clients : ~Wired(c, s)

Orderly(s) ==
  /\ Tidy(down[s])
  /\ \A x \in StatesOf(down[s]) : Follows(Relay!Room, x)
  /\ Fresh(s) => StatesOf(down[s]) = {}

\* What can still be shown to a client is no older than what it was shown.
Watching(c) ==
  /\ Follows(Relay!Room, shown[c])
  /\ links[c].socket # Null =>
       \A x \in StatesOf(down[links[c].socket]) : Follows(x, shown[c])

SystemOrdered ==
  SystemSound /\ (\A s \in Sockets : Orderly(s)) /\ (\A c \in Clients : Watching(c))

LEMMA FollowsOn ==
  ASSUME NEW a \in Relay!RoomStates, NEW b \in Relay!RoomStates,
         NEW c \in Relay!RoomStates \union {Null}, Follows(a, b), Follows(b, c)
  PROVE  Follows(a, c)
<1>1. a.seq \in Nat /\ b.seq \in Nat /\ (c # Null => c.seq \in Nat) /\ b # Null
  BY RelayAssumption DEF Relay!RoomStates, Relay!InputAssumption
<1> QED
  BY <1>1 DEF Follows

--------------------------------------------------------------------------------
(* The relay's sockets: only an accepted one starts to wait, and none opens.   *)

Settles ==
  \A r \in Sockets :
    sockets'[r] # Null /\ sockets'[r].closed = "no" =>
      /\ sockets[r] # Null /\ sockets[r].closed = "no"
      /\ sockets[r].ready => sockets'[r].ready

LEMMA RelaySettles ==
  ASSUME RelaySound,
         \/ \E s \in Sockets : \/ Relay!Join(s) \/ Relay!Leave(s)
                               \/ Relay!LeaveRejected(s) \/ Relay!Frame(s)
         \/ Relay!AlarmTicks \/ Relay!Restart \/ UNCHANGED relayVars
  PROVE  Settles
<1>1. /\ sockets \in [Sockets -> Facts!Attachments \union {Null}]
      /\ Null \notin Facts!Attachments
  BY RelayIsSound, FactsHold DEF Facts!UrlAssumption
<1>2. ASSUME NEW s \in Sockets, Relay!Join(s) PROVE Settles
  <2>1. sockets' = Relay!Joined(s) /\ s \in Relay!Open(sockets)
    BY <1>2 DEF Relay!Join, Relay!MayJoin
  <2>2. ASSUME NEW r \in Sockets, sockets'[r] # Null, sockets'[r].closed = "no"
        PROVE  /\ sockets[r] # Null /\ sockets[r].closed = "no"
               /\ sockets[r].ready => sockets'[r].ready
    <3>1. CASE r = s
      <4>1. sockets'[r] = [sockets[s] EXCEPT !.ready = TRUE, !.lastPing = now]
        BY <2>1, <3>1 DEF Relay!Joined
      <4>2. sockets[s] \in Facts!Attachments /\ sockets[s].closed = "no"
        BY <1>1, <2>1 DEF Relay!Open
      <4> QED
        BY <1>1, <3>1, <4>1, <4>2 DEF Facts!Attachments
    <3>2. CASE r # s /\ r \in Relay!Live(sockets)
      BY <3>2, <2>1, <2>2, <1>1 DEF Relay!Live, Relay!Open, Relay!Joined, Facts!Attachments
    <3>3. CASE r # s /\ r \notin Relay!Live(sockets)
      BY <3>3, <2>1, <2>2 DEF Relay!Joined
    <3> QED
      BY <3>1, <3>2, <3>3
  <2> QED
    BY <2>2 DEF Settles
<1>3. ASSUME NEW s \in Sockets, Relay!Leave(s) \/ Relay!LeaveRejected(s) PROVE Settles
  <2>1. sockets' = [sockets EXCEPT ![s] = Null]
    BY <1>3 DEF Relay!Leave, Relay!LeaveRejected, Relay!Without
  <2> QED
    BY <1>1, <2>1 DEF Settles
<1>4. ASSUME NEW s \in Sockets, Relay!Frame(s) PROVE Settles
  BY <1>4 DEF Relay!Frame, Settles
<1>5. ASSUME Relay!AlarmTicks PROVE Settles
  <2>1. sockets' = Relay!Reaped
    BY <1>5 DEF Relay!AlarmTicks
  <2>2. ASSUME NEW r \in Sockets, sockets'[r] # Null, sockets'[r].closed = "no"
        PROVE  sockets'[r] = sockets[r]
    <3>1. CASE r \in Relay!Silent
      <4>1. sockets[r] \in Facts!Attachments
        BY <1>1, <3>1 DEF Relay!Silent, Relay!Open
      <4>2. sockets'[r] = [sockets[r] EXCEPT !.closed = "silent_peer"]
        BY <2>1, <3>1 DEF Relay!Reaped
      <4> QED
        BY <2>2, <4>1, <4>2 DEF Facts!Attachments
    <3>2. CASE r \notin Relay!Silent
      BY <2>1, <3>2 DEF Relay!Reaped
    <3> QED
      BY <3>1, <3>2
  <2> QED
    BY <2>2 DEF Settles
<1>6. ASSUME Relay!Restart PROVE Settles
  BY <1>6 DEF Relay!Restart, Relay!Restarted, Settles
<1>7. ASSUME UNCHANGED relayVars PROVE Settles
  BY <1>7 DEF relayVars, Settles
<1> QED
  BY <1>2, <1>3, <1>4, <1>5, <1>6, <1>7

\* A frame is the room's state, and goes to whoever has joined.
LEMMA RelayFrames ==
  ASSUME RelaySound, NEW s \in Sockets
  PROVE  /\ frames[s] # Null => /\ frames[s] = Relay!Room /\ sockets[s] # Null
                                /\ sockets[s].closed = "no" /\ sockets[s].ready
         /\ sockets[s] # Null /\ sockets[s].closed = "no" /\ sockets[s].ready =>
              frames[s] = Relay!Room
BY SameRoom
   DEF RelaySound, Facts!Faithful, Facts!FramesAreLive, Facts!LiveSocketsShareTheRoom,
       Facts!Live, Facts!Open

\* The same of the next state.
LEMMA RelayFramesNext ==
  ASSUME RelaySound', NEW s \in Sockets
  PROVE  frames'[s] # Null => /\ frames'[s] = Relay!Room' /\ sockets'[s] # Null
                              /\ sockets'[s].closed = "no" /\ sockets'[s].ready
BY SameRoom
   DEF RelaySound, Facts!Faithful, Facts!FramesAreLive, Facts!LiveSocketsShareTheRoom,
       Facts!Live, Facts!Open

--------------------------------------------------------------------------------
(* A step as the channels, the room and the screens see it.                    *)

RoomGoesOn == Relay!Room' = Relay!Room \/ Relay!Room'.seq > Relay!Room.seq

\* Nothing but the room's new state is added to a channel.
Delivers ==
  \A s \in Sockets :
    /\ Tidy(down'[s])
    /\ StatesOf(down'[s]) \subseteq StatesOf(down[s]) \union {Relay!Room'}
    /\ Fresh(s)' => StatesOf(down'[s]) = {}

\* Every step but that of a client that is shown a state.
Proceeds ==
  /\ RoomGoesOn /\ Delivers /\ UNCHANGED shown
  /\ \A c \in Clients : links'[c].socket \in {links[c].socket, Null} \union Unused

LEMMA RoomFollows ==
  ASSUME SystemSound, SystemSound', RoomGoesOn
  PROVE  /\ \A x \in Relay!RoomStates \union {Null} :
              Follows(Relay!Room, x) => Follows(Relay!Room', x)
         /\ Relay!Room \in Relay!RoomStates /\ Relay!Room' \in Relay!RoomStates
<1>1. Relay!Room \in Relay!RoomStates
  BY RelayIsSound DEF SystemSound
<1>2. Facts!Room' \in Facts!RoomStates
  <2>1. Facts!TypeOK'
    BY DEF SystemSound, RelaySound, Facts!Faithful, Facts!Stable
  <2> QED
    BY <2>1, Facts!LoadFacts, FactsHold DEF Facts!TypeOK, Facts!Room
<1>3. Relay!Room' \in Relay!RoomStates
  BY <1>2, SameRoom, SameStates
<1>4. Follows(Relay!Room', Relay!Room)
  BY DEF RoomGoesOn, Follows
<1> QED
  BY <1>1, <1>3, <1>4, FollowsOn

LEMMA OrderlyNext ==
  ASSUME SystemOrdered, SystemSound', RoomGoesOn, Delivers
  PROVE  \A s \in Sockets : Orderly(s)'
<1>1. ASSUME NEW s \in Sockets, NEW x \in StatesOf(down'[s])
      PROVE  Follows(Relay!Room', x)
  <2>1. CASE x = Relay!Room'
    BY <2>1 DEF Follows
  <2>2. CASE x \in StatesOf(down[s])
    <3>1. Follows(Relay!Room, x) /\ x \in Relay!RoomStates
      BY <2>2, StatesType DEF SystemOrdered, Orderly, SystemSound, DownSound
    <3> QED
      BY <3>1, RoomFollows DEF SystemOrdered
  <2> QED
    BY <1>1, <2>1, <2>2 DEF Delivers
<1> QED
  BY <1>1 DEF Orderly, Delivers

LEMMA WatchingNext ==
  ASSUME SystemOrdered, SystemSound', Proceeds, NEW c \in Clients
  PROVE  Watching(c)'
<1>1. shown' = shown /\ shown[c] \in Relay!RoomStates \union {Null}
  BY DEF Proceeds, SystemOrdered, SystemSound, ShownSound
<1>2. Follows(Relay!Room', shown[c])
  BY <1>1, RoomFollows DEF Proceeds, SystemOrdered, Watching
<1>3. ASSUME links'[c].socket # Null, NEW x \in StatesOf(down'[links'[c].socket])
      PROVE  Follows(x, shown[c])
  <2> DEFINE s == links'[c].socket
  <2>1. s \in Sockets /\ s \in {links[c].socket} \union Unused
    BY <1>3 DEF Proceeds, SystemSound, LinksSound, IsLink
  <2>2. CASE x = Relay!Room'
    BY <1>2, <2>2
  <2>3. CASE x \in StatesOf(down[s]) /\ s = links[c].socket
    BY <1>3, <2>3 DEF SystemOrdered, Watching
  <2>4. CASE x \in StatesOf(down[s]) /\ s \in Unused
    <3>1. Fresh(s)
      BY <2>4 DEF Unused, Fresh
    <3> QED
      BY <2>1, <2>4, <3>1 DEF SystemOrdered, Orderly
  <2> QED
    BY <1>3, <2>1, <2>2, <2>3, <2>4 DEF Proceeds, Delivers
<1> QED
  BY <1>1, <1>2, <1>3 DEF Watching

LEMMA ProceedsOrdered ==
  ASSUME SystemOrdered, SystemSound', Proceeds
  PROVE  SystemOrdered'
BY OrderlyNext, WatchingNext DEF SystemOrdered, Proceeds

LEMMA InUnderway ==
  /\ \A x : x \in Underway <=> x = Relay!Room \/ \E s \in Sockets : x \in StatesOf(down[s])
  /\ \A x : x \in Underway' <=> x = Relay!Room' \/ \E s \in Sockets : x \in StatesOf(down'[s])
<1>1. Underway = {Relay!Room} \union UNION {StatesOf(down[s]) : s \in Sockets}
  BY DEF Underway, StatesOf, IsState
<1>2. Underway' = {Relay!Room'} \union UNION {StatesOf(down'[s]) : s \in Sockets}
  BY DEF Underway, StatesOf, IsState
<1> QED
  BY <1>1, <1>2

LEMMA ProceedsWatched ==
  ASSUME Proceeds
  PROVE  Watched!WatchNext
<1>1. Underway' \subseteq Underway \union {Relay!Room'}
  BY InUnderway DEF Proceeds, Delivers
<1>2. CASE Relay!Room' = Relay!Room
  BY <1>1, <1>2 DEF Proceeds, Watched!WatchNext, Watched!FramesComeAndGo
<1>3. CASE Relay!Room'.seq > Relay!Room.seq
  BY <1>1, <1>3 DEF Proceeds, Watched!WatchNext, Watched!RoomChanges
<1> QED
  BY <1>2, <1>3 DEF Proceeds, RoomGoesOn

--------------------------------------------------------------------------------
(* The steps of the clients.                                                   *)

LEMMA ActsLinks ==
  ASSUME LinksSound, NEW c \in Clients, NEW l, IsLink(l, seen), NEW hello, Acts(c, l, hello)
  PROVE  /\ links'[c].socket = l.socket /\ links'[c].wires = l.wires
         /\ \A d \in Clients : d # c => links'[d] = links[d]
<1> DEFINE m == [l EXCEPT !.handed = <<>>]
<1>1. m.socket = l.socket /\ m.wires = l.wires
  BY HandedOver
<1>2. links' = [links EXCEPT ![c] = m]
  BY DEF Acts
<1> HIDE DEF m
<1> QED
  BY <1>1, <1>2 DEF LinksSound

\* Whose wires stay, all but one perhaps.
LEMMA WiresStay ==
  ASSUME SystemOrdered, NEW c \in Clients, NEW l, IsLink(l, seen),
         Acts(c, l, TRUE) \/ Acts(c, l, FALSE), UNCHANGED relayVars,
         NEW r \in Sockets, links[c].wires[r] # Null => l.wires[r] # Null, Fresh(r)'
  PROVE  Fresh(r) /\ StatesOf(down[r]) = {}
<1>1. /\ links'[c].wires = l.wires
      /\ \A d \in Clients : d # c => links'[d] = links[d]
  BY ActsLinks DEF SystemOrdered, SystemSound
<1>2. \A d \in Clients : Wired(d, r) => Wired(d, r)'
  BY <1>1 DEF Wired
<1>3. Waiting(r)' <=> Waiting(r)
  BY DEF relayVars, Waiting
<1>4. Fresh(r)
  BY <1>2, <1>3 DEF Fresh
<1> QED
  BY <1>4 DEF SystemOrdered, Orderly

LEMMA SameRoomNext ==
  ASSUME UNCHANGED relayVars
  PROVE  Relay!Room' = Relay!Room
BY DEF Relay!Room, relayVars

LEMMA OwnProceeds ==
  ASSUME SystemOrdered, NEW c \in Clients, OwnStep(c)
  PROVE  Proceeds
<1>1. UNCHANGED <<relayVars, shown, down>>
  BY DEF OwnStep, ClientGivesUp, ClientRetries, AppReturns, AppCalls
<1>2. PICK l : Moves(c, l, Unused)
  BY OwnMoves DEF SystemOrdered
<1>3. IsLink(l, seen) /\ Goes(links[c], l, Unused) /\ (Acts(c, l, TRUE) \/ Acts(c, l, FALSE))
  BY <1>2 DEF Moves
<1>4. \A d \in Clients : links'[d].socket \in {links[d].socket, Null} \union Unused
  BY <1>3, ActsLinks DEF Goes, SystemOrdered, SystemSound
<1>5. \A r \in Sockets : Fresh(r)' => StatesOf(down[r]) = {}
  BY <1>1, <1>3, WiresStay DEF Goes
<1>6. RoomGoesOn
  BY <1>1, SameRoomNext DEF RoomGoesOn
<1>7. Delivers
  BY <1>1, <1>5 DEF Delivers, SystemOrdered, Orderly
<1> QED
  BY <1>1, <1>4, <1>6, <1>7 DEF Proceeds

\* The channel that was read, and the others.
LEMMA HearsChannels ==
  ASSUME SystemOrdered, NEW c \in Clients, NEW s \in Sockets, NEW event, Hears(c, s, event)
  PROVE  /\ \A r \in Sockets : Tidy(down'[r]) /\ StatesOf(down'[r]) \subseteq StatesOf(down[r])
         /\ down'[s] = Tail(down[s])
         /\ event = "close" => StatesOf(down'[s]) = {}
<1>1. down[s] \in Seq(Events) /\ down[s] # <<>> /\ Tidy(down[s]) /\ Head(down[s]).event = event
  BY DEF SystemOrdered, SystemSound, DownSound, Orderly, Hears
<1>2. down' = [down EXCEPT ![s] = Tail(down[s])] /\ down \in [Sockets -> Seq(Events)]
  BY DEF Hears, SystemOrdered, SystemSound, DownSound
<1>3. down'[s] = Tail(down[s]) /\ \A r \in Sockets : r # s => down'[r] = down[r]
  BY <1>2
<1> QED
  BY <1>1, <1>3, TailChannel DEF SystemOrdered, Orderly

LEMMA OpensProceeds ==
  ASSUME SystemOrdered, NEW c \in Clients, NEW s \in Sockets, ClientOpens(c, s)
  PROVE  Proceeds
<1>1. UNCHANGED <<relayVars, shown>> /\ Hears(c, s, "open")
  BY DEF ClientOpens, Hears
<1>2. PICK l : Moves(c, l, {})
  BY OpensMoves DEF SystemOrdered
<1>3. IsLink(l, seen) /\ Goes(links[c], l, {}) /\ (Acts(c, l, TRUE) \/ Acts(c, l, FALSE))
  BY <1>2 DEF Moves
<1>4. \A d \in Clients : links'[d].socket \in {links[d].socket, Null}
  BY <1>3, ActsLinks DEF Goes, SystemOrdered, SystemSound
<1>5. \A r \in Sockets : Tidy(down'[r]) /\ StatesOf(down'[r]) \subseteq StatesOf(down[r])
  BY <1>1, HearsChannels
<1>6. \A r \in Sockets : Fresh(r)' => StatesOf(down[r]) = {}
  BY <1>1, <1>3, WiresStay DEF Goes
<1>7. RoomGoesOn
  BY <1>1, SameRoomNext DEF RoomGoesOn
<1>8. Delivers
  BY <1>5, <1>6 DEF Delivers
<1> QED
  BY <1>1, <1>4, <1>7, <1>8 DEF Proceeds

LEMMA ClosesProceeds ==
  ASSUME SystemOrdered, NEW c \in Clients, NEW s \in Sockets, ClientCloses(c, s)
  PROVE  Proceeds
<1>1. UNCHANGED <<relayVars, shown>> /\ Hears(c, s, "close")
  BY DEF ClientCloses, Hears
<1>2. PICK l : IsLink(l, seen) /\ GoesBut(links[c], l, s) /\ Acts(c, l, FALSE)
  BY ClosesMoves DEF SystemOrdered
<1>3. \A d \in Clients : links'[d].socket \in {links[d].socket, Null}
  BY <1>2, ActsLinks DEF GoesBut, SystemOrdered, SystemSound
<1>4. /\ \A r \in Sockets : Tidy(down'[r]) /\ StatesOf(down'[r]) \subseteq StatesOf(down[r])
      /\ StatesOf(down'[s]) = {}
  BY <1>1, HearsChannels
<1>5. \A r \in Sockets : r # s /\ Fresh(r)' => StatesOf(down[r]) = {}
  BY <1>1, <1>2, WiresStay DEF GoesBut
<1>6. RoomGoesOn
  BY <1>1, SameRoomNext DEF RoomGoesOn
<1>7. Delivers
  BY <1>4, <1>5 DEF Delivers
<1> QED
  BY <1>1, <1>3, <1>6, <1>7 DEF Proceeds

--------------------------------------------------------------------------------
(* A client is shown a state.                                                  *)

LEMMA SeesOrdered ==
  ASSUME SystemOrdered, SystemSound', NEW c \in Clients, NEW s \in Sockets, ClientSees(c, s)
  PROVE  SystemOrdered' /\ Watched!WatchNext
<1> DEFINE state == Head(down[s]).state
           l == Client!HandleMessage(links[c], s, state.seq, Null)
           news == l.lastSeen # links[c].lastSeen
<1>1. /\ Hears(c, s, "state") /\ Acts(c, l, FALSE) /\ UNCHANGED relayVars
      /\ shown' = IF news THEN [shown EXCEPT ![c] = state] ELSE shown
  BY DEF ClientSees, Hears
<1>2. IsLink(l, seen) /\ Goes(links[c], l, {}) /\ (news => links[c].socket = s)
  BY StateEventLink DEF SystemOrdered, SystemSound, LinksSound
<1> HIDE DEF l
<1>3. /\ down[s] \in Seq(Events) /\ down[s] # <<>> /\ Tidy(down[s]) /\ IsState(Head(down[s]))
      /\ down'[s] = Tail(down[s])
  BY <1>1, HearsChannels DEF SystemOrdered, SystemSound, DownSound, Orderly, Hears, IsState
<1>4. /\ state \in StatesOf(down[s])
      /\ \A x \in StatesOf(down'[s]) : x.seq > state.seq
  BY <1>3, TailChannel
<1>5. \A r \in Sockets : Tidy(down'[r]) /\ StatesOf(down'[r]) \subseteq StatesOf(down[r])
  BY <1>1, HearsChannels
<1>6. \A r \in Sockets : Fresh(r)' => StatesOf(down[r]) = {}
  BY <1>1, <1>2, WiresStay DEF Goes
<1>7. Relay!Room' = Relay!Room /\ RoomGoesOn
  BY <1>1, SameRoomNext DEF RoomGoesOn
<1>8. Delivers
  BY <1>5, <1>6 DEF Delivers
<1>9. \A d \in Clients : links'[d].socket \in {links[d].socket, Null}
  BY <1>1, <1>2, ActsLinks DEF Goes, SystemOrdered, SystemSound
<1>10. Underway' \subseteq Underway /\ state \in Underway
  BY <1>4, <1>5, <1>7, InUnderway
<1>11. CASE ~news
  <2>1. Proceeds
    BY <1>1, <1>7, <1>8, <1>9, <1>11 DEF Proceeds
  <2> QED
    BY <2>1, ProceedsOrdered, ProceedsWatched
<1>12. CASE news
  <2>1. shown' = [shown EXCEPT ![c] = state] /\ links[c].socket = s
    BY <1>1, <1>2, <1>12
  <2>2. Follows(Relay!Room, state) /\ Follows(state, shown[c])
    BY <1>4, <2>1, WireFacts DEF SystemOrdered, Orderly, Watching
  <2>3. shown'[c] = state /\ \A d \in Clients : d # c => shown'[d] = shown[d]
    BY <2>1 DEF SystemOrdered, SystemSound, ShownSound
  <2>4. ASSUME NEW d \in Clients PROVE Watching(d)'
    <3>1. CASE d = c
      <4>1. \A x \in StatesOf(down'[s]) : Follows(x, state)
        BY <1>4 DEF Follows
      <4>2. links'[c].socket \in {s, Null}
        BY <1>9, <2>1
      <4> QED
        BY <1>7, <2>2, <2>3, <3>1, <4>1, <4>2 DEF Watching
    <3>2. CASE d # c
      <4>1. shown'[d] = shown[d] /\ links'[d].socket \in {links[d].socket, Null}
        BY <1>9, <2>3, <3>2
      <4>2. links'[d].socket # Null => links'[d].socket \in Sockets
        BY DEF SystemSound, LinksSound, IsLink
      <4> QED
        BY <1>5, <1>7, <4>1, <4>2 DEF SystemOrdered, Watching
    <3> QED
      BY <3>1, <3>2
  <2>5. SystemOrdered'
    BY <1>7, <1>8, <2>4, OrderlyNext DEF SystemOrdered
  <2>6. Watched!WatcherSees(c)
    BY <1>7, <1>10, <2>1, <2>2 DEF Watched!WatcherSees, Follows
  <2> QED
    BY <2>5, <2>6 DEF Watched!WatchNext
<1> QED
  BY <1>11, <1>12

--------------------------------------------------------------------------------
(* The steps of the relay and of the network.                                  *)

LEMMA RelayGoesOn ==
  ASSUME RelaySound, RelayActs
  PROVE  RoomGoesOn
<1>1. CASE \E s \in Sockets : Relay!Frame(s)
  BY <1>1, FrameStep DEF RoomGoesOn
<1>2. CASE ~\E s \in Sockets : Relay!Frame(s)
  <2>1. Keeps(Relay!Room')
    BY <1>2, QuietStep DEF RelayActs
  <2> QED
    BY <2>1 DEF RoomGoesOn, Keeps
<1> QED
  BY <1>1, <1>2

\* Clients unchanged: what is new in the channels is all there is to see.
LEMMA RelayProceeds ==
  ASSUME SystemOrdered, RelayActs, UNCHANGED clientVars, Delivers
  PROVE  Proceeds
BY RelayGoesOn DEF Proceeds, SystemOrdered, SystemSound, clientVars

\* A state that is sent is newer than everything before it on its connection.
LEMMA SentIsNew ==
  ASSUME SystemOrdered, SystemSound', RoomGoesOn, Settles, NEW s \in Sockets,
         frames'[s] # Null, frames'[s] # frames[s], NEW x \in StatesOf(down[s])
  PROVE  Relay!Room'.seq > x.seq
<1>1. Follows(Relay!Room, x) /\ x \in Relay!RoomStates
  BY StatesType DEF SystemOrdered, Orderly, SystemSound, DownSound
<1>2. Relay!Room \in Relay!RoomStates /\ Relay!Room' \in Relay!RoomStates
  BY RoomFollows DEF SystemOrdered
<1>3. Relay!Room.seq \in Nat /\ Relay!Room'.seq \in Nat /\ x.seq \in Nat /\ x # Null
  BY <1>1, <1>2, RelayAssumption DEF Relay!RoomStates, Relay!InputAssumption
<1>4. CASE Relay!Room'.seq > Relay!Room.seq
  BY <1>1, <1>3, <1>4 DEF Follows
<1>5. CASE Relay!Room' = Relay!Room
  <2>1. /\ frames'[s] = Relay!Room' /\ sockets'[s] # Null
        /\ sockets'[s].closed = "no" /\ sockets'[s].ready
    BY RelayFramesNext DEF SystemSound
  <2>2. sockets[s] # Null /\ sockets[s].closed = "no"
    BY <2>1 DEF Settles
  <2>3. ~sockets[s].ready
    BY <1>5, <2>1, <2>2, RelayFrames DEF SystemOrdered, SystemSound
  <2>4. Fresh(s)
    BY <2>2, <2>3 DEF Fresh, Waiting
  <2> QED
    BY <2>4 DEF SystemOrdered, Orderly
<1> QED
  BY <1>4, <1>5 DEF RoomGoesOn

LEMMA SendsDelivers ==
  ASSUME SystemOrdered, SystemSound', RoomGoesOn, Settles, RelaySends
  PROVE  Delivers
<1> SUFFICES ASSUME NEW s \in Sockets
             PROVE  /\ Tidy(down'[s])
                    /\ StatesOf(down'[s]) \subseteq StatesOf(down[s]) \union {Relay!Room'}
                    /\ Fresh(s)' => StatesOf(down'[s]) = {}
  BY DEF Delivers
<1>1. down[s] \in Seq(Events) /\ Tidy(down[s]) /\ (Fresh(s) => StatesOf(down[s]) = {})
  BY DEF SystemOrdered, SystemSound, DownSound, Orderly
<1>2. down'[s] = IF Reaches(s) THEN down[s] \o Sent(s) ELSE down[s]
  BY DEF RelaySends
<1>3. Fresh(s)' => Fresh(s)
  <2>1. Waiting(s)' => Waiting(s)
    BY DEF Waiting, Settles
  <2>2. \A c \in Clients : Wired(c, s)' <=> Wired(c, s)
    BY DEF RelaySends, clientVars, Wired
  <2> QED
    BY <2>1, <2>2 DEF Fresh
<1>4. CASE ~Reaches(s)
  BY <1>1, <1>2, <1>3, <1>4
<1>5. CASE Reaches(s)
  <2> DEFINE tells == frames'[s] # Null /\ frames'[s] # frames[s]
             news == Told(frames'[s])
             told == IF tells THEN <<news>> ELSE <<>>
             ends == sockets[s] # Null /\ sockets[s].closed = "no" /\
                     (sockets'[s] = Null \/ sockets'[s].closed # "no")
             end == IF sockets'[s] = Null THEN Ended("gone") ELSE Ended(sockets'[s].closed)
             ended == IF ends THEN <<end>> ELSE <<>>
             q == down[s]
             r == q \o told
  <2>1. Sent(s) = told \o ended
    BY DEF Sent
  <2>2. Unclosed(q)
    BY <1>5 DEF Reaches, Unclosed
  <2>3. tells => /\ news \in Events /\ IsState(news) /\ news.event # "close"
                 /\ news.state = Relay!Room'
    <3>1. tells => frames'[s] = Relay!Room'
      BY RelayFramesNext DEF SystemSound
    <3>2. Relay!Room' \in Relay!RoomStates
      BY RoomFollows DEF SystemOrdered
    <3>3. \A x \in Relay!RoomStates :
            Told(x) \in Events /\ Told(x).event = "state" /\ Told(x).state = x
      BY DEF Told, Events
    <3>4. "state" # "close"
      OBVIOUS
    <3> QED
      BY <3>1, <3>2, <3>3, <3>4 DEF IsState
  <2>4. ends => end \in Events /\ end.event = "close"
    <3>1. sockets'[s] # Null => sockets'[s].closed \in Relay!CloseCodes \union {"no"}
      BY RelayTypesNext DEF SystemSound
    <3>2. \A code \in Relay!CloseCodes \union {"gone", "lost"} :
            Ended(code) \in Events /\ Ended(code).event = "close"
      BY DEF Ended, Events
    <3> QED
      BY <3>1, <3>2
  <2>5. tells => \A x \in StatesOf(q) : Relay!Room'.seq > x.seq
    BY SentIsNew
  <2> HIDE DEF news, end
  <2>6. told \in Seq(Events) /\ ended \in Seq(Events)
    <3>1. <<>> \in Seq(Events)
      OBVIOUS
    <3>2. \A e \in Events : <<e>> \in Seq(Events)
      OBVIOUS
    <3> QED
      BY <2>3, <2>4, <3>1, <3>2
  <2>7. /\ Tidy(r) /\ Unclosed(r) /\ r \in Seq(Events)
        /\ StatesOf(r) \subseteq StatesOf(q) \union {x \in {Relay!Room'} : tells}
    <3>1. CASE ~tells
      <4>1. q \o told = q
        BY <1>1, <3>1, ConcatEmptySeq
      <4> QED
        BY <1>1, <2>2, <4>1
    <3>2. CASE tells
      <4>1. told = <<news>>
        BY <3>2
      <4> QED
        BY <1>1, <2>2, <2>3, <2>5, <2>6, <3>2, <4>1, LongerChannel, ConcatProperties
    <3> QED
      BY <3>1, <3>2
  <2>8. down'[s] = r \o ended
    <3>1. q \in Seq(Events)
      BY <1>1
    <3>2. down'[s] = q \o (told \o ended)
      BY <1>2, <1>5, <2>1
    <3>3. r = q \o told
      OBVIOUS
    <3> HIDE DEF q, told, ended, r
    <3>4. (q \o told) \o ended = q \o (told \o ended)
      BY <2>6, <3>1, ConcatAssociative
    <3> QED
      BY <3>2, <3>3, <3>4
  <2> HIDE DEF told, r, q
  <2>9. Tidy(r \o ended) /\ StatesOf(r \o ended) \subseteq StatesOf(r)
    <3>1. CASE ~ends
      <4>1. r \o ended = r
        BY <2>7, <3>1, ConcatEmptySeq
      <4> QED
        BY <2>7, <4>1
    <3>2. CASE ends
      <4>1. ended = <<end>> /\ ~IsState(end)
        BY <2>4, <3>2 DEF IsState
      <4> QED
        BY <2>4, <2>7, <3>2, <4>1, LongerChannel
    <3> QED
      BY <3>1, <3>2
  <2>10. Fresh(s)' => ~tells
    <3>1. tells => ~Waiting(s)'
      BY RelayFramesNext DEF SystemSound, Waiting
    <3>2. \E c \in Clients : Wired(c, s)'
      BY <1>5 DEF Reaches, RelaySends, clientVars, Wired
    <3> QED
      BY <3>1, <3>2 DEF Fresh
  <2> QED
    BY <1>1, <1>3, <2>7, <2>8, <2>9, <2>10 DEF q
<1> QED
  BY <1>4, <1>5

LEMMA RelayHearsOrdered ==
  ASSUME SystemOrdered, SystemSound', (\E s \in Sockets : RelayHears(s)) \/ RelayAlarm
  PROVE  Proceeds
<1>1. \/ \E s \in Sockets : \/ Relay!Join(s) \/ Relay!Leave(s)
                            \/ Relay!LeaveRejected(s) \/ Relay!Frame(s)
      \/ Relay!AlarmTicks \/ UNCHANGED relayVars
  BY DEF RelayHears, RelayAlarm
<1>2. RelayActs /\ Settles
  BY <1>1, RelaySettles DEF RelayActs, SystemOrdered, SystemSound
<1>3. RelaySends /\ UNCHANGED clientVars
  BY DEF RelayHears, RelayAlarm, RelaySends
<1>4. Delivers
  BY <1>2, <1>3, RelayGoesOn, SendsDelivers DEF SystemOrdered, SystemSound
<1> QED
  BY <1>2, <1>3, <1>4, RelayProceeds

LEMMA RelayAcceptsOrdered ==
  ASSUME SystemOrdered, NEW s \in Sockets, RelayAccepts(s)
  PROVE  Proceeds
<1>1. /\ Relay!Accept(s) /\ UNCHANGED clientVars
      /\ down' = [down EXCEPT ![s] = <<Opened>>] /\ down \in [Sockets -> Seq(Events)]
  BY DEF RelayAccepts, SystemOrdered, SystemSound, DownSound
<1>2. RelayActs
  BY <1>1 DEF RelayActs
<1>3. /\ down'[s] = <<Opened>>
      /\ \A r \in Sockets : r # s => down'[r] = down[r] /\ sockets'[r] = sockets[r]
  <2>1. sockets \in [Sockets -> Facts!Attachments \union {Null}]
    BY RelayIsSound DEF SystemOrdered, SystemSound
  <2> QED
    BY <1>1, <2>1 DEF Relay!Accept
<1>4. StatesOf(<<Opened>>) = {} /\ Tidy(<<Opened>>)
  <2>1. Opened.event # "state"
    BY DEF Opened
  <2> QED
    BY <2>1, OneOf
<1>5. \A r \in Sockets : r # s => (Fresh(r)' => Fresh(r))
  BY <1>1, <1>3 DEF Fresh, Waiting, Wired, clientVars
<1>6. Delivers
  BY <1>3, <1>4, <1>5 DEF Delivers, SystemOrdered, Orderly
<1> QED
  BY <1>1, <1>2, <1>6, RelayProceeds

LEMMA NetworkOrdered ==
  ASSUME SystemOrdered, (\E s \in Sockets : Breaks(s)) \/ RelayRestarts
  PROVE  Proceeds
<1>1. UNCHANGED clientVars /\ (UNCHANGED relayVars \/ Relay!Restart)
  BY DEF Breaks, RelayRestarts
<1>2. RelayActs /\ Settles
  BY <1>1, RelaySettles DEF RelayActs, SystemOrdered, SystemSound
<1>3. \A r \in Sockets : down'[r] = down[r] \/ down'[r] = <<Ended("lost")>>
  BY DEF Breaks, RelayRestarts, SystemOrdered, SystemSound, DownSound
<1>4. StatesOf(<<Ended("lost")>>) = {} /\ Tidy(<<Ended("lost")>>)
  <2>1. Ended("lost").event # "state"
    BY DEF Ended
  <2> QED
    BY <2>1, OneOf
<1>5. \A r \in Sockets : Fresh(r)' => Fresh(r)
  BY <1>1, <1>2 DEF Fresh, Waiting, Settles, Wired, clientVars
<1>6. Delivers
  BY <1>3, <1>4, <1>5 DEF Delivers, SystemOrdered, Orderly
<1> QED
  BY <1>1, <1>2, <1>6, RelayProceeds

--------------------------------------------------------------------------------
(* One room is watched.                                                        *)

LEMMA OrderStarts ==
  ASSUME SystemInit
  PROVE  SystemOrdered /\ Watched!RoomOpens
<1>1. SystemSound /\ down = [s \in Sockets |-> <<>>] /\ shown = [c \in Clients |-> Null]
  BY SystemStarts DEF SystemInit
<1>2. \A s \in Sockets : StatesOf(down[s]) = {} /\ Tidy(down[s])
  BY <1>1, EmptyChannel
<1>3. \A s \in Sockets : Orderly(s)
  BY <1>2 DEF Orderly
<1>4. \A c \in Clients : Watching(c)
  BY <1>1, <1>2 DEF Watching, Follows, SystemSound, LinksSound, IsLink
<1>5. Watched!RoomOpens
  BY <1>1, <1>2, InUnderway DEF Watched!RoomOpens
<1> QED
  BY <1>1, <1>3, <1>4, <1>5 DEF SystemOrdered

LEMMA StepOrdered ==
  ASSUME SystemOrdered, [SystemNext]_systemVars
  PROVE  SystemOrdered' /\ [Watched!WatchNext]_Watched!watched
<1>1. SystemSound'
  BY StepSound DEF SystemOrdered
<1>2. ASSUME Proceeds PROVE SystemOrdered' /\ [Watched!WatchNext]_Watched!watched
  BY <1>1, <1>2, ProceedsOrdered, ProceedsWatched
<1>3. CASE UNCHANGED systemVars
  <2>1. UNCHANGED <<relayVars, clientVars, down>>
    BY <1>3 DEF systemVars
  <2>2. RelayActs
    BY <2>1 DEF RelayActs
  <2>3. Delivers
    BY <2>1 DEF Delivers, SystemOrdered, Orderly, Fresh, Waiting, Wired, relayVars, clientVars
  <2> QED
    BY <1>2, <2>1, <2>2, <2>3, RelayProceeds
<1>4. CASE SystemNext
  <2>1. CASE Progress
    <3>1. CASE \E s \in Sockets : RelayAccepts(s) \/ RelayHears(s)
      BY <1>1, <1>2, <3>1, RelayAcceptsOrdered, RelayHearsOrdered
    <3>2. CASE \E c \in Clients, s \in Sockets : ClientSees(c, s)
      BY <1>1, <3>2, SeesOrdered
    <3>3. CASE \E c \in Clients, s \in Sockets : ClientOpens(c, s) \/ ClientCloses(c, s)
      BY <1>2, <3>3, OpensProceeds, ClosesProceeds
    <3>4. CASE \E c \in Clients : ClientRetries(c)
      BY <1>2, <3>4, OwnProceeds DEF OwnStep
    <3> QED
      BY <2>1, <3>1, <3>2, <3>3, <3>4 DEF Progress
  <2>2. CASE \E c \in Clients : ClientGivesUp(c) \/ AppReturns(c) \/ AppCalls(c)
    BY <1>2, <2>2, OwnProceeds DEF OwnStep
  <2>3. CASE (\E s \in Sockets : Breaks(s)) \/ RelayRestarts
    BY <1>2, <2>3, NetworkOrdered
  <2>4. CASE RelayAlarm
    BY <1>1, <1>2, <2>4, RelayHearsOrdered
  <2> QED
    BY <1>4, <2>1, <2>2, <2>3, <2>4 DEF SystemNext
<1> QED
  BY <1>3, <1>4

\* WatchesOneRoom (client.ts handleMessage, race-room.ts persistAndBroadcast and the
\* replay of join): relay, connections and clients together implement one room that
\* only goes forward, of which no screen is shown an older state after a newer one,
\* through any number of reconnects, breaks, restarts and sockets of a client.
THEOREM OneRoomIsWatched == SystemSpec => WatchesOneRoom
<1>1. SystemInit => SystemOrdered /\ Watched!RoomOpens
  BY OrderStarts
<1>2. SystemOrdered /\ [SystemNext]_systemVars =>
        SystemOrdered' /\ [Watched!WatchNext]_Watched!watched
  BY StepOrdered
<1> QED
  BY <1>1, <1>2, PTL DEF SystemSpec, WatchesOneRoom, Watched!WatchSpec

================================================================================

------------------------------- MODULE RoomSystem -------------------------------
(* The relay's room and the clients of its apps, together: every connection is *)
(* a pair of channels between a socket of RaceRoom and one of RoomClient.  The *)
(* handlers are those two modules'; what is added here is the network between  *)
(* them, and the apps reduced to their calls and to the state they show.       *)
(*                                                                             *)
(* Connections are independent of each other: what was written to one arrives  *)
(* in order and before its close, or is lost when it breaks, but it may arrive *)
(* after what was written to a later connection.  The clients' timers and the  *)
(* relay's alarm fire at any time once they are armed, so the clock stands     *)
(* still and no peer falls silent.                                             *)
EXTENDS Integers, Sequences

CONSTANTS Null,
          Clients,    \* the phones and glasses
          RoleOf,     \* the role of each
          Sockets,    \* connections that can exist at once
          Lanes, CAR_LEVEL_MAX, PRESETS_MAX,
          PEER_OFFLINE_MS, ALARM_TICK_MS, HUD_STALE_CLEAR_MS, ROOM_TTL_MS,
          RECONNECT_MIN_MS, RECONNECT_MAX_MS,
          AlarmLatency, Faults, Epoch, MaxTime, MaxSeq,   \* as in RaceRoom
          MaxCalls,   \* bound of the calls of the apps
          MaxFaults   \* bound of breaks, restarts, watchdogs that fire, foregrounds

ASSUME SystemAssumption ==
  /\ RoleOf \in [Clients -> {"spotter", "driver"}]
  /\ \E first \in [Clients -> Sockets] : \A c, d \in Clients : first[c] = first[d] => c = d
  /\ MaxCalls \in Nat /\ MaxFaults \in Nat

VARIABLES
  now, sockets, cache, stored, pin, alarm, nextId, frames, movedAt,  \* RaceRoom's
  links,    \* the link of each client, as in RoomClient
  shown,    \* the state its listeners were told last, Null before the first
  up,       \* what was written to each connection by its client
  down,     \* what was written to it by the relay
  calls, faults,
  seen      \* history: the messages a driver was shown

relayVars == <<now, sockets, cache, stored, pin, alarm, nextId, frames, movedAt>>
clientVars == <<links, shown, seen>>
systemVars == <<relayVars, clientVars, up, down, calls, faults>>

Url == "room"

Relay == INSTANCE RaceRoom WITH
  Texts <- {}, Pins <- {}, BadPin <- "malformed", CarReports <- {}, LegacyRooms <- {},
  Urls <- {[role |-> RoleOf[c], token |-> Null] : c \in Clients}

\* Ages and the time to a timer's end are not kept: a timer is armed or not.
Client == INSTANCE RoomClient WITH
  Slots <- Sockets, Urls <- {Url}, link <- links, Freezes <- TRUE,
  PING_INTERVAL_MS <- 1, SOCKET_SILENT_MS <- 1, CONNECT_TIMEOUT_MS <- 1

ASSUME RelayAssumption ==
  /\ Relay!ReducerAssumption /\ Relay!NoMessageAssumption
  /\ Relay!TimingAssumption /\ Relay!InputAssumption /\ Relay!UrlAssumption

ASSUME ClientAssumption == Client!ClientAssumption /\ Client!NullAssumption /\ Client!NoSocketAssumption

--------------------------------------------------------------------------------
(* The connections.                                                            *)

Hello == [kind |-> "hello"]
Bye   == [kind |-> "bye"]

Opened       == [event |-> "open"]
Told(state)  == [event |-> "state", state |-> state]
Ended(code)  == [event |-> "close", code |-> code]

TerminalCodes == {"bad_hello", "auth", "driver_evicted", "version"}

Wired(c, s) == links[c].wires[s] # Null

\* A client asked for the connection and the relay has not accepted it yet.
Requested(c, s) ==
  /\ Wired(c, s) /\ links[c].wires[s].phase = "connecting"
  /\ sockets[s] = Null /\ down[s] = <<>>

\* What a client writes still goes somewhere, and what the relay writes.
Carries(s) ==
  /\ sockets[s] # Null \/ \E c \in Clients : Requested(c, s)
  /\ \A i \in DOMAIN up[s] : up[s][i] # Bye

Reaches(s) ==
  /\ \E c \in Clients : Wired(c, s)
  /\ \A i \in DOMAIN down[s] : down[s][i].event # "close"

\* The sockets a client may open.  They are alike, so one of them stands for all.
Unused ==
  LET free == {s \in Sockets : /\ sockets[s] = Null /\ up[s] = <<>>
                              /\ \A c \in Clients : ~Wired(c, s)}
  IN  IF free = {} THEN {} ELSE {CHOOSE s \in free : TRUE}

--------------------------------------------------------------------------------
(* A client does something: what it wrote goes to its socket, and closing a    *)
(* socket is the last thing written to it.                                     *)

WrittenBy(l, s) ==
  IF s # l.socket THEN <<>>
  ELSE [i \in DOMAIN l.handed |-> l.handed[i].intent]

JustClosed(c, l, s) ==
  /\ Wired(c, s) /\ ~links[c].wires[s].closed
  /\ l.wires[s] = Null \/ l.wires[s].closed

Acts(c, l, hello) ==
  /\ links' = [links EXCEPT ![c] = [l EXCEPT !.handed = <<>>]]
  /\ up' = [s \in Sockets |->
       IF ~Carries(s) THEN up[s]
       ELSE up[s] \o (IF hello /\ s = l.socket THEN <<Hello>> ELSE <<>>)
                  \o WrittenBy(l, s)
                  \o (IF JustClosed(c, l, s) THEN <<Bye>> ELSE <<>>)]

\* The next event of the socket is the client's.
Hears(c, s, event) ==
  /\ Wired(c, s) /\ down[s] # <<>> /\ Head(down[s]).event = event
  /\ down' = [down EXCEPT ![s] = Tail(@)]
  /\ UNCHANGED <<relayVars, calls, faults>>

ClientOpens(c, s) ==
  /\ Hears(c, s, "open")
  /\ Acts(c, Client!HandleOpen([links[c] EXCEPT !.wires[s].phase = "open"], s),
          links[c].socket = s)
  /\ UNCHANGED <<shown, seen>>

\* The listeners are told of the state when the client takes it for news.
ClientSees(c, s) ==
  /\ Hears(c, s, "state")
  /\ LET state == Head(down[s]).state
         l     == Client!HandleMessage(links[c], s, state.seq, Null)
         news  == l.lastSeen # links[c].lastSeen
     IN  /\ Acts(c, l, FALSE)
         /\ shown' = IF news THEN [shown EXCEPT ![c] = state] ELSE shown
         /\ seen' = IF news /\ RoleOf[c] = "driver" /\ state.msg # Null
                    THEN seen \union {state.msg.id} ELSE seen

\* The glasses report that they were turned away and stay bound to the room.
ClientCloses(c, s) ==
  /\ Hears(c, s, "close")
  /\ \E l \in Client!HandleClose(Client!Gone(links[c], s), s,
                                 Head(down[s]).code \in TerminalCodes, s) :
       l.url = links[c].url /\ Acts(c, l, FALSE)
  /\ UNCHANGED <<shown, seen>>

\* The connect timeout or the silence watchdog.
ClientGivesUp(c) ==
  /\ links[c].socket # Null
  /\ faults < MaxFaults /\ faults' = faults + 1
  /\ \E l \in Client!DropDeadSocket(links[c], links[c].socket) : Acts(c, l, FALSE)
  /\ UNCHANGED <<relayVars, shown, seen, down, calls>>

ClientRetries(c) ==
  /\ links[c].retry # Null
  /\ \E s \in Unused :
       Acts(c, Client!OpenSocket([links[c] EXCEPT !.retry = Null], s), FALSE)
  /\ UNCHANGED <<relayVars, shown, seen, down, calls, faults>>

--------------------------------------------------------------------------------
(* The apps.                                                                   *)

\* The app comes to the foreground, after any time.
AppReturns(c) ==
  /\ faults < MaxFaults /\ faults' = faults + 1
  /\ \E s \in Unused, heard \in {links[c].heard, Client!QuietMax} :
       /\ links[c].heard = Null => heard = Null
       /\ Acts(c, Client!Connect([links[c] EXCEPT !.heard = heard], Url, s), FALSE)
  /\ UNCHANGED <<relayVars, shown, seen, down, calls>>

\* A driver acks the message that is shown.
Calls(c) ==
  IF RoleOf[c] = "spotter"
  THEN {[kind |-> "lane", says |-> lane] : lane \in Lanes} \union
       {[kind |-> "msg", says |-> Null]}
  ELSE LET messages == IF shown[c] = Null THEN {} ELSE {shown[c].msg} \ {Null}
       IN  {[kind |-> "ack", says |-> msg.id] : msg \in messages}

AppCalls(c) ==
  /\ calls < MaxCalls /\ calls' = calls + 1
  /\ links[c].url # Null
  /\ \E call \in Calls(c) :
       /\ Acts(c, Client!Send(links[c], call), FALSE)
  /\ UNCHANGED <<relayVars, shown, seen, down, faults>>

--------------------------------------------------------------------------------
(* The relay does something: its frames and closes go out in that order.       *)

Sent(s) ==
  (IF frames'[s] # Null /\ frames'[s] # frames[s] THEN <<Told(frames'[s])>> ELSE <<>>) \o
  (IF sockets[s] = Null \/ sockets[s].closed # "no" THEN <<>>
   ELSE IF sockets'[s] = Null THEN <<Ended("gone")>>
   ELSE IF sockets'[s].closed # "no" THEN <<Ended(sockets'[s].closed)>> ELSE <<>>)

RelaySends ==
  /\ down' = [s \in Sockets |-> IF Reaches(s) THEN down[s] \o Sent(s) ELSE down[s]]
  /\ UNCHANGED <<clientVars, calls, faults>>

RelayAccepts(s) ==
  \E c \in Clients :
    /\ Requested(c, s)
    /\ Relay!Accept(s)
    /\ sockets'[s].role = RoleOf[c]
    /\ down' = [down EXCEPT ![s] = <<Opened>>]
    /\ UNCHANGED <<clientVars, up, calls, faults>>

Reduced(call) ==
  IF call.kind = "lane" THEN Relay!ReduceLane(Relay!Room, call.says, now)
  ELSE IF call.kind = "msg" THEN Relay!ReduceMessage(Relay!Room, nextId, now)
  ELSE Relay!ReduceAck(Relay!Room, call.says, now)

\* One frame of a connection, or its close event, in the order they were written.
RelayHears(s) ==
  /\ sockets[s] # Null /\ up[s] # <<>>
  /\ up' = [up EXCEPT ![s] = Tail(@)]
  /\ LET frame == Head(up[s])
     IN  IF frame = Bye THEN Relay!Leave(s) \/ Relay!LeaveRejected(s)
         ELSE IF sockets[s].closed # "no" THEN UNCHANGED relayVars
         ELSE IF frame = Hello THEN Relay!Join(s)
         ELSE cache' = Reduced(frame) /\ Relay!Frame(s)
  /\ RelaySends

RelayAlarm == Relay!AlarmTicks /\ RelaySends /\ UNCHANGED up

--------------------------------------------------------------------------------
(* The network and the platform.                                               *)

\* A connection breaks: what was underway is lost, and both ends are told so
\* sooner or later.
Breaks(s) ==
  /\ faults < MaxFaults /\ faults' = faults + 1
  /\ Carries(s) /\ Reaches(s)
  /\ up' = [up EXCEPT ![s] = IF sockets[s] = Null THEN <<>> ELSE <<Bye>>]
  /\ down' = [down EXCEPT ![s] = <<Ended("lost")>>]
  /\ UNCHANGED <<relayVars, clientVars, calls>>

\* A deploy: every connection is lost, and the relay is told of none.
RelayRestarts ==
  /\ faults < MaxFaults /\ faults' = faults + 1
  /\ Relay!Restart
  /\ up' = [s \in Sockets |-> IF sockets[s] = Null THEN up[s] ELSE <<>>]
  /\ down' = [s \in Sockets |->
       IF sockets[s] = Null \/ ~\E c \in Clients : Wired(c, s) THEN down[s]
       ELSE <<Ended("lost")>>]
  /\ UNCHANGED <<clientVars, calls>>

--------------------------------------------------------------------------------

\* Each app has called connect.
SystemInit ==
  /\ Relay!Init
  /\ LET first == CHOOSE f \in [Clients -> Sockets] :
                     \A c, d \in Clients : f[c] = f[d] => c = d
     IN  links = [c \in Clients |->
            Client!Connect(
              [url |-> Null, socket |-> Null, status |-> "closed", replayed |-> FALSE,
               lastSeen |-> 0, heard |-> Null, openAge |-> 0, ping |-> Null,
               connect |-> Null, retry |-> Null, backoff |-> RECONNECT_MIN_MS,
               lane |-> Null, cars |-> Null, messages |-> <<>>,
               wires |-> [s \in Sockets |-> Null], rejected |-> FALSE, handed |-> <<>>],
              Url, first[c])]
  /\ shown = [c \in Clients |-> Null]
  /\ up = [s \in Sockets |-> <<>>]
  /\ down = [s \in Sockets |-> <<>>]
  /\ calls = 0 /\ faults = 0
  /\ seen = {}

\* What goes on by itself as long as there is anything underway.
Progress ==
  \/ \E s \in Sockets : RelayAccepts(s) \/ RelayHears(s)
  \/ \E c \in Clients, s \in Sockets :
       ClientOpens(c, s) \/ ClientSees(c, s) \/ ClientCloses(c, s)
  \/ \E c \in Clients : ClientRetries(c)

SystemNext ==
  \/ Progress
  \/ \E c \in Clients : ClientGivesUp(c) \/ AppReturns(c) \/ AppCalls(c)
  \/ \E s \in Sockets : Breaks(s)
  \/ RelayAlarm
  \/ RelayRestarts

SystemSpec == SystemInit /\ [][SystemNext]_systemVars

FairSystemSpec == SystemSpec /\ WF_systemVars(Progress)

--------------------------------------------------------------------------------
(* Properties.                                                                 *)

\* The states that may still arrive: the room's own, and the ones in flight.
Underway ==
  {Relay!Room} \union
  UNION {{down[s][i].state : i \in {j \in DOMAIN down[s] : down[s][j].event = "state"}} :
           s \in Sockets}

\* The apps watch one room that only goes forward: through reconnects, replays,
\* frames of several connections at once, hibernation and deploys, no screen is
\* shown an older state after a newer one, nor one the room never was in.
Watched == INSTANCE WatchedRoom WITH
  Watchers <- Clients, room <- Relay!Room, underway <- Underway
WatchesOneRoom == Watched!WatchSpec

\* A message is acked only when a driver was shown it: an ack that is late, of an
\* earlier session or of another message acknowledges nothing else.
AckMeansSeen ==
  Relay!Room.msg # Null /\ Relay!Room.msg.acked => Relay!Room.msg.id \in seen

\* A client the relay has turned away stays away, every other one has a session
\* again and shows the room, and the presence flags say who is there.
Converged ==
  /\ \A c \in Clients :
       links[c].rejected \/ (links[c].replayed /\ shown[c] = Relay!Room)
  /\ \A role \in {"spotter", "driver"} :
       (\E c \in Clients : links[c].replayed) =>
         (Relay!Room.online[role] <=> \E c \in Clients : RoleOf[c] = role /\ links[c].replayed)

\* Once the network and the users leave them in peace, relay and clients agree.
Converges == <>[]Converged

\* The only driver's phone is never turned away: what evicts a driver is another
\* driver (specs/020-protocol-and-relay.md: "the driver's own stale socket must
\* never lock it out").
OwnSocketNeverLocksOut == \A c \in Clients : ~links[c].rejected

================================================================================

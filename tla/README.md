# TLA+ models of g2-race-spotter

A spotter's phone calls lanes, cars and short messages to a driver's glasses
through a relay. The relay keeps one room per race car. This directory models
the parts of that system whose correctness depends on the order in which things
happen: `*.tla` are the models, `MC*.tla` and `*.cfg` the instances TLC checks,
`*Proofs.tla` the theorems TLAPS checks. `PROJECT.json` maps every definition
to the source lines it stands for and lists runs, seeded faults, hazards,
findings and theorems.

Run one instance with `tlc -workers 2 -config RaceRoomFaults.cfg MCRaceRoom.tla`,
check the proofs of one module with `tlapm RaceRoomProofs.tla`.

## The system

| component | state it keeps | operations | talks to |
|---|---|---|---|
| room state and reducer (`packages/protocol/src/reduce.ts`) | none: a pure function over `State` (lane, cars, message, presence, presets, `seq`, `updatedAt`, `calledAt`) | `reduce` with lane, cars, msg, clear, ack, preset, peer, expire, stale | called by the relay |
| relay room (`services/relay/src/race-room.ts`, `alarm.ts`) | sockets with their attachments, the state in memory and in storage, the PIN, one alarm | accept, hello, data frames, ping, close, alarm (tick, stale clear, expiry), hibernation, restart | frames to every client of the room |
| relay routing (`services/relay/src/index.ts`) | none | HTTP to room objects, static assets with a single-page fallback | relay rooms, the browser |
| room client (`packages/protocol/src/client.ts`) | one socket, four timers, backoff, `replayed`, `lastSeen`, `lastFrameAt`, queued intents | connect, disconnect, send; socket and timer events | relay; listeners of the two apps |
| spotter app (`apps/spotter/src/main.ts`, `intents.ts`, `model.ts`) | join form, shown state, optimistic lane and cars, car rows waiting for a replay, one PIN-collision retry | taps, drags, join, start, hide, resume | room client |
| glasses driver app (`apps/glasses/src/driver.ts`, `app.ts`, `link.ts`, `msg-blink.ts`, `input.ts`) | last state, link verdict, message timers, blink phases, ack guard | state, connection and error events, watchdog, taps | room client, render queue |
| glasses render queue (`apps/glasses/src/render/queue.ts`) | wanted and sent images and texts, retries, text fallback | push, one send at a time | the glasses SDK |
| spotter service worker (`apps/spotter/src/sw.ts`) | a cache of answers by path, an installation that is running | install, activate, fetch (network first for pages, cache first for the rest) | the browser, relay routing |
| glasses start-up, settings, companion page (`apps/glasses/src/main.ts`, `settings.ts`, `companion.ts`, `startup-page.ts`) | stored settings (four keys), the settings in force, the render mode, pending writes | launch, page call, save and connect, foreground, exit | the glasses SDK, driver app, room client |
| SDK bridge (`apps/glasses/src/bridge.ts`, `even-bridge.ts`) | none | passes calls on to the SDK | SDK |
| drawing (`apps/glasses/src/render`, `apps/spotter/src/ui`) | none | state to pixels, text or HTML | |

A client opens a WebSocket, says `hello`, and is sent the whole room state (the
replay). Every later change of the room is broadcast as a whole state with a
higher `seq`. Pings keep a peer alive; the relay's alarm finds those that
stopped. Nothing is acknowledged: a lost frame is repaired by the next replay.

What is hard in it:

* the relay keeps one alarm for three purposes, re-armed from many places, and
  its memory is only a cache of storage that hibernation and restarts drop;
* sockets come and go without close events, an evicted or reaped socket may
  still send a late frame or close event;
* the client sees events of sockets it has already given up, frozen timers, and
  half-open connections; intents are queued across sessions but acks must not be;
* a frame of an abandoned connection crosses the hello of its successor, at
  either end, and a deploy drops every connection without telling the relay;
* the apps draw optimistic or timed content that must not outlive the truth;
* the glasses may refuse or fail any call, and the host may kill the app between
  two of the four writes of one save;
* a phone holds a tab and a cache of one build while the relay serves the next.

What makes each part correct is the list of its properties under Runs; where
each is at risk in the code is the list of hazards in `PROJECT.json`.

## Modules

| module | models |
|---|---|
| `RoomState` | the state and the reducer, one operator per event |
| `RaceRoom` | the relay's room object: sockets, storage, PIN, alarm, faults |
| `MCRaceRoom` | instances of `RaceRoom` for TLC |
| `RoomClient` | the client both apps share: socket, watchdogs, backoff, kept intents |
| `ClientView` | what an app can see of its client: the abstract specification of `RoomClient` |
| `MCRoomClient` | instances of `RoomClient` for TLC, and the refinement of `ClientView` |
| `SpotterApp` | the spotter's page around the operators of `RoomClient` |
| `MCSpotterApp` | instances of `SpotterApp` for TLC |
| `DriverApp` | the driver's app on the glasses around `ClientView` |
| `MCDriverApp` | instances of `DriverApp` for TLC |
| `RenderQueue` | the worker that brings the HUD onto the glasses |
| `MCRenderQueue` | instances of `RenderQueue` for TLC |
| `RoomSystem` | the relay's room and its clients together, over connections that delay, reorder between each other and break |
| `WatchedRoom` | what relay and clients promise together: the abstract specification of `RoomSystem` |
| `MCRoomSystem` | instances of `RoomSystem` for TLC |
| `GlassesStart` | the launch, the settings and the companion page of the glasses app |
| `MCGlassesStart` | instances of `GlassesStart` for TLC |
| `AppShell` | how the apps reach a phone: the relay's routes, the service worker, one tab; checked as it is |
| `RaceRoomProofs` | what each reducer event preserves; types, memory and storage, all timing invariants; presence, one driver, PIN, what each socket was sent; the TTL |
| `RoomClientProofs` | one socket, its watchdogs, the way back, rooms kept apart, what is sent is in order, nothing pending is lost, and that the client implements `ClientView` |
| `SpotterAppProofs` | that the page uses the client as it may, and all it is checked for |
| `DriverAppProofs` | that a stale link is seen in time, a message leaves in time and one that left by itself is acked |
| `RenderQueueProofs` | types, and that an idle queue has forgotten nothing |
| `RoomSystemProofs` | that only what was shown is acked, and that relay and clients implement `WatchedRoom` |
| `GlassesStartProofs` | types, the save in force, what the store keeps |
| `AppShellProofs` | types, what is kept and run as a script, the glasses app apart |

`SpotterApp` extends `RoomClient`; `DriverApp` stands on `ClientView`, which
`RoomClient` implements; `RoomSystem` instantiates `RaceRoom` once and
`RoomClient` once for all clients, and implements `WatchedRoom`.

### RoomState

One operator per reducer event, named after the function of `reduce.ts`
(`ReduceLane`, `ReduceCars`, ...). An event that changes nothing returns the
state itself, as the code does, because the relay decides by identity whether
there is anything to store and send. Texts, lanes and message ids are abstract
values. Car reports are given in half levels so that rounding of halves is
visible. Presets are a set: the code never stores a text twice and only draws
their order.

### RaceRoom

`sockets` holds the attachment of each accepted socket (role, token, last ping,
`ready`, and the rejected flag with its close code). `cache` is `this.state`,
`stored`, `pin` and `alarm` are the Durable Object's storage, `frames` the last
state sent on each socket. `movedAt` is a history variable: the last join or
departure.

A Durable Object delivers one event at a time and holds back the next while a
handler awaits storage, so one handler is one action: `Accept` (fetch),
`RefuseHello`, `Join`, `Leave` and `LeaveRejected` (webSocketClose and
webSocketError), `Ping`, `Frame`, `AlarmTicks`, `AlarmExpires`. `Hibernate`,
`Restart` and `Crash` are the platform's; `Crash` covers a process that dies
between two writes of any handler that writes twice. `Tick` is the clock. It
waits for an armed alarm for at most `AlarmLatency`; without that the platform
would promise nothing about alarms, and no property about time could hold.

Malformed, unknown and wrong-role frames are answered or counted and change
nothing, so they are no step. `send()` is taken not to throw.

### RoomClient

`link` is one record: the fields of the client (`url`, `socket`, `status`,
`replayed`, `lastSeen`, `heard` for the age of `lastFrameAt`, `openAge` for that
of `openedAt`, the three timers, the backoff, the pending lane, cars and
messages), the sockets as the network sees them (`wires`), and two history
fields: `rejected` (the last close was terminal) and `handed` (what was written
to which socket). Every method is an operator from one link to the next and has
its name (`Connect`, `Disconnect`, `Send`, `OpenSocket`, `HandleOpen`,
`HandleMessage`, `HandleClose`, `DropDeadSocket`, `SendPing`, `FlushPending`,
`ScheduleReconnect`), so that a listener which calls back into the client is a
composition of operators. Actions are what enters from outside: `Opens`,
`Delivers`, `Closes` and `Dies` of any socket, `PingTimer`, `ConnectTimer`,
`RetryTimer`, `Tick`, and the calls of an app.

* A socket the client has retired stays a wire until its close event, and still
  opens, delivers and closes; the handlers ignore it by identity. `Dies` is the
  half-open connection. A socket takes a free slot; opening one waits for that.
* A server frame is the `seq` of its state, 0 for any other frame. An intent is
  its kind and the number of the call that made it, with the room and the session
  it was made in.
* Timers count down, and remember the socket they were armed for. They fire on
  time unless `Freezes`, when the page may be suspended for any time. Ages are not
  told apart beyond `QuietMax`.
* The backoff is kept as the base delay of the next retry instead of the number
  of attempts; the retry is any delay the jitter can give.
* Listeners do what the two apps do: on a terminal close nothing, leave, or
  leave and enter another room; on the first state of a session the spotter may
  send rebased car rows, which happens before the flush, as in the code.

### SpotterApp

Extends `RoomClient`: `app` is the page (the fields of `Model` that the
properties tell apart, and `replayed`, `pendingCarRows`, `drag`,
`collisionRetry` of `main.ts`), and each handler of the page is an action that
updates `app` and applies the client's operators to `link` in the order the code
calls them. A terminal close is one action (`TurnedAway`) although it passes
through the client, the page's listener and the client again.

* A join form is also the url, so `Urls` is `Forms`. The PIN is left out: the
  relay may refuse anybody.
* `conn` and `replayed` change when the client tells the page (`Told`), which it
  does only when its status changes.
* Of a room's state only the cars are kept; the relay may report any triple. Lane
  taps and messages are calls of the client without a content.
* `optimistic` is the triple in its 300 ms window. Something redraws the page
  every `PING_INTERVAL_MS`, so it ends before the clock moves.
* Loading is an action of its own, with or without a stored session. A reload is
  another behaviour from `SpotterInit`. A page may be loaded in the background;
  it then joins its stored room and is online while hidden, as in the code.
* `known` and `triple` are history: the levels each row has had in the states and
  gestures since the last session ended, and the last triple handed over.

`UsesClient` is `RoomClient`'s own `Spec`: every step of the page is a step of
the client that `RoomClient` allows, or leaves it alone. So the listeners
assumed there include this page, and what is checked and proved of `RoomClient`
holds of the spotter's client.

### ClientView and DriverApp

`ClientView` is the client as its listeners and getters show it: status,
`replayed`, and the age of the last frame of this session. `RoomClient`
implements it (`ShowsView`: every step of the client is a step of `ClientView` or
leaves the view alone), so `DriverApp` can stand on the small specification.

`DriverApp` is the code behind `startDriver`. `driver` holds the fields of `HudApp`
and the timers and guards of `driver.ts` (auto-clear, message blink, status
blink, ack retry, the pending and settled acks); each listener, timer callback
and host event is an action that runs the whole handler: `OnState` with its
watchdog check, blink, message timer and pending ack, in the order of the code.
`relay` has the rooms the companion may save, each with the one message it shows,
the room of the client's url and the frames under way from it. `AckArrives` and
`NewMessage` change that room, `Broadcast` sends it. A room nobody is bound to
stands still: what happens in it is seen only after the next join, and nothing the
app does depends on it, so it is taken to happen between the connect and that
join. Lane, cars and the spotter's `S` are drawn as they come and decide nothing,
so they are left out.

`SaveSettings` may save the same room with another PIN or name, another room, or
a code that is no room; the rest of the app lives on. Its awaits and overlaps are
`GlassesStart`. Two history fields make the properties speak of a *stay*, the
time from the first state of a room to the first state of another one: `from`, the
room of the last state, and `told`, the message that was first drawn in this stay
and how long ago (`Stays`). `OnState` is one action, so what it pushes in between
is not seen.

### RenderQueue

`q` is the queue (`RenderQueue` of `queue.ts`), `glasses` what the glasses show.
An image is the record of what is drawn into its container: `Bytes` says which
container depends on what, with the middle bar and the message in both bottom
halves. The worker is one coroutine, and each of its awaits is a state: a call in
flight (`"call"`), the lap that follows an answer (`"lap"`), and `run` waiting for
the `pump` that has returned (`"end"`). `Pump` is one lap of `pump`, `Run` a turn of
`run`, whose first lap belongs to the push or timer that started it; `Lap` and
`RunEnds` go on after an await. `RunEnds` is where `run` looks at `wake` once more.
A push may come in every one of these states, because `HudApp.render` pushes the
HUD and then the status in one turn: the second push finds the worker where the
first one left it, with `pump` possibly over and `running` still set. The debounce
timer and the clock run between turns of the event loop only (`BetweenTurns`). In
a call, one of `ImageAccepted`, `ImageFails`, `TextShown`,
`TextFails`, `PageRebuilt` is the rest of `sendImage`, `sendHudText`,
`sendTextJob` or `fallbackToTextMode`. `HudApp` pushes a job only when it
differs from the last one; so does `PushHud`. The fallback happens inside
`ImageFails`, as in the code. Messages have a text and the line that text mode
makes of it (`OneLine`), which may coincide for two messages.

### RoomSystem and WatchedRoom

`RoomSystem` adds to the handlers of `RaceRoom` and `RoomClient`, which it takes
over by `INSTANCE`, only the network between them. A connection is a pair of
channels, `up[s]` and `down[s]`, in which the frames, the open and the close
events are in the order they were written; different connections are not
ordered with each other. `ClientOpens`, `ClientSees`, `ClientCloses`,
`ClientGivesUp`, `ClientRetries`, `AppReturns` and `AppCalls` take one event of
a client; `RelayAccepts`, `RelayHears` and `RelayAlarm` one of the relay.
`Breaks` loses what is underway on a connection, and both ends are told;
`RelayRestarts` is a deploy, of which the relay is not told. An abandoned
connection keeps its channel until the relay has read it to its end.

The clock stands still: a timer that is armed may fire at any moment, no peer
falls silent, and what depends on durations stays with `RaceRoom` and
`RoomClient`. The apps are reduced to their calls and to `shown`, the state
their listeners were told last.

`WatchedRoom` is what the two halves promise together. There is one room that
only goes forward, and a watcher is shown states that were the room's, never an
older one after a newer one. `underway` are the states it may still be shown.
The refinement maps the room to the relay's state in memory or storage,
`underway` to the frames in flight, and `shown` to itself.

### GlassesStart

One launch after the other on one store. `Launch` is `start()` up to the page
call: it reads the store, lays a valid `?room=`, `?pin=` and `?name=` over it
and picks the render mode. `PageAnswered` is the rest, whether the page was made
or not, because `main.ts` goes on in both cases; `PageRejected` is a call that
throws, which nothing catches. `Submit` is a valid form of the companion page:
it replaces `settings` at once and issues four writes. `HostAnswers` takes or
refuses the oldest write (`applySettings` does not look at the answer),
`HostFails` lets it fail, and `Applied` is the rest of `applySettings`, in any
order between two saves. `Kill` ends the app with the writes the host has not
taken. `kept` is history: the last save the host took whole, and those after it.
A save that is over while there is no driver screen throws, as in the code.

### AppShell

`ServeAsset` and `Route` are the relay's; `Handled` is the worker's fetch
listener with `NetworkFirst` and `CacheFirst`. `cache` is what it keeps for each
path. An installation (`Registers`, `InstallFetchesIndex`, `InstallAdds`,
`InstallEnds`) runs between the requests of the tab, fetch by fetch, and each of
them may fail or come from another build. The tab navigates, loads the script
its index names, and fetches; builds are numbers, and the static files are those
of the build that is deployed. The network may answer with an error or not at
all while the phone is online.

## Runs

Twelve runs; each is one question. `pass` runs are exhaustive.

Time is in units that keep the order of the code's timings rather than their
ratio to a millisecond. In the `RaceRoom` runs a unit is 3 s: the tick is 1, the
offline limit and the stale window 2, as in the code, and alarms are on time
(that they may be late by any bounded latency is covered by the proofs). The TTL
is shortened from 24 h to one or two units more than the window, so that a whole
lifetime fits in the clock's bound. `MaxTime` bounds the clock and `MaxSeq` the
number of changes of the room; in every run both allow each deadline it is about
to pass. Socket slots are symmetric and reused, so two or three slots stand for
any number of successive connections.

In the `RoomClient` runs the units only keep the order of the code's timings:
ping <= silence limit <= connect timeout, and the backoff doubles at least once
before it meets its maximum. `MaxCalls` bounds the calls of the app, `MaxFaults`
the sockets closed or lost under it; replays and timers are not bounded. Two
slots are a socket and its predecessor, which is all a handler can confuse.
The `SpotterApp` runs use the smallest timings, two rows with two levels, and
`MaxTouches` gestures; `MaxCalls` is what it takes to load, hide, come back and
send. `DriverApp` has two rooms, which are alike and symmetric, so that another room
can be saved and the first one again, and two messages (`MaxMessages`): in one
room, the second while the first is being cleared, or one in each. One frame is
under way at a time (`MaxFrames`); the proofs allow any number. `MSG_AUTO_ACK_MS` is
two units, so that a save or a drop falls before, at and after half of it; the
other timings are one, `FOREGROUND_DEBOUNCE_MS` and `SOCKET_HEALTHY_MS` zero, which
only lets the host's events come more often and keeps fewer sessions. Saves,
drops, taps and timers are not bounded. It is the largest run, with 730 000
states.
`RenderQueue` has three pushes, three failing calls (enough for the fallback,
`SEND_FAILED_LIMIT`, or for a failed retry) and five jobs that differ in every
way the code tells jobs apart.

`RoomSystem` has one spotter and one driver with three connections: one each and
an abandoned one. Three calls (`lane`, `msg`, `ack`) are a message, its ack and a
lane or a second message; one fault (`MaxFaults`) is a break, a deploy, a watchdog that fires or
an app that returns, each at any moment. Connections that are free are alike, so
`Unused` offers one of them. `RoomSystemDriver` needs the driver alone.
`GlassesStart` has three saves over all launches (`MaxSaves`), so that two
overlap and a third follows a kill; its three launches are the packaged app, a
mistyped query and a complete one; its forms fill in everything, empty
everything but the room, and hold a typo. `AppShell` has three builds: an
installation can start in one, fetch in the next and end in the last.

| run | shows |
|---|---|
| `RaceRoomLifetime` | PINs, v1 rooms and the TTL: nobody joins without the PIN (`PinGuardsRoom`), a room is deleted only after `ROOM_TTL_MS` of emptiness (`ExpiresOnlyAfterTTL`), no replay has `seq` 0, which a client would drop (`FramesPassTheSeqGate`), and a silent peer is reaped a tick after the offline limit (`SilentPeerReaped`) |
| `RaceRoomFaults` | every kind of frame, hibernation, restarts and crashes between writes: the HUD is cleared in time (`HudClearedInTime`), memory equals storage (`CacheCoherent`), presence flags equal the joined roles (`PresenceMatchesSockets`), one driver (`OneDriver`), every joined socket was sent the current state (`LiveSocketsShareTheRoom`) |
| `RoomClientLink` | one socket in use (`OneSocketInUse`), watched by its own timer (`WatchedSocket`), a client never stranded without socket, retry or rejection (`NeverStranded`); intents sent in order, in their own room, only after a replay, none lost (`IntentsInOrder`, `IntentsStayInTheirRoom`, `NoIntentIsLost`); the apps see no more than `ClientView` says (`ShowsView`) |
| `RoomClientRecovery` | liveness (`LinkComesBack`): a bound client that was not turned away is replayed again, suspended pages and half-open sockets included |
| `SpotterApp` | page and client agree on the session (`SessionsAgree`), no dead console (`NoDeadConsole`), no change of a room that was seen (`SeenRoomStays`); rows moved while the link is down wait for the replay and are rebased on it, fingers on a fader included (`WaitingRowsAreRebased`); the page uses the client as `RoomClient` assumes (`UsesClient`) |
| `DriverApp` | no HUD of a silent link drawn as live after a check (`StaleIsNeverLive`); within a stay in a room, a message leaves the glasses when its time is over (`MessageLeavesInTime`), and one that is hidden is kept for acking until a state confirms it (`HiddenIsAcked`) |
| `RenderQueue` | an idle queue has shown the last push in either mode, also one that came between the worker's last look and its end, apart from what a failed retry or text call lost and what the armed debounce will bring; news is never what waits (`NothingIsForgotten`) |
| `RoomSystem` | every app watches one room that only goes forward, whatever connections it had (`WatchesOneRoom`); a message is acked only when a driver was shown it (`AckMeansSeen`); once the network and the users leave them in peace, room, screens and presence agree (`Converges`) |
| `GlassesStart` | the last save is in force (`LastSaveWins`), and what a whole save has stored is not lost to a refusal, a failure or a kill (`SavedSettingsSurvive`) |
| `AppShell` | no page is run or kept as a script (`ScriptsAreCode`); the glasses app is never answered with the spotter, online or not (`GlassesIsNeverTheSpotter`) |
| `SpotterAppNames`, `RoomSystemDriver` | findings, below |

Each module has one type invariant beside them. The seeded faults of the modules
(definitions whose comment says so) are the mistakes the properties were tried
on; `PROJECT.json` lists which fault breaks which property.

Fairness is assumed in two runs. `RoomClientRecovery`: the clock runs and due
timers fire, a socket the client closed eventually reports its close, and among
endlessly many attempts the network lets one open and one replay through (strong
fairness of `CurrentOpens` and `CurrentReplays`). The first two are what a
browser gives a page that is not suspended; without the last no retry policy
could succeed. `RoomSystem`: weak fairness of `Progress`, that is of everything
that goes on by itself: frames and close events that are underway arrive, and an
armed retry fires. Calls, faults, watchdogs and the alarm need not happen, and
`Converges` speaks of the time when they have stopped.

The other runs check safety: the clock may stand still. Deadlock is checked
except in `RoomSystem` and `RoomSystemDriver`, where nothing is left to happen
once the bounded calls and faults are used up and both sides agree.

## Findings

* `SpotterAppNames`: the client says hello with the name the form held when the
  page was loaded, the url carries the one typed since, and the relay closes such
  a hello with 4400: a name typed on the first visit keeps the spotter out until
  the page is reloaded.
* `RoomSystemDriver`: `connect()` replaces a socket that is open but not yet
  replayed. Its hello may reach the relay after that of its successor; the relay
  then evicts the new session as an older driver, the close is terminal, and the
  only driver of the room is turned away by its own stale socket, which the
  protocol document rules out.

## Divergences

Disagreements met while modelling that no run asserts. The properties are stated
so that they hold beside these.

* `apps/spotter/src/main.ts:268`: a tap before the replay stores the whole local
  triple as optimistic; a second tap within 300 ms, after the replay, is built
  from it and calls again a row that the relay had cleared, which the comment at
  `intents.ts:168` rules out.
* `apps/glasses/src/driver.ts:251`: a tap between a reconnect and its replay is
  dropped by the client, but the app takes the message for settled: the replay
  arms no timer and the message stays until the next tap, although the comment at
  `driver.ts:290` promises that it clears on the next window.
* `apps/glasses/src/driver.ts:145`: a message clears itself, its ack is lost, and
  the companion saves another room: that room's state makes the app drop the ack.
  Back in the first room the message is unacked and hidden and nothing is pending,
  so it is never acked, although the comment at `driver.ts:125` says that every
  state that still shows it unacked re-sends the ack. `HiddenIsAcked` therefore
  speaks of one stay in a room; that is the only way the app forgets an ack.
* `apps/glasses/src/driver.ts:193`: the same two saves while a message is up: the
  other room's state forgets what was shown, and back in the first room the
  message gets another `MSG_AUTO_ACK_MS`, although the comment at `driver.ts:113`
  says that a re-render must not extend its life. `MessageLeavesInTime` counts
  from the first draw in this stay.
* `apps/glasses/src/render/queue.ts:402`: a push during the send of the left half
  that returns to the bytes shown before finds nothing dirty and so loses its
  immediacy; a message set and cleared within one send is cleared only after the
  debounce (the header of `queue.ts` promises it at once).
* `apps/glasses/src/render/queue.ts:618`: a flush fixes which halves go out but
  not what they show; a push between the two sends is drawn by the right half at
  once and by the left half after the debounce, which the header rules out.
* `apps/glasses/src/main.ts:89`: as in `SpotterAppNames`, the glasses' client
  keeps the name of the launch; a name saved in the companion page goes into the
  url only, and the relay refuses the next hello with 4400 until the app is
  restarted.
* `apps/glasses/src/settings.ts:115`: a write the host refuses (`false`) counts as
  saved; the page says so and the next launch finds the old value.
* `apps/glasses/src/settings.ts:91`: a seeded room is not stored, so a page opened
  with `?room=` returns to that room at every launch whatever was saved since.
* `apps/glasses/src/driver.ts:259`: an exit disconnects, but the rest of a save
  that was pending, or a later foreground event, connects again.
* `apps/spotter/src/sw.ts:109`: `networkFirst` keeps whatever the network answers
  to a navigation, an error page or the index of a build whose script is not kept
  included; offline, the tab then shows that page or an index without its script.
* `apps/glasses/src/render/queue.ts:754`: a fallback before the first status job
  rebuilds the page with an empty status.

Not a disagreement, but worth knowing: the protocol skill says a silent peer is
found within `PEER_OFFLINE_MS + ALARM_TICK_MS`. `scheduleAlarm` points the tick
into the future at every hello and close, so sockets that come and go within each
tick keep it in the room longer. `SilentPeerReaped` states the bound the code does
keep, and is proved.

## Proofs

`RaceRoom` is proved for all sets of sockets, PINs, lanes and texts, all
timings that satisfy `TimingAssumption` (the tick is at most the stale window,
which is at most the TTL, which has passed since the epoch) and all faults; only
`ExpiresOnlyAfterTTL` is proved without restarts and crashes.

* `Stable` (types, memory equals storage) is inductive by itself and gives
  `TypeCorrect` and `MemoryMatchesStorage`. Each action has a lemma that also
  says what the room's state is afterwards.
* `Punctual` adds the timing invariants. `HudClearedInTime` and
  `SilentPeerReaped` speak of `now` and are not inductive: they follow because
  the *alarm* is early enough (`HudArmed`, `ReapArmed`, `TickArmed`) and the
  clock waits for it. `HudArmed` survives a crash after `put('state')` because
  the alarm of the last tick is due before the window of the new call ends; this
  is where the tick must not exceed the stale window.
* `Faithful` adds presence, one driver, the PIN and the frames. It needs
  `FramesAreLive` (only joined sockets were sent anything) and `Counted` (a state
  that tells of a peer has a `seq` above 0): a joiner raises its own flag, so
  its replay passes the clients' `seq` gate.
* `Dated` adds what `ExpiresOnlyAfterTTL` needs: the TTL is counted from
  `updatedAt`, so an empty room must have been stamped since it was left
  (`EmptySinceUpdate`). It is, because everybody who joined has a role
  (`RolesAreKnown`), so the flag of the last peer was up and lowering it stamps the
  room (`EmptiedRoomIsStamped`), whether that peer left or was reaped. The same
  step shows that an alarm that reaps the last peer does not delete the room at
  once. `RoomsOutliveTheirTTL` assumes a positive TTL, and that the process is neither
  restarted nor dies: that cuts the sockets without stamping anything, and the TTL
  then counts from the last change.

The lemmas about the reducer (in `RaceRoomProofs`) say for every event whether it
keeps presence, whether `seq` grows, and whether it is a call. `TickArmed` and
`FramesGrow` are proved and not run.

`RoomClient` is proved for all sets of rooms and sockets, all timings that
satisfy `ClientAssumption`, and any number of calls and faults.

* `Sound` is a predicate of a link, so that it can be carried through the
  operators a listener composes: there is a lemma for each of `Connect`,
  `Disconnect`, `Send`, `HandleClose` and the others. Its parts: whatever is not
  the current socket has been closed (`OneInUse`); the current one is of the room
  the client is bound to, has told of its opening, and was sent a state if the
  session is replayed (`InUse`); a bound client has a socket, a retry or a refusal
  and an unbound one has nothing armed (`Stranded`); the timers are those of the
  current socket (`Watched`); what is pending, and what was handed to a socket, is
  of its room (`PendingOfRoom`, `HandedToRoom`).
* The same lemmas say what each operator shows (`Shows`), which gives
  `ClientImplementsView`: every step is one of `ClientView` or a stutter. An app
  is proved against `ClientView` and then holds for the client.
* `OrderInv` adds that what is pending was issued after everything of its kind
  that was sent, and that a replayed session has nothing pending: this is why a
  call on a live session may be written at once without overtaking.

`SpotterApp` is proved on top of it, for all rooms, names, rows and levels and any
triple the relay may report; it assumes that no triple is `Null`. `Fits` is the
invariant: page and client agree on the status and the replay, an ended session
has no triple, an armed collision retry has shown no state, the client is bound
to the form of a console and to nothing behind another screen, and it was not
turned away while it is bound. Each handler has a lemma that ends in `Good`: the
step is one of the client's, or leaves it alone (`SpotterUsesClient`), `Fits`
holds again, and rows and room are treated as the two action properties say. The
handlers that call the client cite the lemma about that operator
(`ConnectSound`, `DisconnectSound`, `CallSendSound`, `DeliversSound`,
`CloseSound`); the ones that are told of a status need what the view shows: a
status that stays the same does not hide a replay that ended (`SameStatus`).

`DriverApp` is proved for any number of messages and frames and all timings that
satisfy `DriverAssumption`, over `ClientView`. `DriverInv` has three parts:

* `LinkInv`: the HUD shows the verdict of the last look, and the time a stale link
  has been shown plus the time to the next look is at most `LINK_CHECK_MS`
  (`Watched`). A session that was not heard of is never shown as live, because
  every listener that starts one looks at the link before it draws.
* `MessageInv`: the message on the screen is the one `shown` and `told` speak of;
  its timer runs for exactly what `MSG_AUTO_ACK_MS` leaves of its age (`OnScreen`),
  so that a redraw, a lift or a reconnect neither stops nor restarts it; and one
  that is hidden in this stay has its ack pending (`HiddenPends`).
* `OrderInv`: a message that was told of in this stay, and that is not on the last
  state, does not come again in it (`Past`, `Ordered`). This needs the frames under
  way, in their order, that a new message has a new number (`Fresh`), and that a
  room and its frames only show messages of that room (`Owned`): what the app last
  showed cannot come from where the client went since. Without it `MessageInv` is
  not inductive: a late frame could bring a message back whose age and ack had been
  forgotten.

A state that arrives either is of the room of the last one, and then `OrderInv`
says that what it shows is on the screen or new, or it begins a stay, and then it
shows nothing the app's timers and acks could be about (`StaysFacts`); both are
what `Carries` asks of `OnState`.

What draws keeps `Drawn`, and what settles a message keeps `Continues`; each
handler has a lemma in these terms, and each action a step that cites it.

`RenderQueue` is proved for all jobs, messages and statuses, any debounce and
any limit of failures, and any number of pushes and failing calls. An idle queue
is the end of a long story, so `QueueInv` says at every moment what each
container will end with:

* `Core` has a part for each. An image is as pushed, dirty, in flight, or has used
  up its retry (`Known`). The HUD text is pending, or it is what the call in
  flight will leave, or what is there (`HudShown`). For the message and the status
  it is the last job of its kind in the list that counts, and only without one
  the call in flight and the glasses (`MsgSound`, `StatusSound`). `CallSound` and
  `ModeSound` say which calls a worker and a mode can be in.
* `IdleSound` is what the last look of the worker leaves: nothing in the lists, and
  whatever waits is no news and comes with the armed timer. It has to hold not only
  of the idle worker but already of one whose `pump` has returned and that has not
  been woken since (`Resting`); a push that finds the worker there sets `wake`, and
  `RunEnds` then takes another turn instead of ending. Without that wake-up the
  invariant breaks at the end of `run`.
* A push or an answer is a composition of small changes of the record. `Same` says
  that a change leaves alone what `Core` reads, and `SameCore` carries it; the
  timer, the clock, `Schedule` and `Rest` are such changes.

`GlassesStart` is proved for any number of saves, any forms that satisfy
`FormsAssumption` and any launches. `SavedSettingsSurvive` is not inductive:
that a whole save leaves nothing older in the store rests on the order in which
the host takes the writes. `QueueOK` says that pending writes are in the order
of their saves and that no write of a save is taken while one of an earlier save
is pending; `SavesOK` that what a save waits for is pending; `StoredOK` that a
field a save has written is of that save or of a later one. `LastSaveWins` is
inductive with `AppOK`: a pending save means a valid room, so the rest of
`applySettings` always connects, with the settings of that moment.

`AppShell` is proved for any number of builds; the paths are assumed distinct
(`PathsAssumption`). `Fits` says what may be kept for a path: code under a
script's name, the icon under its own, anything under a page's. The lemmas
`RouteAnswers`, `NetworkAnswers` and `HandledAnswers` carry it from the relay
through the network and the worker to the tab.

`RoomSystem` is proved for any number of clients, sockets, calls and faults. It
assumes of its constants what `RaceRoom` and `RoomClient` assume of theirs
(`RelayAssumption`, `ClientAssumption`) and that the clients start on different
sockets. Both parts are used as they stand: `RoomSystemProofs` instantiates
`RaceRoomProofs`, so that `Faithful` holds of the relay in the system and every
handler's lemma can be cited, and has for every operator of `RoomClient` a lemma
that says what a link keeps (`IsLink`) and which sockets it may take or give up
(`Goes`).

* `SystemSound` is the invariant behind `AckMeansSeen`: an ack on its way, in a
  channel or handed over, names a message a driver was shown, nothing a client
  keeps for the next session is an ack, and of the relay's handlers only an ack
  frame can mark a message (`QuietStep`, `ReducedSeen`).
* `SystemOrdered` is what the refinement needs besides. On a connection the states
  grow and nothing follows the close (`Tidy`); a connection that has not joined, or
  that nobody reads, carries no state (`Fresh`), so a socket that is used again
  starts with an empty channel; a state on the way to a client's current socket is
  no older than what the client shows (`Watching`). A state is only sent to a
  joined socket, and the same state twice only to a joiner (`SentIsNew`).
* Every step but `ClientSees` is `Proceeds`: the room stays or goes forward, no
  channel gets more than the new state, and no screen changes. Such a step is
  `RoomChanges` or `FramesComeAndGo`; the other is `WatcherSees` (`SeesOrdered`).

Every safety property and every action property of the passing runs is a theorem,
the refinements of `ClientView` and `WatchedRoom` included. Liveness
(`LinkComesBack`, `Converges`) stays with TLC: fairness and `ENABLED` are beyond
TLAPS.

## Not modelled

* The relay's debug endpoint, CORS headers and logging: no state. A room's path is
  `Room` in `AppShell`; what the room object does with it is `RaceRoom`.
* Frame guards (`index.ts` of the protocol): they decide which frames are ignored.
* Drawing (`render/primitives.ts`, `font.ts`, `hud-design.ts`, `draw-hud.ts`), the
  spotter's HTML and QR encoder: pure functions from a state to pixels, text or
  markup, with no state, order or failure of their own; their tests compare whole
  outputs. Build, deployment and simulator scripts: no part of the program.
* Names in `hello` at the relay: a contradiction with the URL is one of the
  reasons of `RefuseHello`.
* The spotter's latency display, notices, vibration and 24 h session stamp.
* In `DriverApp`: lane, cars and `S`; that acks are eventually delivered (with six
  timers the liveness check does not fit in memory); stopping the app.
* In `RoomSystem`: durations and silent peers (the clock stands still), expiry,
  PINs, and hibernation, which `RaceRoom` checks against its own storage.
* The layout and the log panel of the companion page; the SDK adapter, which passes
  calls on. That the host answers writes in the order they were made is assumed.
* A second tab of the spotter: it shares the cache, which is what `AppShell` keeps;
  and the update of a worker, whose two versions run the same code.

## Plan

What would come next, in this order:

1. `RoomSystem` with two spotters and with hibernation; `SpotterApp` with lanes
   and messages by content.

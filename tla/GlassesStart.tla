------------------------------ MODULE GlassesStart ------------------------------
(* The glasses app around its driver screen (apps/glasses/src/main.ts,         *)
(* settings.ts, companion.ts, render/mode.ts): a launch reads the settings,    *)
(* picks the render mode, makes the one page and connects; the phone's         *)
(* companion page saves new settings at any moment, in four separate writes.   *)
(* The host answers when it likes, may refuse a write or fail, and may kill    *)
(* the app between any two steps.                                              *)
EXTENDS Naturals, Sequences

CONSTANTS Null, None,  \* None: the empty text, which the bridge reads back as null
          Typo,        \* a text that is no valid room, PIN or render mode
          Rooms, Pins, Names,
          Forms,       \* what the driver enters into the companion page
          Launches,    \* how the page is opened: [search, origin, fallback, pinned]
          MaxSaves     \* the bound on the saves

ASSUME GlassesAssumption ==
  /\ {Null, None, Typo} \intersect (Rooms \union Pins \union Names) = {}
  /\ MaxSaves \in Nat

VARIABLES
  stored,    \* the host's key-value store
  phase,     \* "off", "paging" (the page call is out), "running", "dead"
  launch,    \* how the page was opened
  settings,  \* `settings`
  mode,      \* the render mode of the page
  helloName, \* the name the room client was made with
  hasRoom,   \* the driver screen's flag
  url,       \* the room client's URL, Null when it has none
  calls,     \* the setLocalStorage calls the host has not taken yet
  saves,     \* applySettings by number: what it still waits for, Null when it is over
  count,     \* the saves so far
  kept       \* history: the last save the host took whole, and the later ones

glassesVars == <<stored, phase, launch, settings, mode, helloName, hasRoom, url,
                 calls, saves, count, kept>>

--------------------------------------------------------------------------------
(* Settings.                                                                   *)

RenderModes == {"image", "text"}
Fields == {"room", "pin", "name", "render"}
Settings == [room : Rooms \union {None}, pin : Pins \union {None},
             name : Names \union {None}, render : RenderModes \union {None}]
EmptySettings == [room |-> None, pin |-> None, name |-> None, render |-> None]

\* The room and the PIN are checked when the form is sent.
ASSUME FormsAssumption ==
  Forms \subseteq [room : Rooms \union {None, Typo}, pin : Pins \union {None, Typo},
                   name : Names \union {None}, render : RenderModes \union {None}]

Saves == [next : Settings, waits : SUBSET Fields, whole : BOOLEAN, failed : BOOLEAN]

ASSUME NullAssumption == Null \notin Launches \union Saves

IsValidRoom(room) == room \in Rooms
IsValidPin(pin)   == pin \in Pins \union {None}

\* Valid fields of the URL replace the stored ones, for this run.
SeedFromSearch(current, search) ==
  [room   |-> IF IsValidRoom(search.room) THEN search.room ELSE current.room,
   pin    |-> IF search.pin # Null /\ IsValidPin(search.pin) THEN search.pin ELSE current.pin,
   name   |-> IF search.name \in Names THEN search.name ELSE current.name,
   render |-> current.render]

ResolveRenderMode(search, kv) ==
  IF search.render \in RenderModes THEN search.render
  ELSE IF kv \in RenderModes THEN kv ELSE "image"

\* Where the relay is: named in the URL, built in, or the page's own host.
ResolveRelayBase(by) ==
  IF by.search.relay # Null THEN by.search.relay
  ELSE IF by.fallback # Null /\ (by.pinned \/ by.origin # "https") THEN by.fallback
  ELSE by.origin

DriverUrl(s) ==
  [base |-> ResolveRelayBase(launch), room |-> s.room, pin |-> s.pin, name |-> s.name]

\* Seeded fault: the room is not looked at.
ConnectsAnywhere(s) == url' = DriverUrl(s)

\* connect()
Connects(s) == url' = IF IsValidRoom(s.room) THEN DriverUrl(s) ELSE url

--------------------------------------------------------------------------------
(* The start.                                                                  *)

\* The settings, the mode, the companion page and the page call.
Launch(by) ==
  /\ phase = "off"
  /\ launch' = by
  /\ settings' = SeedFromSearch(stored, by.search)
  /\ mode' = ResolveRenderMode(by.search, stored.render)
  /\ phase' = "paging"
  /\ UNCHANGED <<stored, helloName, hasRoom, url, calls, saves, count, kept>>

\* Whether the page was made or not, the client and the driver screen start with
\* the settings of this moment and connect.
PageAnswered ==
  /\ phase = "paging"
  /\ phase' = "running"
  /\ helloName' = settings.name
  /\ hasRoom' = IsValidRoom(settings.room)
  /\ Connects(settings)
  /\ UNCHANGED <<stored, launch, settings, mode, calls, saves, count, kept>>

\* Nothing catches it: no client, no driver screen.  The companion page stays.
PageRejected ==
  /\ phase = "paging"
  /\ phase' = "dead"
  /\ UNCHANGED <<stored, launch, settings, mode, helloName, hasRoom, url, calls, saves,
                 count, kept>>

--------------------------------------------------------------------------------
(* The companion page.                                                         *)

\* Seeded fault: a field that is empty is not written.
WritesFilled(next) ==
  SelectSeq(<<[id |-> count + 1, key |-> "room", value |-> next.room],
              [id |-> count + 1, key |-> "pin", value |-> next.pin],
              [id |-> count + 1, key |-> "name", value |-> next.name],
              [id |-> count + 1, key |-> "render", value |-> next.render]>>,
            LAMBDA call : call.value # None)

\* saveSettings
Writes(next) ==
  <<[id |-> count + 1, key |-> "room", value |-> next.room],
    [id |-> count + 1, key |-> "pin", value |-> next.pin],
    [id |-> count + 1, key |-> "name", value |-> next.name],
    [id |-> count + 1, key |-> "render", value |-> next.render]>>

Keys(writes) == {writes[i].key : i \in DOMAIN writes}

\* Save & connect: the form takes a valid room and PIN only; the settings are
\* replaced at once, the rest of applySettings waits for all four writes.
Submit(next) ==
  /\ phase # "off" /\ count < MaxSaves
  /\ IsValidRoom(next.room) /\ IsValidPin(next.pin)
  /\ settings' = next
  /\ calls' = calls \o Writes(next)
  /\ count' = count + 1
  /\ saves' = [saves EXCEPT ![count + 1] =
                 [next |-> next, waits |-> Keys(Writes(next)), whole |-> TRUE, failed |-> FALSE]]
  /\ kept' = kept \union {[id |-> count + 1, next |-> next]}
  /\ UNCHANGED <<stored, phase, launch, mode, helloName, hasRoom, url>>

\* The host takes a write and answers true, or refuses it and answers false,
\* which the app does not look at.
HostAnswers ==
  /\ calls # << >>
  /\ calls' = Tail(calls)
  /\ \E taken \in BOOLEAN :
       LET call == Head(calls)
           save == [saves[call.id] EXCEPT !.waits = @ \ {call.key}, !.whole = @ /\ taken]
       IN /\ stored' = IF taken THEN [stored EXCEPT ![call.key] = call.value] ELSE stored
          /\ saves' = [saves EXCEPT ![call.id] = save]
          /\ kept' = IF save.waits = {} /\ save.whole
                     THEN {known \in kept : known.id >= call.id} ELSE kept
  /\ UNCHANGED <<phase, launch, settings, mode, helloName, hasRoom, url, count>>

\* The call fails: applySettings ends there, the other writes go on.
HostFails ==
  /\ calls # << >>
  /\ calls' = Tail(calls)
  /\ LET call == Head(calls)
         save == [saves[call.id] EXCEPT !.waits = @ \ {call.key}, !.whole = FALSE, !.failed = TRUE]
     IN saves' = [saves EXCEPT ![call.id] = save]
  /\ UNCHANGED <<stored, phase, launch, settings, mode, helloName, hasRoom, url, count,
                 kept>>

\* Seeded fault: the rest connects with the settings it was called with.
AppliedOwn(id) ==
  /\ saves[id] # Null /\ saves[id].waits = {} /\ ~saves[id].failed
  /\ saves' = [saves EXCEPT ![id] = Null]
  /\ IF phase = "running"
     THEN hasRoom' = IsValidRoom(saves[id].next.room) /\ Connects(saves[id].next)
     ELSE UNCHANGED <<hasRoom, url>>
  /\ UNCHANGED <<stored, phase, launch, settings, mode, helloName, calls, count, kept>>

\* The answers of two saves arrive in any order.  Before the driver screen
\* exists the rest of applySettings throws.
Applied(id) ==
  /\ saves[id] # Null /\ saves[id].waits = {} /\ ~saves[id].failed
  /\ saves' = [saves EXCEPT ![id] = Null]
  /\ IF phase = "running"
     THEN hasRoom' = IsValidRoom(saves[id].next.room) /\ Connects(settings)
     ELSE UNCHANGED <<hasRoom, url>>
  /\ UNCHANGED <<stored, phase, launch, settings, mode, helloName, calls, count, kept>>

--------------------------------------------------------------------------------
(* The host.                                                                   *)

\* The foreground event.
Foreground ==
  /\ phase = "running"
  /\ Connects(settings)
  /\ UNCHANGED <<stored, phase, launch, settings, mode, helloName, hasRoom, calls, saves,
                 count, kept>>

\* The exit event: the client disconnects.
Exit ==
  /\ phase = "running"
  /\ url' = Null
  /\ UNCHANGED <<stored, phase, launch, settings, mode, helloName, hasRoom, calls, saves,
                 count, kept>>

\* The app is gone, with the writes the host has not taken.
Kill ==
  /\ phase # "off"
  /\ phase' = "off"
  /\ launch' = Null /\ settings' = EmptySettings /\ mode' = "image" /\ helloName' = None
  /\ hasRoom' = FALSE /\ url' = Null
  /\ calls' = << >> /\ saves' = [id \in 1 .. MaxSaves |-> Null]
  /\ UNCHANGED <<stored, count, kept>>

--------------------------------------------------------------------------------

GlassesInit ==
  /\ stored = EmptySettings
  /\ phase = "off" /\ launch = Null
  /\ settings = EmptySettings /\ mode = "image" /\ helloName = None
  /\ hasRoom = FALSE /\ url = Null
  /\ calls = << >> /\ saves = [id \in 1 .. MaxSaves |-> Null]
  /\ count = 0
  /\ kept = {[id |-> 0, next |-> EmptySettings]}

GlassesNext ==
  \/ \E by \in Launches : Launch(by)
  \/ PageAnswered
  \/ PageRejected
  \/ \E next \in Forms : Submit(next)
  \/ HostAnswers
  \/ HostFails
  \/ \E id \in 1 .. MaxSaves : Applied(id)
  \/ Foreground
  \/ Exit
  \/ Kill

GlassesSpec == GlassesInit /\ [][GlassesNext]_glassesVars

--------------------------------------------------------------------------------
(* Properties.                                                                 *)

\* Every text stays within its kind, whatever was typed, seeded or half written.
GlassesTypeOK ==
  /\ stored \in Settings /\ settings \in Settings
  /\ phase \in {"off", "paging", "running", "dead"}
  /\ launch \in Launches \union {Null} /\ (launch = Null <=> phase = "off")
  /\ mode \in RenderModes /\ helloName \in Names \union {None} /\ hasRoom \in BOOLEAN
  /\ url # Null => url.room \in Rooms /\ url.pin \in Pins \union {None}
  /\ saves \in [1 .. MaxSaves -> Saves \union {Null}]
  /\ count \in 0 .. MaxSaves

\* The save the driver made last is the one in force: with saves that overlap,
\* with a foreground event in between, with a page call that answers in the
\* middle.  Once it is answered the client is in its room with its PIN and name,
\* or has left at an exit event, and the screen does not say that there is none.
LastSaveWins ==
  phase = "running" /\ (count > 0 => saves[count] = Null) =>
    /\ url \in {Null, DriverUrl(settings)}
    /\ hasRoom = IsValidRoom(settings.room)

\* A save the host took whole is not lost: whatever the app is doing, killed,
\* refused or half way through a later save, each field a launch will find is the
\* one of that save or of a later one, and a saved room is not wiped by a typo in
\* the URL.
SavedSettingsSurvive ==
  /\ \A key \in Fields :
       \E save \in kept : stored[key] = save.next[key]
  /\ phase # "off" /\ IsValidRoom(stored.room) => IsValidRoom(settings.room)
================================================================================

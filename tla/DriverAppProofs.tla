---------------------------- MODULE DriverAppProofs ----------------------------
(* For every number of messages and frames and all timings: the driver's HUD  *)
(* shows no stale link, a message leaves the screen in time, and one that left *)
(* by itself is acked until the relay confirms it.                             *)
EXTENDS DriverApp, SequenceTheorems, TLAPS

--------------------------------------------------------------------------------
(* The parts of the invariant.                                                 *)

\* A blink whose timer runs has a phase left.
BlinkRuns(d) == d.blink # Null /\ d.blink.in # Null => d.blink.phase < Phases - 1

Fit(d) == d \in Drivers /\ BlinkRuns(d)

\* The HUD shows the verdict of the watchdog, and a link that is shown as down is
\* not counted as stale.
Linked(d) ==
  /\ d.lastHud # Null /\ d.lastHud.linkOk = d.linkOk
  /\ ~d.linkOk => d.lag = 0

\* A stale link is seen by the check to come, before it is shown for too long.
Watched(d, v) ==
  /\ Linked(d)
  /\ d.lag + d.check <= LINK_CHECK_MS
  /\ d.lag > 0 => ~IsLinkOk(v)

LinkInv(d, v) ==
  /\ Watched(d, v)
  /\ d.linkOk /\ v.status # "closed" => v.heard # Null

ViewSound(v) ==
  /\ v.retry => v.status = "closed"
  /\ v.status = "connecting" => v.heard = Null
  /\ v.replayed => v.status = "open"

Live(msg, i) == msg # Null /\ msg.id = i /\ ~msg.acked
Shows(d, i)  == d.state # Null /\ Live(d.state.msg, i)

Younger(age) == IF age < MSG_AUTO_ACK_MS THEN age ELSE MSG_AUTO_ACK_MS
Clear(id, age) == [id |-> id, in |-> MSG_AUTO_ACK_MS - age]

\* The message on the screen was first drawn when shown and told say, and its
\* timer runs for what is left, unless it is settled.
OnScreen(d) ==
  LET id == UnackedMessageId(d)
  IN  /\ id # Null =>
           /\ d.shown # Null /\ d.shown.id = id
           /\ d.told # Null /\ d.told.id = id
           /\ d.shown.age = Younger(d.told.age)
           /\ d.settled = id \/ d.msgTimer = Clear(id, d.shown.age)
      /\ d.msgTimer # Null => id # Null /\ d.msgTimer = Clear(id, d.shown.age)
      /\ d.shown # Null => Shows(d, d.shown.id)

\* What syncMessageTimer relies on: no timer, and no age, of the message that is
\* on the screen now comes from an earlier showing.
Syncs(d) ==
  LET id == UnackedMessageId(d)
  IN  id # Null =>
        /\ d.shown # Null /\ d.shown.id = id =>
             /\ d.told # Null /\ d.told.id = id
             /\ d.shown.age = Younger(d.told.age)
        /\ d.told # Null /\ d.told.id = id => d.shown # Null /\ d.shown.id = id
        /\ d.msgTimer # Null /\ d.msgTimer.id = id =>
             /\ d.shown # Null /\ d.shown.id = id
             /\ d.msgTimer = Clear(id, d.shown.age)

\* A message that was hidden in this stay is acked again while it is unacked.
HiddenPends(d) ==
  (/\ d.hidden # Null /\ Shows(d, d.hidden)
   /\ d.told # Null /\ d.told.id = d.hidden)
  => d.pendingAck = d.hidden

--------------------------------------------------------------------------------
(* What drawing leaves alone.                                                  *)

SameMessage(d, e) ==
  /\ e.state = d.state /\ e.hidden = d.hidden
  /\ e.shown = d.shown /\ e.told = d.told /\ e.from = d.from
  /\ e.msgTimer = d.msgTimer /\ e.settled = d.settled
  /\ e.pendingAck = d.pendingAck

SameLink(d, e) ==
  /\ e.check = d.check /\ e.linkOk = d.linkOk
  /\ e.lag = d.lag \/ e.lag = 0
  /\ Linked(d) => Linked(e)

Drawn(d, e) == Fit(e) /\ SameMessage(d, e) /\ SameLink(d, e)

LEMMA DrawnSelf ==
  ASSUME NEW d, Fit(d)
  PROVE  Drawn(d, d)
BY DEF Drawn, SameMessage, SameLink

LEMMA DrawnTwice ==
  ASSUME NEW d, NEW e, NEW f, Drawn(d, e), Drawn(e, f)
  PROVE  Drawn(d, f)
BY DEF Drawn, SameMessage, SameLink

LEMMA UnackedType ==
  ASSUME NEW d \in Drivers
  PROVE  /\ UnackedMessageId(d) \in Ids0
         /\ Null \notin Ids
         /\ \A i \in Ids : UnackedMessageId(d) = i <=> Shows(d, i) /\ d.hidden # i
<1>1. Null \notin Ids
  BY NullAssumption
<1>2. d.state # Null => d.state \in States
  BY DEF Drivers
<1>3. d.state # Null /\ d.state.msg # Null => d.state.msg \in Messages
  BY <1>2 DEF States
<1>4. d.state # Null /\ d.state.msg # Null => d.state.msg.id \in Ids
  BY <1>3 DEF Messages
<1> QED
  BY <1>1, <1>4 DEF UnackedMessageId, Ids0, Shows, Live

\* render: the HUD shows the verdict.
LEMMA RenderFacts ==
  ASSUME NEW d, Fit(d)
  PROVE  Drawn(d, Render(d)) /\ Linked(Render(d)) /\ Render(d).blink = d.blink
<1>1. Hud(d) \in Huds /\ Hud(d).linkOk = d.linkOk
  BY UnackedType DEF Hud, Huds, Fit, Drivers
<1>2. Hud(d) # Null
  BY <1>1, NullAssumption
<1>3. StatusLine(d) \in Strips
  BY DEF StatusLine, Strips
<1> DEFINE hud == Hud(d)
           line == StatusLine(d)
           lag == IF d.linkOk THEN d.lag ELSE 0
           one == [d EXCEPT !.lastHud = hud]
           two == [one EXCEPT !.lastStatus = line]
           three == [two EXCEPT !.lag = lag]
<1>4. Render(d) = three
  BY DEF Render, Fit, Drivers
<1>5. lag \in 0 .. LINK_CHECK_MS + 1 /\ (lag = d.lag \/ lag = 0) /\ (~d.linkOk => lag = 0)
  BY DriverAssumption DEF Fit, Drivers
<1> HIDE DEF hud, line, lag
<1>6. /\ one \in Drivers /\ one.lastHud = hud /\ one.blink = d.blink
      /\ SameMessage(d, one) /\ one.check = d.check /\ one.linkOk = d.linkOk
      /\ one.lag = d.lag
  BY <1>1 DEF Fit, Drivers, SameMessage, hud
<1> HIDE DEF one
<1>7. /\ two \in Drivers /\ two.lastHud = hud /\ two.blink = d.blink
      /\ SameMessage(one, two) /\ two.check = d.check /\ two.linkOk = d.linkOk
      /\ two.lag = d.lag
  BY <1>3, <1>6 DEF Drivers, SameMessage, line
<1> HIDE DEF two
<1>8. /\ three \in Drivers /\ three.lastHud = hud /\ three.blink = d.blink
      /\ SameMessage(two, three) /\ three.check = d.check /\ three.linkOk = d.linkOk
      /\ three.lag = lag
  BY <1>5, <1>7 DEF Drivers, SameMessage
<1> HIDE DEF three
<1>9. SameMessage(d, three)
  BY <1>6, <1>7, <1>8 DEF SameMessage
<1>10. Fit(three)
  BY <1>8 DEF Fit, BlinkRuns
<1>11. Linked(three)
  BY <1>1, <1>2, <1>5, <1>8 DEF Linked, hud
<1> QED
  BY <1>4, <1>5, <1>8, <1>9, <1>10, <1>11 DEF Drawn, SameLink

\* What of the app a step sets before it draws: nothing of its message or link.
LEMMA DrawnAfter ==
  ASSUME NEW d, NEW e, Drawn(d, e)
  PROVE  Drawn(d, Render(e)) /\ Linked(Render(e))
BY DrawnTwice, RenderFacts DEF Drawn

LEMMA SetConnectionFacts ==
  ASSUME NEW d, Fit(d), NEW connection \in {"connecting", "open", "closed"},
         NEW terminal \in BOOLEAN
  PROVE  LET e == SetConnection(d, connection, terminal)
         IN  Drawn(d, e) /\ Linked(e)
<1> DEFINE over == connection = "closed" /\ terminal
           one == [d EXCEPT !.connection = connection]
           two == [one EXCEPT !.terminal = over]
<1>1. SetConnection(d, connection, terminal) = Render(two)
  BY DEF SetConnection, Fit, Drivers
<1>2. over \in BOOLEAN
  OBVIOUS
<1> HIDE DEF over
<1>3. Drawn(d, one)
  BY DEF Drawn, Fit, Drivers, BlinkRuns, SameMessage, SameLink, Linked
<1> HIDE DEF one
<1>4. Drawn(one, two)
  BY <1>2, <1>3 DEF Drawn, Fit, Drivers, BlinkRuns, SameMessage, SameLink, Linked
<1> QED
  BY <1>1, <1>3, <1>4, DrawnTwice, DrawnAfter

\* A phase hides or shows a message on the next drawing.
LEMMA SetMessageVisibleFacts ==
  ASSUME NEW d, Fit(d), NEW id \in Ids0, NEW visible \in BOOLEAN, NEW render \in BOOLEAN
  PROVE  LET e == SetMessageVisible(d, id, visible, render)
         IN  Drawn(d, e) /\ e.blink = d.blink
<1> DEFINE gone == IF ~visible THEN id ELSE IF d.blinkHidden = id THEN Null ELSE d.blinkHidden
           one == [d EXCEPT !.blinkHidden = gone]
<1>1. gone \in Ids0
  BY DEF Fit, Drivers, Ids0
<1>2. SetMessageVisible(d, id, visible, render) = IF render THEN Render(one) ELSE one
  BY DEF SetMessageVisible, Fit, Drivers
<1> HIDE DEF gone
<1>3. Drawn(d, one) /\ one.blink = d.blink
  BY <1>1 DEF Drawn, Fit, Drivers, BlinkRuns, SameMessage, SameLink, Linked
<1> HIDE DEF one
<1> QED
  BY <1>2, <1>3, DrawnAfter, RenderFacts DEF Drawn

LEMMA ResetBlinkFacts ==
  ASSUME NEW d, Fit(d)
  PROVE  Drawn(d, ResetBlink(d))
<1> DEFINE on == TRUE
           one == [d EXCEPT !.blinkOn = on]
<1>1. on \in BOOLEAN /\ ResetBlink(d) = IF d.blinkOn THEN d ELSE Render(one)
  BY DEF ResetBlink
<1> HIDE DEF on
<1>2. Drawn(d, one)
  BY <1>1 DEF Drawn, Fit, Drivers, BlinkRuns, SameMessage, SameLink, Linked
<1> HIDE DEF one
<1> QED
  BY <1>1, <1>2, DrawnSelf, DrawnAfter

LEMMA SyncBlinkFacts ==
  ASSUME NEW d, Fit(d)
  PROVE  Drawn(d, SyncBlink(d))
<1>1. ASSUME NEW timer \in 0 .. STATUS_BLINK_MS \union {Null}
      PROVE  Drawn(d, [d EXCEPT !.blinkTimer = timer])
  BY DEF Drawn, Fit, Drivers, BlinkRuns, SameMessage, SameLink, Linked
<1> DEFINE kept == IF d.blinkTimer = Null THEN STATUS_BLINK_MS ELSE d.blinkTimer
           one == [d EXCEPT !.blinkTimer = kept]
           two == [d EXCEPT !.blinkTimer = Null]
<1>2. kept \in 0 .. STATUS_BLINK_MS \union {Null}
  BY DriverAssumption DEF Fit, Drivers
<1>3. SyncBlink(d) = IF StatusBlinks(d) THEN one ELSE ResetBlink(two)
  BY DEF SyncBlink, Fit, Drivers
<1> HIDE DEF kept
<1>4. Drawn(d, one) /\ Drawn(d, two)
  BY <1>1, <1>2
<1> HIDE DEF one, two
<1>5. Drawn(two, ResetBlink(two))
  BY <1>4, ResetBlinkFacts DEF Drawn
<1> QED
  BY <1>3, <1>4, <1>5, DrawnTwice

\* start and cancel of the message blink draw nothing.
LEMMA StartBlinkFacts ==
  ASSUME NEW d, Fit(d), NEW id \in Ids
  PROVE  Drawn(d, StartBlink(d, id))
<1> DEFINE one == SetMessageVisible(d, id, TRUE, FALSE)
           blink == [id |-> id, phase |-> 0, in |-> MSG_BLINK_MS]
           two == [one EXCEPT !.blink = blink]
<1>1. id \in Ids0
  BY DEF Ids0
<1>2. Drawn(d, one)
  BY <1>1, SetMessageVisibleFacts
<1>3. blink \in Blinks /\ blink.phase < Phases - 1
  BY DriverAssumption DEF Blinks
<1>4. StartBlink(d, id) = two
  BY DEF StartBlink
<1> HIDE DEF one, blink
<1>5. Drawn(one, two)
  BY <1>2, <1>3 DEF Drawn, Fit, Drivers, BlinkRuns, SameMessage, SameLink, Linked
<1> QED
  BY <1>2, <1>4, <1>5, DrawnTwice

LEMMA CancelBlinkFacts ==
  ASSUME NEW d, Fit(d)
  PROVE  Drawn(d, CancelBlink(d))
<1>1. CASE d.blink = Null
  BY <1>1, DrawnSelf DEF CancelBlink
<1>2. CASE d.blink # Null
  <2> DEFINE one == SetMessageVisible(d, d.blink.id, TRUE, FALSE)
             two == [one EXCEPT !.blink = Null]
  <2>1. d.blink \in Blinks
    BY <1>2 DEF Fit, Drivers
  <2>2. d.blink.id \in Ids0
    BY <2>1 DEF Blinks, Ids0
  <2>3. Drawn(d, one)
    BY <2>2, SetMessageVisibleFacts
  <2>4. CancelBlink(d) = two
    BY <1>2 DEF CancelBlink
  <2> HIDE DEF one
  <2>5. Drawn(one, two)
    BY <2>3 DEF Drawn, Fit, Drivers, BlinkRuns, SameMessage, SameLink, Linked
  <2> QED
    BY <2>3, <2>4, <2>5, DrawnTwice
<1> QED
  BY <1>1, <1>2

LEMMA HideFacts ==
  ASSUME NEW d, Fit(d), NEW id \in Ids
  PROVE  LET off == [d EXCEPT !.hidden = id]
         IN  Fit(off) /\ Drawn(off, HideMessage(d, id))
<1> DEFINE off == [d EXCEPT !.hidden = id]
<1>1. Fit(off)
  BY DEF Fit, Drivers, BlinkRuns, Ids0
<1>2. d.hidden = id => off = d
  BY DEF Fit, Drivers
<1>3. HideMessage(d, id) = IF d.hidden = id THEN d ELSE Render(off)
  BY DEF HideMessage
<1> HIDE DEF off
<1>4. Drawn(off, off) /\ Drawn(off, Render(off))
  BY <1>1, DrawnSelf, RenderFacts
<1> QED
  BY <1>1, <1>2, <1>3, <1>4 DEF off

\* The client takes an ack or drops it; the app does not know.
LEMMA AckFacts ==
  ASSUME NEW d, Fit(d), NEW v, NEW id \in Ids
  PROVE  Drawn(d, Ack(d, v, id))
<1> DEFINE acks == d.handed \union {id}
           one == [d EXCEPT !.handed = acks]
<1>1. acks \in SUBSET Ids
  BY DEF Fit, Drivers
<1>2. Ack(d, v, id) = IF v.replayed THEN one ELSE d
  BY DEF Ack, Fit, Drivers
<1> HIDE DEF acks
<1>3. Drawn(d, one)
  BY <1>1 DEF Drawn, Fit, Drivers, BlinkRuns, SameMessage, SameLink, Linked
<1> QED
  BY <1>2, <1>3, DrawnSelf

--------------------------------------------------------------------------------
(* The watchdog.                                                               *)

LEMMA CheckFacts ==
  ASSUME NEW d, Fit(d), NEW v, NEW render \in BOOLEAN
  PROVE  LET e == Check(d, v, render)
         IN  /\ Fit(e) /\ SameMessage(d, e)
             /\ e.linkOk = IsLinkOk(v) /\ e.check = d.check
             /\ e.lag = d.lag \/ e.lag = 0
             /\ render /\ Linked(d) => Linked(e)
<1>1. IsLinkOk(v) \in BOOLEAN
  BY DEF IsLinkOk
<1> DEFINE ok == IsLinkOk(v)
           ever == d.everLinked \/ ok
           one == [d EXCEPT !.linkOk = ok]
           two == [one EXCEPT !.everLinked = ever]
<1>2. Check(d, v, render) = IF ok = d.linkOk THEN d ELSE IF render THEN Render(two) ELSE two
  BY DEF Check, SetLinkOk, Fit, Drivers
<1>3. ever \in BOOLEAN
  OBVIOUS
<1> HIDE DEF ok, ever
<1>4. ok \in BOOLEAN
  BY <1>1 DEF ok
<1>5. /\ Fit(one) /\ SameMessage(d, one) /\ one.linkOk = ok
      /\ one.check = d.check /\ one.lag = d.lag
  BY <1>4 DEF Fit, Drivers, BlinkRuns, SameMessage
<1> HIDE DEF one
<1>6. /\ Fit(two) /\ SameMessage(one, two) /\ two.linkOk = ok
      /\ two.check = d.check /\ two.lag = d.lag
  BY <1>3, <1>5 DEF Fit, Drivers, BlinkRuns, SameMessage
<1> HIDE DEF two
<1>7. Drawn(two, Render(two)) /\ Linked(Render(two))
  BY <1>6, RenderFacts
<1>8. SameMessage(d, d) /\ SameMessage(d, two) /\ SameMessage(d, Render(two))
  BY <1>5, <1>6, <1>7 DEF SameMessage, Drawn
<1> QED
  BY <1>2, <1>6, <1>7, <1>8 DEF Drawn, SameLink, ok

\* Where the watchdog has looked, the HUD shows no stale link.
LEMMA CheckedLink ==
  ASSUME NEW d, NEW v, Watched(d, v), NEW e, Fit(d), Fit(e), Linked(e),
         e.linkOk = IsLinkOk(v), e.check = d.check,
         e.lag = d.lag \/ e.lag = 0
  PROVE  LinkInv(e, v)
<1>1. d.lag \in Nat /\ d.check \in Nat /\ e.lag \in Nat /\ LINK_CHECK_MS \in Nat
  BY DriverAssumption DEF Fit, Drivers
<1>2. e.lag = 0
  <2>1. d.lag > 0 => ~e.linkOk
    BY DEF Watched
  <2> QED
    BY <1>1, <2>1 DEF Linked
<1>3. Watched(e, v)
  BY <1>1, <1>2 DEF Watched
<1>4. e.linkOk => v.heard # Null
  BY DEF IsLinkOk
<1> QED
  BY <1>3, <1>4 DEF LinkInv

LEMMA CheckInv ==
  ASSUME NEW d, Fit(d), NEW v, Watched(d, v)
  PROVE  LinkInv(Check(d, v, TRUE), v)
BY ZenonT(60), CheckFacts, CheckedLink DEF Watched

\* Drawing again keeps the verdict.
LEMMA DrawnLink ==
  ASSUME NEW d, NEW e, NEW v, Fit(d), Drawn(d, e), LinkInv(d, v)
  PROVE  LinkInv(e, v)
<1>1. d.lag \in Nat /\ d.check \in Nat /\ e.lag \in Nat /\ LINK_CHECK_MS \in Nat
  BY DriverAssumption DEF Drawn, Fit, Drivers
<1> QED
  BY <1>1 DEF Drawn, SameLink, LinkInv, Watched

LEMMA DrawnWatched ==
  ASSUME NEW d, NEW e, NEW v, Fit(d), Drawn(d, e), Watched(d, v)
  PROVE  Watched(e, v)
<1>1. d.lag \in Nat /\ d.check \in Nat /\ e.lag \in Nat /\ LINK_CHECK_MS \in Nat
  BY DriverAssumption DEF Drawn, Fit, Drivers
<1> QED
  BY <1>1 DEF Drawn, SameLink, Watched

LEMMA DrawnMessage ==
  ASSUME NEW d, NEW e, SameMessage(d, e)
  PROVE  /\ UnackedMessageId(e) = UnackedMessageId(d)
         /\ \A i : Shows(e, i) <=> Shows(d, i)
         /\ OnScreen(d) => OnScreen(e)
         /\ Syncs(d) => Syncs(e)
         /\ HiddenPends(d) => HiddenPends(e)
<1>1. /\ UnackedMessageId(e) = UnackedMessageId(d)
      /\ \A i : Shows(e, i) <=> Shows(d, i)
  BY DEF SameMessage, UnackedMessageId, Shows
<1> QED
  BY <1>1 DEF SameMessage, OnScreen, Syncs, HiddenPends

--------------------------------------------------------------------------------
(* The message and its timer.                                                  *)

\* The app but for its message: what syncMessageTimer leaves alone.
SyncsOnly(d, e) ==
  /\ Fit(e) /\ SameLink(d, e)
  /\ e.state = d.state /\ e.hidden = d.hidden /\ e.from = d.from
  /\ e.settled = d.settled /\ e.pendingAck = d.pendingAck

LEMMA ArmedFacts ==
  ASSUME NEW d, Fit(d), NEW id \in Ids,
         d.shown # Null, d.shown.id = id,
         d.msgTimer # Null /\ d.msgTimer.id = id => d.msgTimer = Clear(id, d.shown.age)
  PROVE  LET e == Armed(d, id)
         IN  /\ SyncsOnly(d, e)
             /\ e.shown = d.shown /\ e.told = d.told
             /\ e.settled = id \/ e.msgTimer = Clear(id, e.shown.age)
             /\ e.msgTimer # Null => e.msgTimer = Clear(id, e.shown.age)
<1>1. d.shown \in Showns
  BY DEF Fit, Drivers
<1>2. Clear(id, d.shown.age) \in Clears
  BY <1>1, DriverAssumption DEF Showns, Clears, Clear
<1>3. ASSUME NEW timer \in Clears \union {Null}
      PROVE  LET e == [d EXCEPT !.msgTimer = timer]
             IN  /\ SyncsOnly(d, e) /\ e.msgTimer = timer
                 /\ e.shown = d.shown /\ e.told = d.told
  BY DEF SyncsOnly, SameLink, Linked, Fit, Drivers, BlinkRuns
<1> DEFINE clear == Clear(id, d.shown.age)
           off == [d EXCEPT !.msgTimer = Null]
           on == [d EXCEPT !.msgTimer = clear]
<1>4. Armed(d, id) = IF id = d.settled THEN off
                     ELSE IF d.msgTimer # Null /\ d.msgTimer.id = id THEN d ELSE on
  BY DEF Armed, Clear
<1>5. clear # Null /\ clear.id = id
  BY <1>2, NullAssumption DEF Clear
<1>6. SyncsOnly(d, d)
  BY DEF SyncsOnly, SameLink
<1> HIDE DEF clear
<1>7. /\ SyncsOnly(d, off) /\ off.msgTimer = Null
      /\ off.shown = d.shown /\ off.told = d.told
  BY <1>3
<1>8. /\ SyncsOnly(d, on) /\ on.msgTimer = clear
      /\ on.shown = d.shown /\ on.told = d.told
  BY <1>2, <1>3 DEF clear
<1> HIDE DEF off, on
<1>9. off.settled = d.settled /\ on.settled = d.settled
  BY <1>7, <1>8 DEF SyncsOnly
<1> QED
  BY <1>4, <1>5, <1>6, <1>7, <1>8, <1>9 DEF clear

LEMMA SyncsOnlyTwice ==
  ASSUME NEW d, NEW e, NEW f, SyncsOnly(d, e), SyncsOnly(e, f)
  PROVE  SyncsOnly(d, f)
BY DEF SyncsOnly, SameLink

LEMMA DrawnSyncs ==
  ASSUME NEW d, NEW e, Drawn(d, e)
  PROVE  SyncsOnly(d, e)
BY DEF Drawn, SameMessage, SyncsOnly

LEMMA SyncsOnlyMessage ==
  ASSUME NEW d, NEW e, SyncsOnly(d, e)
  PROVE  /\ UnackedMessageId(e) = UnackedMessageId(d)
         /\ \A i : Shows(e, i) <=> Shows(d, i)
BY DEF SyncsOnly, UnackedMessageId, Shows

\* syncMessageTimer leaves the message on the screen with a timer, or settled.
LEMMA SyncFacts ==
  ASSUME NEW d, Fit(d), Syncs(d)
  PROVE  LET e == SyncMessageTimer(d)
         IN  /\ SyncsOnly(d, e) /\ OnScreen(e)
             /\ e.told = d.told \/ (e.told # Null /\ e.told.id = UnackedMessageId(d))
<1> DEFINE id == UnackedMessageId(d)
           e == SyncMessageTimer(d)
<1>1. id \in Ids0 /\ Null \notin Ids /\ \A i \in Ids : id = i <=> Shows(d, i) /\ d.hidden # i
  BY UnackedType DEF Fit
<1>2. CASE id = Null
  <2> DEFINE one == [d EXCEPT !.msgTimer = Null]
             two == CancelBlink(one)
             three == [two EXCEPT !.shown = Null]
  <2>1. /\ SyncsOnly(d, one) /\ one.msgTimer = Null /\ one.told = d.told
    BY DEF SyncsOnly, SameLink, Linked, Fit, Drivers, BlinkRuns
  <2>2. e = three
    BY <1>2 DEF SyncMessageTimer
  <2> HIDE DEF one
  <2>3. Drawn(one, two)
    BY <2>1, CancelBlinkFacts DEF SyncsOnly
  <2>4. two.msgTimer = Null /\ two.told = d.told
    BY <2>1, <2>3 DEF Drawn, SameMessage
  <2>5. SyncsOnly(d, two)
    BY <2>1, <2>3, DrawnSyncs, SyncsOnlyTwice
  <2> HIDE DEF two
  <2>6. /\ SyncsOnly(two, three) /\ three.shown = Null
        /\ three.msgTimer = Null /\ three.told = d.told
    BY <2>4, <2>5 DEF SyncsOnly, SameLink, Linked, Fit, Drivers, BlinkRuns
  <2> HIDE DEF three
  <2>7. SyncsOnly(d, three)
    BY <2>5, <2>6, SyncsOnlyTwice
  <2>8. UnackedMessageId(three) = Null
    BY <1>2, <2>7, SyncsOnlyMessage
  <2>9. OnScreen(three)
    BY <2>6, <2>8 DEF OnScreen
  <2> QED
    BY <2>2, <2>6, <2>7, <2>9
<1>3. CASE id # Null /\ d.shown # Null /\ d.shown.id = id
  <2>1. id \in Ids
    BY <1>1, <1>3 DEF Ids0
  <2>2. e = Armed(d, id)
    BY <1>3 DEF SyncMessageTimer
  <2>3. /\ d.told # Null /\ d.told.id = id /\ d.shown.age = Younger(d.told.age)
        /\ d.msgTimer # Null /\ d.msgTimer.id = id => d.msgTimer = Clear(id, d.shown.age)
    BY <1>3 DEF Syncs
  <2>4. /\ SyncsOnly(d, e)
        /\ e.shown = d.shown /\ e.told = d.told
        /\ e.settled = id \/ e.msgTimer = Clear(id, e.shown.age)
        /\ e.msgTimer # Null => e.msgTimer = Clear(id, e.shown.age)
    BY <1>3, <2>1, <2>2, <2>3, ArmedFacts
  <2> HIDE DEF e
  <2>5. UnackedMessageId(e) = id /\ Shows(e, id)
    BY <1>1, <2>1, <2>4, SyncsOnlyMessage
  <2> HIDE DEF id
  <2>6. OnScreen(e)
    BY <1>3, <2>3, <2>4, <2>5 DEF OnScreen
  <2> QED
    BY <2>4, <2>6 DEF e
<1>4. CASE id # Null /\ ~(d.shown # Null /\ d.shown.id = id)
  <2> DEFINE shown == [id |-> id, age |-> 0]
             told == IF d.told # Null /\ d.told.id = id THEN d.told ELSE shown
             one == [d EXCEPT !.shown = shown]
             two == [one EXCEPT !.told = told]
             three == StartBlink(two, id)
  <2>1. id \in Ids
    BY <1>1, <1>4 DEF Ids0
  <2>2. e = Armed(three, id)
    BY <1>4 DEF SyncMessageTimer, Fit, Drivers
  <2>3. told = shown
    BY <1>4 DEF Syncs
  <2>4. shown \in Showns /\ shown \in Tolds /\ shown # Null
    BY <2>1, DriverAssumption, NullAssumption DEF Showns, Tolds
  <2>5. shown.id = id /\ shown.age = 0 /\ shown.age = Younger(shown.age)
    BY DriverAssumption DEF Younger
  <2>6. d.msgTimer = Null \/ d.msgTimer.id # id
    BY <1>4 DEF Syncs
  <2> HIDE DEF shown
  <2>7. SyncsOnly(d, one) /\ one.shown = shown /\ one.msgTimer = d.msgTimer
    BY <2>4 DEF SyncsOnly, SameLink, Linked, Fit, Drivers, BlinkRuns
  <2> HIDE DEF one
  <2>8. SyncsOnly(one, two) /\ two.shown = shown /\ two.told = shown /\ two.msgTimer = d.msgTimer
    BY <2>3, <2>4, <2>7 DEF SyncsOnly, SameLink, Linked, Fit, Drivers, BlinkRuns
  <2> HIDE DEF two
  <2>9. Drawn(two, three)
    BY <2>1, <2>8, StartBlinkFacts DEF SyncsOnly
  <2>10. three.shown = shown /\ three.told = shown /\ three.msgTimer = d.msgTimer /\ Fit(three)
    BY <2>8, <2>9 DEF Drawn, SameMessage
  <2>11. SyncsOnly(d, three)
    BY <2>7, <2>8, <2>9, DrawnSyncs, SyncsOnlyTwice
  <2> HIDE DEF three
  <2>12. /\ SyncsOnly(three, e)
         /\ e.shown = shown /\ e.told = shown
         /\ e.settled = id \/ e.msgTimer = Clear(id, e.shown.age)
         /\ e.msgTimer # Null => e.msgTimer = Clear(id, e.shown.age)
    BY <2>1, <2>2, <2>4, <2>5, <2>6, <2>10, ArmedFacts
  <2>13. SyncsOnly(d, e)
    BY <2>11, <2>12, SyncsOnlyTwice
  <2> HIDE DEF e
  <2>14. UnackedMessageId(e) = id /\ Shows(e, id)
    BY <1>1, <2>1, <2>13, SyncsOnlyMessage
  <2> HIDE DEF id
  <2>15. OnScreen(e)
    BY <1>4, <2>4, <2>5, <2>12, <2>14 DEF OnScreen
  <2> QED
    BY <2>4, <2>5, <2>12, <2>13, <2>15 DEF e, id
<1> QED
  BY <1>2, <1>3, <1>4

\* What is told anew is not what is hidden.
LEMMA SyncedPends ==
  ASSUME NEW d, Fit(d), HiddenPends(d), NEW e, SyncsOnly(d, e),
         e.told = d.told \/ (e.told # Null /\ e.told.id = UnackedMessageId(d))
  PROVE  HiddenPends(e)
<1> SUFFICES ASSUME e.hidden # Null, Shows(e, e.hidden), e.told # Null, e.told.id = e.hidden
             PROVE  e.pendingAck = e.hidden
  BY DEF HiddenPends
<1>1. d.hidden = e.hidden /\ d.pendingAck = e.pendingAck /\ Shows(d, d.hidden)
  BY SyncsOnlyMessage DEF SyncsOnly
<1>2. d.hidden \in Ids
  BY <1>1 DEF Fit, Drivers, Ids0
<1>3. UnackedMessageId(d) # d.hidden
  BY <1>2, UnackedType DEF Fit
<1> QED
  BY <1>1, <1>3 DEF HiddenPends

\* A state that does not show the pending message unacked ends the retries.
LEMMA RetryFacts ==
  ASSUME NEW d, Fit(d), d.state # Null
  PROVE  LET e == RetryPendingAck(d)
         IN  /\ Fit(e) /\ SameLink(d, e)
             /\ e.state = d.state /\ e.hidden = d.hidden /\ e.from = d.from
             /\ e.shown = d.shown /\ e.told = d.told
             /\ e.msgTimer = d.msgTimer /\ e.settled = d.settled
             /\ Shows(d, d.pendingAck) => e.pendingAck = d.pendingAck
<1> DEFINE over == FALSE
           again == TRUE
           one == [d EXCEPT !.pendingAck = Null]
           two == [one EXCEPT !.retryTimer = over]
           three == [d EXCEPT !.retryTimer = again]
<1>1. RetryPendingAck(d) =
        IF d.pendingAck = Null THEN d
        ELSE IF d.state.msg = Null \/ d.state.msg # [id |-> d.pendingAck, acked |-> FALSE]
        THEN two ELSE three
  BY DEF RetryPendingAck, Fit, Drivers
<1>2. d.state \in States
  BY DEF Fit, Drivers
<1>3. d.state.msg # Null => d.state.msg \in Messages
  BY <1>2 DEF States
<1>4. Shows(d, d.pendingAck) => d.state.msg = [id |-> d.pendingAck, acked |-> FALSE]
  <2> SUFFICES ASSUME Shows(d, d.pendingAck)
               PROVE  d.state.msg = [id |-> d.pendingAck, acked |-> FALSE]
    OBVIOUS
  <2>1. d.state.msg \in Messages /\ d.state.msg.id = d.pendingAck /\ ~d.state.msg.acked
    BY <1>3 DEF Shows, Live
  <2> QED
    BY <2>1 DEF Messages
<1>5. Shows(d, d.pendingAck) => d.state.msg # Null
  BY DEF Shows, Live
<1>6. over \in BOOLEAN /\ again \in BOOLEAN
  OBVIOUS
<1> HIDE DEF over, again
<1>7. /\ Fit(one) /\ SameLink(d, one)
      /\ one.state = d.state /\ one.hidden = d.hidden /\ one.from = d.from
      /\ one.shown = d.shown /\ one.told = d.told
      /\ one.msgTimer = d.msgTimer /\ one.settled = d.settled
  BY DEF SameLink, Linked, Fit, Drivers, BlinkRuns, Ids0
<1> HIDE DEF one
<1>8. Drawn(one, two) /\ Drawn(d, three)
  BY <1>6, <1>7 DEF Drawn, Fit, Drivers, BlinkRuns, SameMessage, SameLink, Linked
<1> HIDE DEF two, three
<1>9. SameLink(d, two) /\ SameLink(d, three) /\ SameLink(d, d)
  BY <1>7, <1>8 DEF Drawn, SameLink
<1> QED
  BY <1>1, <1>4, <1>5, <1>7, <1>8, <1>9 DEF Drawn, SameMessage

--------------------------------------------------------------------------------
(* The listeners.                                                              *)

\* The message parts of the invariant.
MessageInv(d) == OnScreen(d) /\ HiddenPends(d)

\* The last state is the same, and what is newly told is on it.
Continues(d, e) ==
  /\ e.state = d.state /\ e.from = d.from
  /\ e.told = d.told \/ (e.told # Null /\ Shows(e, e.told.id))

LEMMA DrawnContinues ==
  ASSUME NEW d, NEW e, Drawn(d, e), MessageInv(d)
  PROVE  Continues(d, e) /\ MessageInv(e)
BY DrawnMessage DEF Drawn, SameMessage, Continues, MessageInv

\* An app that is told that the client is not connected forgets what it settled.
LEMMA ForgetFacts ==
  ASSUME NEW d, Fit(d), MessageInv(d)
  PROVE  LET e == [d EXCEPT !.ackGuard = Null, !.settled = Null, !.handed = {}]
         IN  /\ Fit(e) /\ Syncs(e) /\ HiddenPends(e) /\ SameLink(d, e)
             /\ e.state = d.state /\ e.hidden = d.hidden /\ e.told = d.told
             /\ e.from = d.from
<1> DEFINE none == {}
           one == [d EXCEPT !.ackGuard = Null]
           two == [one EXCEPT !.settled = Null]
           e == [two EXCEPT !.handed = none]
<1>1. e = [d EXCEPT !.ackGuard = Null, !.settled = Null, !.handed = {}]
  BY DEF Fit, Drivers
<1>2. none \in SUBSET Ids
  OBVIOUS
<1> HIDE DEF none
<1>3. Drawn(d, one)
  BY DEF Drawn, Fit, Drivers, BlinkRuns, SameMessage, SameLink, Linked, Ids0
<1> HIDE DEF one
<1>4. /\ Fit(two) /\ SameLink(one, two)
      /\ two.state = one.state /\ two.hidden = one.hidden /\ two.told = one.told
      /\ two.shown = one.shown /\ two.msgTimer = one.msgTimer
      /\ two.pendingAck = one.pendingAck /\ two.from = one.from
  BY <1>3 DEF Drawn, Fit, Drivers, BlinkRuns, SameLink, Linked, Ids0
<1> HIDE DEF two
<1>5. Drawn(two, e)
  BY <1>2, <1>4 DEF Drawn, Fit, Drivers, BlinkRuns, SameMessage, SameLink, Linked
<1> HIDE DEF e
<1>6. /\ e.state = d.state /\ e.hidden = d.hidden /\ e.told = d.told
      /\ e.shown = d.shown /\ e.msgTimer = d.msgTimer
      /\ e.pendingAck = d.pendingAck /\ e.from = d.from
  BY <1>3, <1>4, <1>5 DEF Drawn, SameMessage
<1>7. /\ UnackedMessageId(e) = UnackedMessageId(d)
      /\ \A i : Shows(e, i) <=> Shows(d, i)
  BY <1>6 DEF UnackedMessageId, Shows
<1>8. Syncs(e) /\ HiddenPends(e)
  BY <1>6, <1>7 DEF Syncs, HiddenPends, OnScreen, MessageInv
<1>9. SameLink(d, e)
  BY <1>3, <1>4, <1>5 DEF Drawn, SameLink
<1> QED
  BY <1>1, <1>5, <1>6, <1>8, <1>9 DEF Drawn

LEMMA SameLinkInv ==
  ASSUME NEW d, NEW e, NEW v, Fit(d), Fit(e), SameLink(d, e), LinkInv(d, v)
  PROVE  LinkInv(e, v)
<1>1. d.lag \in Nat /\ d.check \in Nat /\ e.lag \in Nat /\ LINK_CHECK_MS \in Nat
  BY DriverAssumption DEF Fit, Drivers
<1> QED
  BY <1>1 DEF SameLink, LinkInv, Watched

\* client.onConnection.
LEMMA OnConnectionFacts ==
  ASSUME NEW d, Fit(d), NEW v \in Views, NEW terminal \in BOOLEAN,
         MessageInv(d), Watched(d, v)
  PROVE  LET e == OnConnection(d, v, terminal)
         IN  Fit(e) /\ LinkInv(e, v) /\ MessageInv(e) /\ Continues(d, e)
<1> DEFINE set == SetConnection(d, v.status, terminal)
           checked == Check(set, v, TRUE)
           told == SyncBlink(checked)
           gone == [told EXCEPT !.ackGuard = Null, !.settled = Null, !.handed = {}]
           e == OnConnection(d, v, terminal)
<1>1. v.status \in {"connecting", "open", "closed"}
  BY DEF Views
<1>2. Drawn(d, set) /\ Linked(set)
  BY <1>1, SetConnectionFacts
<1>3. Fit(set) /\ Watched(set, v)
  BY <1>2, DrawnWatched DEF Drawn
<1>4. e = IF v.status = "open" THEN told ELSE SyncMessageTimer(gone)
  BY DEF OnConnection
<1> HIDE DEF set
<1>5. Fit(checked) /\ SameMessage(set, checked)
  BY <1>3, CheckFacts
<1>6. LinkInv(checked, v)
  BY <1>3, CheckInv
<1> HIDE DEF checked
<1>7. Drawn(checked, told)
  BY <1>5, SyncBlinkFacts
<1> HIDE DEF told
<1>8. Fit(told) /\ LinkInv(told, v)
  BY <1>5, <1>6, <1>7, DrawnLink DEF Drawn
<1>9. SameMessage(d, told)
  BY <1>2, <1>5, <1>7 DEF Drawn, SameMessage
<1>10. MessageInv(told) /\ Continues(d, told)
  BY <1>9, DrawnMessage DEF MessageInv, Continues, SameMessage
<1>11. /\ Fit(gone) /\ Syncs(gone) /\ HiddenPends(gone) /\ SameLink(told, gone)
       /\ gone.state = told.state /\ gone.hidden = told.hidden /\ gone.told = told.told
       /\ gone.from = told.from
  BY <1>8, <1>10, ForgetFacts
<1> HIDE DEF gone
<1> DEFINE synced == SyncMessageTimer(gone)
<1>12. /\ SyncsOnly(gone, synced) /\ OnScreen(synced)
       /\ synced.told = gone.told \/ (synced.told # Null /\ synced.told.id = UnackedMessageId(gone))
  BY <1>11, SyncFacts
<1> HIDE DEF synced
<1>13. UnackedMessageId(synced) = UnackedMessageId(gone) /\ \A i : Shows(synced, i) <=> Shows(gone, i)
  BY <1>12, SyncsOnlyMessage
<1>14. Fit(synced) /\ LinkInv(synced, v)
  BY <1>8, <1>11, <1>12, SameLinkInv DEF SyncsOnly
<1>15. HiddenPends(synced)
  BY <1>11, <1>12, <1>13, SyncedPends DEF SyncsOnly
<1>16. synced.told = gone.told \/ (synced.told # Null /\ Shows(synced, synced.told.id))
  <2>1. ASSUME synced.told # Null, synced.told.id = UnackedMessageId(gone)
        PROVE  Shows(synced, synced.told.id)
    <3>1. synced.told \in Tolds
      BY <1>14, <2>1 DEF Fit, Drivers
    <3>2. synced.told.id \in Ids
      BY <3>1 DEF Tolds
    <3>3. synced \in Drivers
      BY <1>14 DEF Fit
    <3> QED
      BY <1>13, <2>1, <3>2, <3>3, UnackedType
  <2> QED
    BY <1>12, <2>1
<1>17. Continues(d, synced)
  BY <1>9, <1>11, <1>12, <1>16 DEF Continues, SyncsOnly, SameMessage
<1> QED
  BY <1>4, <1>8, <1>10, <1>12, <1>14, <1>15, <1>17 DEF MessageInv, synced

\* What the app carries into a state with the message msg: no age, no timer and no
\* pending ack of it from an earlier showing.
Carries(d, msg) ==
  /\ \A id \in Ids : Live(msg, id) /\ d.hidden # id =>
       /\ d.shown # Null /\ d.shown.id = id =>
            /\ d.told # Null /\ d.told.id = id
            /\ d.shown.age = Younger(d.told.age)
       /\ d.told # Null /\ d.told.id = id => d.shown # Null /\ d.shown.id = id
       /\ d.msgTimer # Null /\ d.msgTimer.id = id =>
            /\ d.shown # Null /\ d.shown.id = id
            /\ d.msgTimer = Clear(id, d.shown.age)
  /\ (/\ d.hidden # Null /\ Live(msg, d.hidden)
      /\ d.told # Null /\ d.told.id = d.hidden)
     => d.pendingAck = d.hidden

\* client.onState.
LEMMA OnStateFacts ==
  ASSUME NEW d, Fit(d), NEW v \in Views, NEW msg \in Messages \union {Null},
         Watched(d, v), Carries(d, msg)
  PROVE  LET e == OnState(d, v, msg)
         IN  /\ Fit(e) /\ LinkInv(e, v) /\ MessageInv(e)
             /\ e.state = [msg |-> msg] /\ e.state # Null /\ e.from = d.from
             /\ e.told = d.told \/ (e.told # Null /\ Shows(e, e.told.id))
<1> DEFINE state == [msg |-> msg]
           ever == TRUE
           checked == Check(d, v, FALSE)
           one == [checked EXCEPT !.state = state]
           two == [one EXCEPT !.everLinked = ever]
           applied == Render(two)
           blinked == SyncBlink(applied)
           synced == SyncMessageTimer(blinked)
           retried == RetryPendingAck(synced)
           e == [retried EXCEPT !.ackGuard = Null]
<1>1. /\ Fit(checked) /\ SameMessage(d, checked)
      /\ checked.linkOk = IsLinkOk(v) /\ checked.check = d.check
      /\ checked.lag = d.lag \/ checked.lag = 0
  BY CheckFacts
<1>2. OnState(d, v, msg) = e
  BY <1>1 DEF OnState, Fit, Drivers
<1>3. state \in States /\ state # Null /\ state.msg = msg /\ ever \in BOOLEAN
  BY NullAssumption DEF States
<1> HIDE DEF ever, state, checked
<1>4. /\ Fit(one) /\ one.state = state /\ one.hidden = d.hidden
      /\ one.shown = d.shown /\ one.told = d.told /\ one.from = d.from
      /\ one.msgTimer = d.msgTimer /\ one.settled = d.settled
      /\ one.pendingAck = d.pendingAck
      /\ one.linkOk = checked.linkOk /\ one.check = d.check /\ one.lag = checked.lag
  BY <1>1, <1>3 DEF Fit, Drivers, BlinkRuns, SameMessage
<1> HIDE DEF one
<1>5. Drawn(one, two)
  BY <1>3, <1>4 DEF Drawn, Fit, Drivers, BlinkRuns, SameMessage, SameLink, Linked
<1> HIDE DEF two
<1>6. Drawn(one, applied) /\ Linked(applied)
  BY <1>5, DrawnAfter
<1> HIDE DEF applied
<1>7. Drawn(applied, blinked)
  BY <1>6, SyncBlinkFacts DEF Drawn
<1> HIDE DEF blinked
<1>8. Drawn(one, blinked) /\ Linked(blinked)
  BY <1>6, <1>7, DrawnTwice DEF Drawn, SameLink
<1>9. /\ Fit(blinked) /\ blinked.state = state /\ blinked.hidden = d.hidden
      /\ blinked.shown = d.shown /\ blinked.told = d.told /\ blinked.from = d.from
      /\ blinked.msgTimer = d.msgTimer /\ blinked.settled = d.settled
      /\ blinked.pendingAck = d.pendingAck
  BY <1>4, <1>8 DEF Drawn, SameMessage
<1>10. LinkInv(blinked, v)
  <2>1. /\ blinked.linkOk = IsLinkOk(v) /\ blinked.check = d.check
        /\ blinked.lag = d.lag \/ blinked.lag = 0
    BY <1>1, <1>4, <1>8 DEF Drawn, SameLink
  <2> QED
    BY <1>8, <1>9, <2>1, CheckedLink
<1>11. \A i : Shows(blinked, i) <=> Live(msg, i)
  BY <1>3, <1>9 DEF Shows
<1>12. Syncs(blinked)
  <2> DEFINE id == UnackedMessageId(blinked)
  <2> SUFFICES ASSUME id # Null
               PROVE  Syncs(blinked)
    BY DEF Syncs
  <2>1. id \in Ids
    BY <1>9, UnackedType DEF Fit, Ids0
  <2>2. Live(msg, id) /\ d.hidden # id
    BY <1>9, <1>11, <2>1, UnackedType DEF Fit
  <2> HIDE DEF id
  <2>3. /\ d.shown # Null /\ d.shown.id = id =>
             /\ d.told # Null /\ d.told.id = id
             /\ d.shown.age = Younger(d.told.age)
        /\ d.told # Null /\ d.told.id = id => d.shown # Null /\ d.shown.id = id
        /\ d.msgTimer # Null /\ d.msgTimer.id = id =>
             /\ d.shown # Null /\ d.shown.id = id
             /\ d.msgTimer = Clear(id, d.shown.age)
    BY <2>1, <2>2 DEF Carries
  <2> QED
    BY <1>9, <2>3 DEF Syncs, id
<1>13. HiddenPends(blinked)
  BY <1>9, <1>11 DEF HiddenPends, Carries
<1>14. /\ SyncsOnly(blinked, synced) /\ OnScreen(synced)
       /\ synced.told = d.told \/ (synced.told # Null /\ synced.told.id = UnackedMessageId(blinked))
  BY <1>9, <1>12, SyncFacts
<1> HIDE DEF synced
<1>15. \A i : Shows(synced, i) <=> Live(msg, i)
  BY <1>11, <1>14, SyncsOnlyMessage
<1>16. synced.told = d.told \/ (synced.told # Null /\ Shows(synced, synced.told.id))
  <2>1. ASSUME synced.told # Null, synced.told.id = UnackedMessageId(blinked)
        PROVE  Shows(synced, synced.told.id)
    <3>1. synced.told \in Tolds
      BY <1>14, <2>1 DEF SyncsOnly, Fit, Drivers
    <3>2. synced.told.id \in Ids
      BY <3>1 DEF Tolds
    <3> QED
      BY <1>9, <1>11, <1>15, <2>1, <3>2, UnackedType DEF Fit
  <2> QED
    BY <1>14, <2>1
<1>17. /\ Fit(synced) /\ SameLink(blinked, synced)
       /\ synced.state = state /\ synced.hidden = d.hidden /\ synced.pendingAck = d.pendingAck
       /\ synced.from = d.from /\ HiddenPends(synced)
  BY <1>9, <1>13, <1>14, SyncedPends DEF SyncsOnly
<1>18. /\ Fit(retried) /\ SameLink(synced, retried)
       /\ retried.state = synced.state /\ retried.hidden = synced.hidden
       /\ retried.from = synced.from
       /\ retried.shown = synced.shown /\ retried.told = synced.told
       /\ retried.msgTimer = synced.msgTimer /\ retried.settled = synced.settled
       /\ Shows(synced, synced.pendingAck) => retried.pendingAck = synced.pendingAck
  BY <1>3, <1>17, RetryFacts
<1> HIDE DEF retried
<1>19. /\ UnackedMessageId(retried) = UnackedMessageId(synced)
       /\ \A i : Shows(retried, i) <=> Shows(synced, i)
  BY <1>18 DEF UnackedMessageId, Shows
<1>20. OnScreen(retried)
  BY <1>14, <1>18, <1>19 DEF OnScreen
<1>21. HiddenPends(retried)
  BY <1>17, <1>18, <1>19 DEF HiddenPends
<1>22. LinkInv(retried, v)
  BY <1>9, <1>10, <1>17, <1>18, SameLinkInv
<1>23. Drawn(retried, e)
  BY <1>18 DEF Drawn, Fit, Drivers, BlinkRuns, SameMessage, SameLink, Linked, Ids0
<1> HIDE DEF e
<1>24. MessageInv(e) /\ LinkInv(e, v)
  BY <1>18, <1>20, <1>21, <1>22, <1>23, DrawnContinues, DrawnLink DEF MessageInv
<1>25. /\ e.state = state /\ e.from = d.from /\ e.told = synced.told
       /\ \A i : Shows(e, i) <=> Shows(synced, i)
  BY <1>17, <1>18, <1>19, <1>23, DrawnMessage DEF Drawn, SameMessage
<1> QED
  BY <1>2, <1>3, <1>16, <1>23, <1>24, <1>25 DEF Drawn, state

\* A status that does not change is not told: the HUD already shows no link.
LEMMA ToldFacts ==
  ASSUME NEW d, Fit(d), NEW v \in Views, NEW terminal \in BOOLEAN,
         MessageInv(d), Watched(d, v),
         v.status = view.status => LinkInv(d, v)
  PROVE  LET e == Told(d, v, terminal)
         IN  Fit(e) /\ LinkInv(e, v) /\ MessageInv(e) /\ Continues(d, e)
<1>1. Continues(d, d)
  BY DEF Continues
<1>2. CASE v.status = view.status
  BY <1>1, <1>2 DEF Told
<1>3. CASE v.status # view.status
  BY <1>3, OnConnectionFacts DEF Told
<1> QED
  BY <1>2, <1>3

LEMMA OnErrorFacts ==
  ASSUME NEW d, Fit(d)
  PROVE  Drawn(d, OnError(d))
<1> DEFINE over == TRUE
           one == [d EXCEPT !.terminal = over]
<1>1. over \in BOOLEAN /\ OnError(d) = SyncBlink(Render(one))
  BY DEF OnError
<1> HIDE DEF over
<1>2. Drawn(d, one)
  BY <1>1 DEF Drawn, Fit, Drivers, BlinkRuns, SameMessage, SameLink, Linked
<1> HIDE DEF one
<1>3. Drawn(d, Render(one))
  BY <1>2, DrawnAfter
<1>4. Drawn(Render(one), SyncBlink(Render(one)))
  BY <1>3, SyncBlinkFacts DEF Drawn
<1> QED
  BY <1>1, <1>3, <1>4, DrawnTwice

--------------------------------------------------------------------------------
(* The messages under way.                                                     *)

LiveFrame(r, k, i) == r.frames[k].t = "state" /\ Live(r.frames[k].msg, i)

\* A room shows i unacked, or a state that does is still to come after frame k.
Comes(r, k, i) ==
  \/ \E room \in RoomCodes : Live(r.msgs[room], i)
  \/ \E j \in DOMAIN r.frames : j > k /\ LiveFrame(r, j, i)

\* A room shows its own messages.
Owned(d, r) ==
  /\ \A i : Shows(d, i) => i.room = d.from
  /\ \A room \in RoomCodes : \A i : Live(r.msgs[room], i) => i.room = room
  /\ \A k \in DOMAIN r.frames : \A i : LiveFrame(r, k, i) => i.room = r.room

Fresh(d, r) ==
  \A i \in Ids : i.n > r.last =>
    /\ ~Shows(d, i) /\ ~Comes(r, 0, i)
    /\ d.told # Null => d.told.id # i

\* What left the screen does not come back.
Past(d, r) ==
  \A i \in Ids :
    d.told # Null /\ d.told.id = i => Shows(d, i) \/ ~Comes(r, 0, i)

\* Once acked, cleared or replaced, a message is not shown unacked again.
Ordered(d, r) ==
  \A i \in Ids, k \in DOMAIN r.frames :
    /\ r.frames[k].t = "state" /\ ~Live(r.frames[k].msg, i)
    /\ i.room = r.room
    /\ Shows(d, i) \/ \E j \in DOMAIN r.frames : j < k /\ LiveFrame(r, j, i)
    => ~Comes(r, k, i)

OrderInv(d, r) == Owned(d, r) /\ Fresh(d, r) /\ Past(d, r) /\ Ordered(d, r)

\* The same rooms, the same client.
SameRooms(r, q) == q.msgs = r.msgs /\ q.room = r.room /\ q.last = r.last

LEMMA ContinuesOrder ==
  ASSUME NEW d, NEW e, NEW r, Continues(d, e), OrderInv(d, r)
  PROVE  OrderInv(e, r)
<1>1. \A i : Shows(e, i) <=> Shows(d, i)
  BY DEF Continues, Shows
<1>2. Fresh(e, r)
  BY <1>1 DEF OrderInv, Fresh, Continues
<1>3. Past(e, r)
  BY <1>1 DEF OrderInv, Past, Continues
<1>4. Ordered(e, r)
  BY <1>1 DEF OrderInv, Ordered
<1>5. Owned(e, r)
  BY <1>1 DEF OrderInv, Owned, Continues
<1> QED
  BY <1>2, <1>3, <1>4, <1>5 DEF OrderInv

\* The frames of a connection that is gone are lost, whatever room comes next.
LEMMA NoFramesOrder ==
  ASSUME NEW d, NEW r, NEW q, OrderInv(d, r),
         q.frames = <<>>, q.msgs = r.msgs, q.last = r.last
  PROVE  OrderInv(d, q)
<1>1. DOMAIN q.frames = {}
  OBVIOUS
<1>2. \A i : Comes(q, 0, i) => Comes(r, 0, i)
  BY <1>1 DEF Comes
<1>3. Ordered(d, q)
  BY <1>1 DEF Ordered
<1>4. Owned(d, q)
  BY <1>1 DEF OrderInv, Owned
<1> QED
  BY <1>2, <1>3, <1>4 DEF OrderInv, Fresh, Past

LEMMA ReplayOrder ==
  ASSUME NEW d, NEW r \in Relays, NEW q, OrderInv(d, r),
         q.frames = <<StateFrame(r.msgs[r.room])>>, SameRooms(r, q)
  PROVE  OrderInv(d, q)
<1>1. DOMAIN q.frames = {1} /\ q.frames[1].t = "state" /\ q.frames[1].msg = r.msgs[r.room]
  BY DEF StateFrame
<1>2. r.room \in RoomCodes
  BY DEF Relays
<1>3. \A i : LiveFrame(q, 1, i) <=> Live(r.msgs[r.room], i)
  BY <1>1 DEF LiveFrame
<1>4. \A i, k : Comes(q, k, i) => \E room \in RoomCodes : Live(r.msgs[room], i)
  BY <1>1, <1>2, <1>3 DEF Comes, SameRooms
<1>5. \A i : Comes(q, 0, i) => Comes(r, 0, i)
  BY <1>4 DEF Comes
<1>6. Owned(d, q)
  BY <1>1, <1>2, <1>3 DEF OrderInv, Owned, SameRooms
<1>7. Ordered(d, q)
  <2> SUFFICES ASSUME NEW i \in Ids, NEW k \in DOMAIN q.frames,
                      ~Live(q.frames[k].msg, i), i.room = q.room, Comes(q, k, i)
               PROVE  FALSE
    BY DEF Ordered
  <2>1. PICK room \in RoomCodes : Live(r.msgs[room], i)
    BY <1>4
  <2>2. room = r.room
    BY <2>1 DEF OrderInv, Owned, SameRooms
  <2> QED
    BY <1>1, <2>1, <2>2
<1> QED
  BY <1>5, <1>6, <1>7 DEF OrderInv, Fresh, Past, SameRooms

LEMMA AppendedFrame ==
  ASSUME NEW frames \in Seq(Frames), NEW frame \in Frames
  PROVE  LET more == Append(frames, frame)
         IN  /\ more \in Seq(Frames)
             /\ DOMAIN more = DOMAIN frames \union {Len(frames) + 1}
             /\ \A k \in DOMAIN frames : more[k] = frames[k] /\ k \in Nat /\ k <= Len(frames)
             /\ more[Len(frames) + 1] = frame
             /\ Len(frames) \in Nat
BY AppendProperties, LenProperties

LEMMA ErrorOrder ==
  ASSUME NEW d, NEW r \in Relays, NEW q, OrderInv(d, r),
         q.frames = Append(r.frames, ErrorFrame), SameRooms(r, q)
  PROVE  OrderInv(d, q)
<1> DEFINE n == Len(r.frames)
<1>1. r.frames \in Seq(Frames) /\ ErrorFrame \in Frames /\ ErrorFrame.t # "state"
  BY DEF Relays, ErrorFrame, Frames
<1>2. /\ DOMAIN q.frames = DOMAIN r.frames \union {n + 1}
      /\ \A k \in DOMAIN r.frames : q.frames[k] = r.frames[k] /\ k <= n /\ k \in Nat
      /\ q.frames[n + 1] = ErrorFrame /\ n \in Nat
  BY <1>1, AppendedFrame
<1> HIDE DEF n
<1>3. /\ \A k \in DOMAIN r.frames : \A i : LiveFrame(q, k, i) <=> LiveFrame(r, k, i)
      /\ \A i : ~LiveFrame(q, n + 1, i)
      /\ q.frames[n + 1].t # "state"
  BY <1>1, <1>2 DEF LiveFrame
<1>4. \A k, i : Comes(q, k, i) => Comes(r, k, i)
  BY <1>2, <1>3 DEF Comes, SameRooms
<1>5. Ordered(d, q)
  <2> SUFFICES ASSUME NEW i \in Ids, NEW k \in DOMAIN q.frames,
                      q.frames[k].t = "state", ~Live(q.frames[k].msg, i), i.room = q.room,
                      Shows(d, i) \/ \E j \in DOMAIN q.frames : j < k /\ LiveFrame(q, j, i)
               PROVE  ~Comes(q, k, i)
    BY DEF Ordered
  <2>1. k \in DOMAIN r.frames /\ r.frames[k] = q.frames[k]
    BY <1>2, <1>3
  <2>2. Shows(d, i) \/ \E j \in DOMAIN r.frames : j < k /\ LiveFrame(r, j, i)
    BY <1>2, <1>3
  <2> QED
    BY <1>4, <2>1, <2>2 DEF OrderInv, Ordered, SameRooms
<1>6. Owned(d, q)
  BY <1>2, <1>3 DEF OrderInv, Owned, SameRooms
<1> QED
  BY <1>4, <1>5, <1>6 DEF OrderInv, Fresh, Past, SameRooms

\* A change of the room is told, or nobody is there: no message is brought back.
LEMMA BroadcastOrder ==
  ASSUME NEW d, NEW r \in Relays, NEW q, NEW msg \in Messages \union {Null},
         OrderInv(d, r), q.msgs = [r.msgs EXCEPT ![r.room] = msg],
         q.room = r.room, q.last = r.last,
         q.frames = r.frames \/ q.frames = Append(r.frames, StateFrame(msg)),
         \A i : Live(msg, i) => Live(r.msgs[r.room], i)
  PROVE  OrderInv(d, q)
<1> DEFINE n == Len(r.frames)
<1>1. r.frames \in Seq(Frames) /\ StateFrame(msg) \in Frames
      /\ StateFrame(msg).t = "state" /\ StateFrame(msg).msg = msg
  BY DEF Relays, StateFrame, Frames
<1>2. /\ DOMAIN r.frames \subseteq DOMAIN q.frames
      /\ DOMAIN q.frames \subseteq DOMAIN r.frames \union {n + 1}
      /\ \A k \in DOMAIN r.frames : q.frames[k] = r.frames[k] /\ k <= n /\ k \in Nat
      /\ n + 1 \in DOMAIN q.frames => q.frames[n + 1] = StateFrame(msg)
      /\ n \in Nat
  BY <1>1, AppendedFrame
<1> HIDE DEF n
<1>6. /\ r.room \in RoomCodes
      /\ \A room \in RoomCodes : q.msgs[room] = IF room = r.room THEN msg ELSE r.msgs[room]
  BY DEF Relays
<1>3. /\ \A k \in DOMAIN r.frames : \A i : LiveFrame(q, k, i) <=> LiveFrame(r, k, i)
      /\ \A i : n + 1 \in DOMAIN q.frames /\ LiveFrame(q, n + 1, i) => Live(r.msgs[r.room], i)
      /\ \A room \in RoomCodes : \A i : Live(q.msgs[room], i) => Live(r.msgs[room], i)
  BY <1>1, <1>2, <1>6 DEF LiveFrame
<1>4. \A k : \A i : Comes(q, k, i) => Comes(r, k, i)
  BY <1>2, <1>3, <1>6 DEF Comes
<1>5. Ordered(d, q)
  <2> SUFFICES ASSUME NEW i \in Ids, NEW k \in DOMAIN q.frames,
                      q.frames[k].t = "state", ~Live(q.frames[k].msg, i), i.room = q.room,
                      Shows(d, i) \/ \E j \in DOMAIN q.frames : j < k /\ LiveFrame(q, j, i)
               PROVE  ~Comes(q, k, i)
    BY DEF Ordered
  <2>1. CASE k \in DOMAIN r.frames
    <3>1. Shows(d, i) \/ \E j \in DOMAIN r.frames : j < k /\ LiveFrame(r, j, i)
      BY <1>2, <1>3, <2>1
    <3> QED
      BY <1>2, <1>4, <2>1, <3>1 DEF OrderInv, Ordered
  <2>2. CASE k = n + 1
    <3> SUFFICES ASSUME Comes(q, n + 1, i)
                 PROVE  FALSE
      BY <2>2
    <3>1. PICK room \in RoomCodes : Live(q.msgs[room], i)
      BY <1>2 DEF Comes
    <3>2. room = r.room
      BY <1>3, <3>1 DEF OrderInv, Owned
    <3> QED
      BY <1>1, <1>2, <1>6, <2>2, <3>1, <3>2
  <2> QED
    BY <1>2, <2>1, <2>2
<1>7. Owned(d, q)
  BY <1>2, <1>3, <1>6 DEF OrderInv, Owned
<1> QED
  BY <1>4, <1>5, <1>7 DEF OrderInv, Fresh, Past

\* The relay numbers its messages: a new one is none that was ever shown.
LEMMA NewOrder ==
  ASSUME NEW d, NEW r \in Relays, NEW q, NEW msg \in Messages, OrderInv(d, r),
         r.last < MaxMessages, msg.id.room = r.room, msg.id.n = r.last + 1,
         q.msgs = [r.msgs EXCEPT ![r.room] = msg],
         q.room = r.room, q.last = r.last + 1,
         q.frames = r.frames \/ q.frames = Append(r.frames, StateFrame(msg))
  PROVE  OrderInv(d, q)
<1> DEFINE n == Len(r.frames)
           new == msg.id
<1>1. r.frames \in Seq(Frames) /\ StateFrame(msg) \in Frames
      /\ StateFrame(msg).t = "state" /\ StateFrame(msg).msg = msg
      /\ r.last \in Nat
  BY DEF Relays, StateFrame, Frames
<1>2. /\ DOMAIN r.frames \subseteq DOMAIN q.frames
      /\ DOMAIN q.frames \subseteq DOMAIN r.frames \union {n + 1}
      /\ \A k \in DOMAIN r.frames : q.frames[k] = r.frames[k] /\ k <= n /\ k \in Nat
      /\ n + 1 \in DOMAIN q.frames => q.frames[n + 1] = StateFrame(msg)
      /\ n \in Nat
  BY <1>1, AppendedFrame
<1> HIDE DEF n
<1>10. /\ r.room \in RoomCodes
       /\ \A room \in RoomCodes : q.msgs[room] = IF room = r.room THEN msg ELSE r.msgs[room]
  BY DEF Relays
<1>3. /\ \A k \in DOMAIN r.frames : \A i : LiveFrame(q, k, i) <=> LiveFrame(r, k, i)
      /\ \A i : n + 1 \in DOMAIN q.frames /\ LiveFrame(q, n + 1, i) => i = new
      /\ \A room \in RoomCodes : \A i :
           Live(q.msgs[room], i) => Live(r.msgs[room], i) \/ (room = r.room /\ i = new)
  BY <1>1, <1>2, <1>10 DEF LiveFrame, Live
<1>4. \A k : \A i : Comes(q, k, i) /\ i # new => Comes(r, k, i)
  BY <1>2, <1>3 DEF Comes
<1>5. new \in Ids /\ new.n > r.last
  BY <1>1 DEF Messages
<1> HIDE DEF new
<1>6. /\ ~Shows(d, new) /\ ~Comes(r, 0, new)
      /\ d.told # Null => d.told.id # new
  BY <1>5 DEF OrderInv, Fresh
<1>7. Fresh(d, q)
  <2> SUFFICES ASSUME NEW i \in Ids, i.n > q.last
               PROVE  /\ ~Shows(d, i) /\ ~Comes(q, 0, i)
                      /\ d.told # Null => d.told.id # i
    BY DEF Fresh
  <2>1. i.n > r.last /\ i # new
    BY <1>1 DEF Ids, new
  <2> QED
    BY <1>4, <2>1 DEF OrderInv, Fresh
<1>8. Past(d, q)
  BY <1>4, <1>6 DEF OrderInv, Past
<1>9. Ordered(d, q)
  <2> SUFFICES ASSUME NEW i \in Ids, NEW k \in DOMAIN q.frames,
                      q.frames[k].t = "state", ~Live(q.frames[k].msg, i), i.room = q.room,
                      Shows(d, i) \/ \E j \in DOMAIN q.frames : j < k /\ LiveFrame(q, j, i)
               PROVE  ~Comes(q, k, i)
    BY DEF Ordered
  <2>1. CASE k \in DOMAIN r.frames
    <3>1. Shows(d, i) \/ \E j \in DOMAIN r.frames : j < k /\ LiveFrame(r, j, i)
      BY <1>2, <1>3, <2>1
    <3>2. i # new
      <4>1. \A j \in DOMAIN r.frames : j > 0
        BY <1>1, LenProperties
      <4> QED
        BY <1>6, <3>1, <4>1 DEF Comes
    <3> QED
      BY <1>2, <1>4, <2>1, <3>1, <3>2 DEF OrderInv, Ordered
  <2>2. CASE k = n + 1
    <3> SUFFICES ASSUME Comes(q, n + 1, i)
                 PROVE  FALSE
      BY <2>2
    <3>1. PICK room \in RoomCodes : Live(q.msgs[room], i)
      BY <1>2 DEF Comes
    <3>2. room = r.room
      BY <1>3, <3>1 DEF OrderInv, Owned
    <3> QED
      BY <1>1, <1>2, <1>10, <2>2, <3>1, <3>2
  <2> QED
    BY <1>2, <2>1, <2>2
<1>11. Owned(d, q)
  <2>1. new.room = r.room
    BY DEF new
  <2>2. /\ \A room \in RoomCodes : \A i : Live(q.msgs[room], i) => i.room = room
        /\ \A i : Shows(d, i) => i.room = d.from
    BY <1>3, <2>1 DEF OrderInv, Owned
  <2>3. \A k \in DOMAIN q.frames : \A i : LiveFrame(q, k, i) => i.room = q.room
    BY <1>2, <1>3, <2>1 DEF OrderInv, Owned
  <2> QED
    BY <2>2, <2>3 DEF Owned
<1> QED
  BY <1>7, <1>8, <1>9, <1>11 DEF OrderInv

LEMMA TakenFrame ==
  ASSUME NEW r \in Relays, NEW q, r.frames # <<>>, q.frames = Tail(r.frames),
         SameRooms(r, q)
  PROVE  /\ q.frames \in Seq(Frames)
         /\ 1 \in DOMAIN r.frames /\ Head(r.frames) = r.frames[1]
         /\ \A k \in DOMAIN q.frames :
              k \in Nat /\ k > 0 /\ k + 1 \in DOMAIN r.frames /\ q.frames[k] = r.frames[k + 1]
         /\ \A k \in DOMAIN r.frames : k > 1 => k - 1 \in DOMAIN q.frames /\ k \in Nat
         /\ \A k \in Nat : \A i : Comes(q, k, i) <=> Comes(r, k + 1, i)
<1>1. r.frames \in Seq(Frames)
  BY DEF Relays
<1>2. /\ q.frames \in Seq(Frames) /\ Len(q.frames) = Len(r.frames) - 1
      /\ \A k \in 1 .. Len(q.frames) : q.frames[k] = r.frames[k + 1]
      /\ Len(r.frames) \in Nat /\ Len(r.frames) > 0
      /\ DOMAIN r.frames = 1 .. Len(r.frames)
      /\ DOMAIN q.frames = 1 .. Len(q.frames)
      /\ Head(r.frames) = r.frames[1]
  BY <1>1, HeadTailProperties, EmptySeq, LenProperties
<1>3. /\ \A k \in DOMAIN q.frames :
           k \in Nat /\ k > 0 /\ k + 1 \in DOMAIN r.frames /\ q.frames[k] = r.frames[k + 1]
      /\ \A k \in DOMAIN r.frames : k > 1 => k - 1 \in DOMAIN q.frames /\ k \in Nat
  BY <1>2
<1>4. ASSUME NEW k \in Nat, NEW i
      PROVE  Comes(q, k, i) <=> Comes(r, k + 1, i)
  <2>1. ASSUME NEW j \in DOMAIN q.frames, j > k, LiveFrame(q, j, i)
        PROVE  Comes(r, k + 1, i)
    <3>1. j + 1 \in DOMAIN r.frames /\ j + 1 > k + 1 /\ LiveFrame(r, j + 1, i)
      BY <1>3, <2>1 DEF LiveFrame
    <3> QED
      BY <3>1 DEF Comes
  <2>2. ASSUME NEW j \in DOMAIN r.frames, j > k + 1, LiveFrame(r, j, i)
        PROVE  Comes(q, k, i)
    <3>1. j \in Nat /\ j > 1
      BY <1>2, <2>2
    <3>2. j - 1 \in DOMAIN q.frames /\ j - 1 > k /\ q.frames[j - 1] = r.frames[j]
      <4>1. j - 1 \in DOMAIN q.frames /\ j - 1 > k
        BY <1>2, <2>2, <3>1
      <4>2. q.frames[j - 1] = r.frames[(j - 1) + 1]
        BY <1>3, <4>1
      <4>3. (j - 1) + 1 = j
        BY <3>1
      <4> QED
        BY <4>1, <4>2, <4>3, Zenon
    <3>3. LiveFrame(q, j - 1, i)
      BY <2>2, <3>2 DEF LiveFrame
    <3> QED
      BY <3>2, <3>3 DEF Comes
  <2> QED
    BY <2>1, <2>2 DEF Comes, SameRooms
<1>5. \A k \in Nat : \A i : Comes(q, k, i) <=> Comes(r, k + 1, i)
  BY <1>4
<1>6. 1 \in DOMAIN r.frames
  BY <1>2
<1> QED
  BY <1>2, <1>3, <1>5, <1>6, Zenon

\* A state that is taken becomes the last state.
LEMMA StateTakenOrder ==
  ASSUME NEW d, NEW e, NEW r \in Relays, NEW q, OrderInv(d, r),
         r.frames # <<>>, Head(r.frames).t = "state",
         q.frames = Tail(r.frames), SameRooms(r, q),
         e.state # Null, e.state.msg = Head(r.frames).msg, e.from = r.room,
         \/ e.told = d.told /\ d.from = r.room
         \/ e.told = Null
         \/ e.told # Null /\ Shows(e, e.told.id)
  PROVE  OrderInv(e, q)
<1>1. /\ 1 \in DOMAIN r.frames /\ Head(r.frames) = r.frames[1]
      /\ \A k \in DOMAIN q.frames :
           k \in Nat /\ k > 0 /\ k + 1 \in DOMAIN r.frames /\ q.frames[k] = r.frames[k + 1]
      /\ \A k \in Nat : \A i : Comes(q, k, i) <=> Comes(r, k + 1, i)
  BY TakenFrame
<1>2. \A i : Shows(e, i) <=> LiveFrame(r, 1, i)
  BY <1>1 DEF Shows, LiveFrame
<1>3. \A i : Comes(q, 0, i) <=> Comes(r, 1, i)
  BY <1>1
<1>4. \A i : Comes(r, 1, i) => Comes(r, 0, i)
  <2>1. DOMAIN r.frames \subseteq Nat
    BY DEF Relays
  <2> QED
    BY <2>1 DEF Comes
<1>5. \A i : Shows(e, i) => Comes(r, 0, i)
  BY <1>1, <1>2 DEF Comes
<1>6. \A i \in Ids : Shows(d, i) /\ d.from = r.room => Shows(e, i) \/ ~Comes(r, 1, i)
  BY <1>1, <1>2 DEF OrderInv, Ordered, Owned, LiveFrame
<1>7. Fresh(e, q)
  BY <1>3, <1>4, <1>5 DEF OrderInv, Fresh, SameRooms
<1>8. Past(e, q)
  BY <1>3, <1>4, <1>6 DEF OrderInv, Past
<1>9. Ordered(e, q)
  <2> SUFFICES ASSUME NEW i \in Ids, NEW k \in DOMAIN q.frames,
                      q.frames[k].t = "state", ~Live(q.frames[k].msg, i), i.room = q.room,
                      Shows(e, i) \/ \E j \in DOMAIN q.frames : j < k /\ LiveFrame(q, j, i)
               PROVE  ~Comes(q, k, i)
    BY DEF Ordered
  <2>1. k \in Nat /\ k > 0 /\ k + 1 \in DOMAIN r.frames /\ q.frames[k] = r.frames[k + 1]
    BY <1>1
  <2>2. \E j \in DOMAIN r.frames : j < k + 1 /\ LiveFrame(r, j, i)
    <3>1. CASE Shows(e, i)
      BY <1>1, <1>2, <2>1, <3>1
    <3>2. ASSUME NEW j \in DOMAIN q.frames, j < k, LiveFrame(q, j, i)
          PROVE  \E h \in DOMAIN r.frames : h < k + 1 /\ LiveFrame(r, h, i)
      <4>1. j + 1 \in DOMAIN r.frames /\ j + 1 < k + 1 /\ LiveFrame(r, j + 1, i)
        BY <1>1, <2>1, <3>2 DEF LiveFrame
      <4> QED
        BY <4>1
    <3> QED
      BY <3>1, <3>2
  <2>3. ~Comes(r, k + 1, i)
    BY <2>1, <2>2 DEF OrderInv, Ordered, SameRooms
  <2> QED
    BY <1>1, <2>1, <2>3
<1>10. Owned(e, q)
  <2>1. \A i : Shows(e, i) => i.room = r.room
    BY <1>1, <1>2 DEF OrderInv, Owned
  <2>2. \A k \in DOMAIN q.frames : \A i : LiveFrame(q, k, i) => i.room = r.room
    BY <1>1 DEF OrderInv, Owned, LiveFrame
  <2> QED
    BY <2>1, <2>2 DEF OrderInv, Owned, SameRooms
<1> QED
  BY <1>7, <1>8, <1>9, <1>10 DEF OrderInv

LEMMA ErrorTakenOrder ==
  ASSUME NEW d, NEW r \in Relays, NEW q, OrderInv(d, r),
         r.frames # <<>>,
         q.frames = Tail(r.frames), SameRooms(r, q)
  PROVE  OrderInv(d, q)
<1>1. /\ 1 \in DOMAIN r.frames /\ Head(r.frames) = r.frames[1]
      /\ \A k \in DOMAIN q.frames :
           k \in Nat /\ k > 0 /\ k + 1 \in DOMAIN r.frames /\ q.frames[k] = r.frames[k + 1]
      /\ \A k \in Nat : \A i : Comes(q, k, i) <=> Comes(r, k + 1, i)
  BY TakenFrame
<1>2. \A i : Comes(q, 0, i) => Comes(r, 0, i)
  <2>1. DOMAIN r.frames \subseteq Nat
    BY DEF Relays
  <2>2. \A i : Comes(q, 0, i) <=> Comes(r, 1, i)
    BY <1>1
  <2> QED
    BY <2>1, <2>2 DEF Comes
<1>3. Ordered(d, q)
  <2> SUFFICES ASSUME NEW i \in Ids, NEW k \in DOMAIN q.frames,
                      q.frames[k].t = "state", ~Live(q.frames[k].msg, i), i.room = q.room,
                      Shows(d, i) \/ \E j \in DOMAIN q.frames : j < k /\ LiveFrame(q, j, i)
               PROVE  ~Comes(q, k, i)
    BY DEF Ordered
  <2>1. k \in Nat /\ k > 0 /\ k + 1 \in DOMAIN r.frames /\ q.frames[k] = r.frames[k + 1]
    BY <1>1
  <2>2. ASSUME NEW j \in DOMAIN q.frames, j < k, LiveFrame(q, j, i)
        PROVE  \E h \in DOMAIN r.frames : h < k + 1 /\ LiveFrame(r, h, i)
    <3>1. j + 1 \in DOMAIN r.frames /\ j + 1 < k + 1 /\ LiveFrame(r, j + 1, i)
      BY <1>1, <2>1, <2>2 DEF LiveFrame
    <3> QED
      BY <3>1
  <2>3. ~Comes(r, k + 1, i)
    BY <2>1, <2>2 DEF OrderInv, Ordered, SameRooms
  <2> QED
    BY <1>1, <2>1, <2>3
<1>4. Owned(d, q)
  <2>1. \A k \in DOMAIN q.frames : \A i : LiveFrame(q, k, i) => i.room = r.room
    BY <1>1 DEF OrderInv, Owned, LiveFrame
  <2> QED
    BY <2>1 DEF OrderInv, Owned, SameRooms
<1> QED
  BY <1>2, <1>3, <1>4 DEF OrderInv, Fresh, Past, SameRooms

--------------------------------------------------------------------------------
(* The client's view.                                                          *)

LEMMA ViewFacts ==
  ASSUME NEW v \in Views, ViewSound(v)
  PROVE  /\ Connecting(v) \in Views /\ ViewSound(Connecting(v))
         /\ Connecting(v).heard = Null /\ ~IsLinkOk(Connecting(v))
         /\ NoSession \in Views /\ ViewSound(NoSession)
         /\ NoSession.status = "closed" /\ ~IsLinkOk(NoSession)
         /\ \A w \in Dropped(v) :
              /\ w \in Views /\ ViewSound(w) /\ w.status = "closed"
              /\ IsLinkOk(w) => IsLinkOk(v)
<1>1. /\ Connecting(v) \in Views /\ ViewSound(Connecting(v))
      /\ Connecting(v).heard = Null /\ ~IsLinkOk(Connecting(v))
  BY DEF Connecting, Views, ViewSound, IsLinkOk
<1>2. /\ NoSession \in Views /\ ViewSound(NoSession)
      /\ NoSession.status = "closed" /\ ~IsLinkOk(NoSession)
  BY DEF NoSession, Views, ViewSound, IsLinkOk
<1>3. ASSUME NEW w \in Dropped(v)
      PROVE  /\ w \in Views /\ ViewSound(w) /\ w.status = "closed"
             /\ IsLinkOk(w) => IsLinkOk(v)
  <2>1. PICK heard \in {v.heard, Null} :
          w = [status |-> "closed", replayed |-> FALSE, heard |-> heard, retry |-> TRUE]
    BY DEF Dropped
  <2>2. heard \in 0 .. HeardMax \union {Null}
    BY DEF Views
  <2>3. w.status = "closed" /\ w.heard = heard /\ ~w.replayed
    BY <2>1
  <2>4. w \in Views
    BY <2>1, <2>2 DEF Views
  <2> QED
    BY <2>3, <2>4 DEF ViewSound, IsLinkOk
<1> QED
  BY <1>1, <1>2, <1>3

LEMMA HeardFacts ==
  ASSUME NEW v \in Views, ViewSound(v), v.status = "open"
  PROVE  /\ Heard(v) \in Views /\ ViewSound(Heard(v)) /\ Heard(v).heard = 0
         /\ IsLinkOk(Heard(v)) /\ Heard(v).status = "open"
         /\ Replayed(v) \in Views /\ ViewSound(Replayed(v)) /\ Replayed(v).heard = 0
         /\ IsLinkOk(Replayed(v)) /\ Replayed(v).status = "open"
<1> DEFINE now == 0
           yes == TRUE
           one == [v EXCEPT !.heard = now]
           two == [one EXCEPT !.replayed = yes]
<1>1. Heard(v) = one /\ Replayed(v) = two
  BY DEF Heard, Replayed, Views
<1>2. now \in 0 .. HeardMax /\ now # Null /\ now <= DRIVER_NO_LINK_MS /\ yes \in BOOLEAN
  BY ViewAssumption, DriverAssumption
<1> HIDE DEF yes
<1>3. /\ one \in Views /\ one.heard = now /\ one.status = v.status
      /\ one.retry = v.retry /\ one.replayed = v.replayed
  BY <1>2 DEF Views
<1> HIDE DEF one
<1>4. two \in Views /\ two.heard = now /\ two.status = v.status /\ two.retry = v.retry
  BY <1>2, <1>3 DEF Views
<1> HIDE DEF two
<1> QED
  BY <1>1, <1>2, <1>3, <1>4 DEF ViewSound, IsLinkOk

LEMMA OpenedFacts ==
  ASSUME NEW v \in Views, ViewSound(v), v.status = "connecting"
  PROVE  /\ Opened(v) \in Views /\ ViewSound(Opened(v))
         /\ Opened(v).status = "open" /\ Opened(v).heard = Null
         /\ ~IsLinkOk(Opened(v))
<1>1. /\ Opened(v) \in Views /\ Opened(v).status = "open"
      /\ Opened(v).heard = v.heard /\ Opened(v).retry = v.retry
  BY DEF Opened, Views
<1> QED
  BY <1>1 DEF ViewSound, IsLinkOk

LEMMA AgedFacts ==
  ASSUME NEW v \in Views, ViewSound(v)
  PROVE  /\ Aged(v) \in Views /\ ViewSound(Aged(v))
         /\ Aged(v).status = v.status
         /\ v.heard # Null => Aged(v).heard # Null
         /\ IsLinkOk(Aged(v)) => IsLinkOk(v)
<1> DEFINE heard == IF v.heard = Null \/ v.heard = HeardMax THEN v.heard ELSE v.heard + 1
<1>1. Aged(v) = [v EXCEPT !.heard = heard]
  BY DEF Aged, Views
<1>2. v.heard \in 0 .. HeardMax \union {Null}
  BY DEF Views
<1>3. heard \in 0 .. HeardMax \union {Null}
  BY <1>2, ViewAssumption
<1>4. heard = Null <=> v.heard = Null
  BY <1>2, ViewAssumption
<1>5. heard # Null => heard \in Nat /\ v.heard \in Nat /\ heard >= v.heard
  BY <1>2, <1>3, <1>4, ViewAssumption
<1> HIDE DEF heard
<1>6. /\ Aged(v) \in Views /\ Aged(v).heard = heard /\ Aged(v).status = v.status
      /\ Aged(v).retry = v.retry /\ Aged(v).replayed = v.replayed
  BY <1>1, <1>3 DEF Views
<1> QED
  BY <1>4, <1>5, <1>6, DriverAssumption DEF ViewSound, IsLinkOk

--------------------------------------------------------------------------------
(* The invariant, and the steps of the client.                                 *)

DriverSound(d, v) == Fit(d) /\ LinkInv(d, v) /\ MessageInv(d)

RelaySound(d, r) == r \in Relays /\ OrderInv(d, r)

DriverInv ==
  /\ DriverSound(driver, view)
  /\ view \in Views /\ ViewSound(view)
  /\ RelaySound(driver, relay)

LEMMA ContinuesRelay ==
  ASSUME NEW d, NEW e, NEW r, Continues(d, e), RelaySound(d, r)
  PROVE  RelaySound(e, r)
BY ContinuesOrder DEF RelaySound

LEMMA DrawnSound ==
  ASSUME NEW d, NEW e, NEW v, NEW r, Drawn(d, e), DriverSound(d, v), RelaySound(d, r)
  PROVE  DriverSound(e, v) /\ RelaySound(e, r)
BY DrawnLink, DrawnContinues, ContinuesRelay DEF DriverSound, Drawn

\* The link is gone with the socket.
LEMMA NoSocketFacts ==
  ASSUME NEW d, NEW r, RelaySound(d, r), NEW room \in RoomCodes
  PROVE  /\ RelaySound(d, NoSocket(r))
         /\ RelaySound(d, [NoSocket(r) EXCEPT !.room = room])
<1> DEFINE no == FALSE
           none == <<>>
           one == [r EXCEPT !.joined = no]
           two == [one EXCEPT !.closing = no]
           three == [two EXCEPT !.dead = no]
           q == [three EXCEPT !.frames = none]
<1>1. r \in Relays /\ no \in BOOLEAN /\ none \in Seq(Frames) /\ none = <<>>
  BY DEF RelaySound
<1>2. NoSocket(r) = q
  BY <1>1 DEF NoSocket, Relays
<1> HIDE DEF no, none
<1>3. one \in Relays /\ SameRooms(r, one)
  BY <1>1 DEF Relays, SameRooms
<1> HIDE DEF one
<1>4. two \in Relays /\ SameRooms(r, two)
  BY <1>1, <1>3 DEF Relays, SameRooms
<1> HIDE DEF two
<1>5. three \in Relays /\ SameRooms(r, three)
  BY <1>1, <1>4 DEF Relays, SameRooms
<1> HIDE DEF three
<1>6. q \in Relays /\ SameRooms(r, q) /\ q.frames = <<>>
  BY <1>1, <1>5 DEF Relays, SameRooms
<1> HIDE DEF q
<1> DEFINE other == [q EXCEPT !.room = room]
<1>7. other \in Relays /\ other.msgs = r.msgs /\ other.last = r.last /\ other.frames = <<>>
  BY <1>6 DEF Relays, SameRooms
<1> HIDE DEF other
<1>8. RelaySound(d, q) /\ RelaySound(d, other)
  BY <1>6, <1>7, NoFramesOrder DEF RelaySound, SameRooms
<1> QED
  BY <1>2, <1>8 DEF other

\* The app is told of a view in which no link is better than it was.
LEMMA TellsFacts ==
  ASSUME NEW d, DriverSound(d, view), NEW v \in Views, NEW terminal \in BOOLEAN,
         IsLinkOk(v) => IsLinkOk(view),
         v.status = view.status => v.status = "closed" \/ view.heard = Null
  PROVE  LET e == Told(d, v, terminal)
         IN  DriverSound(e, v) /\ Continues(d, e)
<1>1. Watched(d, v)
  BY DEF DriverSound, LinkInv, Watched
<1>2. v.status = view.status => LinkInv(d, v)
  BY <1>1 DEF DriverSound, LinkInv
<1> QED
  BY <1>1, <1>2, ToldFacts DEF DriverSound

LEMMA DisconnectedStep ==
  ASSUME DriverInv, NEW d, DriverSound(d, view), RelaySound(d, relay),
         NEW terminal \in BOOLEAN,
         view' = Connecting(view) \/ view' = NoSession
           \/ (view.status # "closed" /\ view' \in Dropped(view)),
         driver' = Told(d, view', terminal) \/ driver' = Render(Told(d, view', terminal)),
         \/ relay' = NoSocket(relay)
         \/ \E room \in RoomCodes : relay' = [NoSocket(relay) EXCEPT !.room = room]
  PROVE  DriverInv'
<1> DEFINE v == view'
           e == Told(d, v, terminal)
<1>1. view \in Views /\ ViewSound(view)
  BY DEF DriverInv
<1>2. v \in Views /\ ViewSound(v) /\ (IsLinkOk(v) => IsLinkOk(view))
  BY <1>1, ViewFacts
<1>3. v.status = view.status => v.status = "closed" \/ view.heard = Null
  <2>1. Connecting(view).status = "connecting"
    BY DEF Connecting
  <2> QED
    BY <1>1, <2>1, ViewFacts DEF ViewSound
<1>4. DriverSound(e, v) /\ Continues(d, e)
  BY <1>2, <1>3, TellsFacts
<1>5. RelaySound(e, relay')
  <2>1. relay.room \in RoomCodes
    BY DEF DriverInv, RelaySound, Relays
  <2> QED
    BY <1>4, <2>1, ContinuesRelay, NoSocketFacts
<1> HIDE DEF e
<1>6. DriverSound(Render(e), v) /\ RelaySound(Render(e), relay')
  BY <1>4, <1>5, DrawnSound, RenderFacts DEF DriverSound
<1>7. DriverSound(driver', v) /\ RelaySound(driver', relay')
  BY <1>4, <1>5, <1>6 DEF e
<1> QED
  BY <1>2, <1>7 DEF DriverInv

LEMMA RetryConnectsStep ==
  ASSUME DriverInv, RetryConnects
  PROVE  DriverInv'
BY DisconnectedStep DEF RetryConnects, DriverInv

LEMMA SocketDropsStep ==
  ASSUME DriverInv, SocketDrops
  PROVE  DriverInv'
BY DisconnectedStep DEF SocketDrops, DriverInv

LEMMA TerminalCloseStep ==
  ASSUME DriverInv, TerminalClose
  PROVE  DriverInv'
BY DisconnectedStep DEF TerminalClose, DriverInv

LEMMA ExitStep ==
  ASSUME DriverInv, Exit
  PROVE  DriverInv'
BY DisconnectedStep DEF Exit, DriverInv

LEMMA SocketOpensStep ==
  ASSUME DriverInv, SocketOpens
  PROVE  DriverInv'
<1>1. view \in Views /\ ViewSound(view) /\ view.status = "connecting"
  BY DEF DriverInv, SocketOpens
<1>2. /\ view' \in Views /\ ViewSound(view)' /\ ~IsLinkOk(view')
      /\ view'.status # view.status
  BY <1>1, OpenedFacts DEF SocketOpens, ViewSound
<1>3. DriverSound(driver', view') /\ Continues(driver, driver')
  BY <1>2, TellsFacts DEF DriverInv, SocketOpens
<1>4. RelaySound(driver', relay)
  BY <1>3, ContinuesRelay DEF DriverInv
<1> QED
  BY <1>2, <1>3, <1>4 DEF DriverInv, SocketOpens

\* A frame ends the silence.
LEMMA HeardNowFacts ==
  ASSUME DriverInv, view.status = "open", NEW v, IsLinkOk(v), v.heard # Null
  PROVE  /\ Drawn(driver, HeardNow) /\ LinkInv(HeardNow, v)
<1>1. HeardNow = [driver EXCEPT !.lag = 0]
  BY DEF HeardNow
<1>2. Fit(driver) /\ Watched(driver, view)
  BY DEF DriverInv, DriverSound, LinkInv
<1> DEFINE d == driver
           e == HeardNow
<1>3. Drawn(d, e) /\ e.lag = 0 /\ e.check = d.check
  BY <1>1, <1>2, DriverAssumption DEF Drawn, Fit, Drivers, BlinkRuns, SameMessage, SameLink, Linked
<1>4. e.check <= LINK_CHECK_MS /\ e.check \in Nat /\ Linked(e)
  BY <1>2, <1>3, DriverAssumption DEF Drawn, SameLink, Watched, Fit, Drivers
<1> HIDE DEF e, d
<1>5. LinkInv(e, v)
  BY <1>3, <1>4 DEF LinkInv, Watched
<1> QED
  BY <1>3, <1>5 DEF d, e

LEMMA TailRoom ==
  ASSUME NEW r \in Relays, r.frames # <<>>
  PROVE  LET q == [r EXCEPT !.frames = Tail(@)]
         IN  /\ q \in Relays /\ q.frames = Tail(r.frames)
             /\ SameRooms(r, q)
<1>1. Tail(r.frames) \in Seq(Frames)
  BY HeadTailProperties, EmptySeq DEF Relays
<1> QED
  BY <1>1 DEF Relays, SameRooms

\* A state of the room the app is in finds the message it shows, one of another
\* room finds none of its messages.
LEMMA StaysFacts ==
  ASSUME NEW d, Fit(d), NEW v, LinkInv(d, v), MessageInv(d),
         NEW r \in Relays, OrderInv(d, r), NEW msg,
         \A i : Live(msg, i) => Comes(r, 0, i) /\ i.room = r.room
  PROVE  LET e == Stays(d, r.room)
         IN  /\ Fit(e) /\ Watched(e, v) /\ Carries(e, msg) /\ e.from = r.room
             /\ e.told = IF d.from = r.room THEN d.told ELSE Null
<1> DEFINE told == IF d.from = r.room THEN d.told ELSE Null
           one == [d EXCEPT !.from = r.room]
           e == [one EXCEPT !.told = told]
<1>1. Stays(d, r.room) = e
  BY DEF Stays, Fit, Drivers
<1>2. told \in Tolds \union {Null} /\ r.room \in RoomCodes
  BY DEF Fit, Drivers, Relays
<1>3. told = IF d.from = r.room THEN d.told ELSE Null
  OBVIOUS
<1> HIDE DEF told
<1>4. /\ Fit(one) /\ SameLink(d, one) /\ one.from = r.room
      /\ one.hidden = d.hidden /\ one.shown = d.shown
      /\ one.msgTimer = d.msgTimer /\ one.pendingAck = d.pendingAck
  BY <1>2 DEF Fit, Drivers, BlinkRuns, SameLink, Linked
<1> HIDE DEF one
<1>5. /\ Fit(e) /\ SameLink(one, e) /\ e.from = r.room /\ e.told = told
      /\ e.hidden = d.hidden /\ e.shown = d.shown
      /\ e.msgTimer = d.msgTimer /\ e.pendingAck = d.pendingAck
  BY <1>2, <1>4 DEF Fit, Drivers, BlinkRuns, SameLink, Linked
<1> HIDE DEF e
<1>6. LinkInv(e, v)
  BY <1>4, <1>5, SameLinkInv
<1>7. ASSUME NEW id \in Ids, Live(msg, id), d.hidden # id
      PROVE  /\ d.shown # Null /\ d.shown.id = id =>
                  /\ told # Null /\ told.id = id
                  /\ d.shown.age = Younger(told.age)
             /\ told # Null /\ told.id = id => d.shown # Null /\ d.shown.id = id
             /\ d.msgTimer # Null /\ d.msgTimer.id = id =>
                  /\ d.shown # Null /\ d.shown.id = id
                  /\ d.msgTimer = Clear(id, d.shown.age)
  <2>1. Shows(d, id) => UnackedMessageId(d) = id
    BY <1>7, UnackedType DEF Fit
  <2>2. d.shown # Null /\ d.shown.id = id => Shows(d, id)
    BY DEF MessageInv, OnScreen
  <2>3. d.msgTimer # Null /\ d.msgTimer.id = id => UnackedMessageId(d) = id
    BY DEF MessageInv, OnScreen, Clear
  <2>4. UnackedMessageId(d) = id => Shows(d, id)
    BY <1>7, UnackedType DEF Fit
  <2>5. UnackedMessageId(d) = id =>
          /\ d.shown # Null /\ d.shown.id = id
          /\ d.told # Null /\ d.told.id = id
          /\ d.shown.age = Younger(d.told.age)
          /\ d.msgTimer # Null => d.msgTimer = Clear(id, d.shown.age)
    BY <1>7, UnackedType DEF MessageInv, OnScreen, Fit
  <2>6. CASE d.from = r.room
    <3>1. d.told # Null /\ d.told.id = id => Shows(d, id)
      BY <1>7 DEF OrderInv, Past
    <3> QED
      BY <1>3, <2>1, <2>2, <2>3, <2>5, <2>6, <3>1
  <2>7. CASE d.from # r.room
    <3>1. ~Shows(d, id)
      BY <1>7, <2>7 DEF OrderInv, Owned
    <3> QED
      BY <1>3, <2>2, <2>3, <2>4, <2>7, <3>1
  <2> QED
    BY <2>6, <2>7
<1>8. ASSUME d.hidden # Null, Live(msg, d.hidden), told # Null, told.id = d.hidden
      PROVE  d.pendingAck = d.hidden
  <2>1. d.hidden \in Ids
    BY <1>8 DEF Fit, Drivers, Ids0
  <2>2. d.told = told
    BY <1>3, <1>8
  <2>3. Shows(d, d.hidden)
    BY <1>8, <2>1, <2>2 DEF OrderInv, Past
  <2> QED
    BY <1>8, <2>2, <2>3 DEF MessageInv, HiddenPends
<1>9. Carries(e, msg)
  BY <1>5, <1>7, <1>8 DEF Carries
<1> QED
  BY <1>1, <1>3, <1>5, <1>6, <1>9 DEF LinkInv

LEMMA StateArrivesStep ==
  ASSUME DriverInv, StateArrives
  PROVE  DriverInv'
<1> DEFINE msg == Head(relay.frames).msg
           d == HeardNow
<1>1. /\ view \in Views /\ ViewSound(view) /\ view.status = "open"
      /\ relay \in Relays /\ OrderInv(driver, relay) /\ relay.frames # <<>>
      /\ Head(relay.frames).t = "state" /\ MessageInv(driver)
  BY DEF DriverInv, DriverSound, RelaySound, StateArrives
<1>2. /\ Heard(view) \in Views /\ IsLinkOk(Heard(view)) /\ Heard(view).heard = 0
      /\ view' \in Views /\ ViewSound(view)' /\ IsLinkOk(view') /\ view'.heard = 0
  BY <1>1, HeardFacts DEF StateArrives
<1>3. Heard(view).heard # Null /\ view'.heard # Null
  BY <1>2, ViewAssumption
<1>4. Drawn(driver, d) /\ LinkInv(d, Heard(view))
  BY <1>1, <1>2, <1>3, HeardNowFacts
<1>5. 1 \in DOMAIN relay.frames /\ Head(relay.frames) = relay.frames[1]
  BY <1>1, HeadTailProperties, EmptySeq, LenProperties DEF Relays
<1>6. msg \in Messages \union {Null}
  <2>1. relay.frames[1] \in Frames
    BY <1>1, <1>5, ElementOfSeq, LenProperties DEF Relays
  <2> QED
    BY <1>1, <1>5, <2>1 DEF Frames
<1> HIDE DEF d
<1>7. \A i : Live(msg, i) => Comes(relay, 0, i) /\ i.room = relay.room
  <2>1. \A i : Live(msg, i) => LiveFrame(relay, 1, i)
    BY <1>1, <1>5 DEF LiveFrame
  <2> QED
    BY <1>1, <1>5, <2>1 DEF Comes, OrderInv, Owned
<1>8. Fit(d) /\ MessageInv(d) /\ OrderInv(d, relay)
  BY <1>1, <1>4, DrawnContinues, ContinuesOrder DEF Drawn
<1> DEFINE stays == Stays(d, relay.room)
<1>9. driver' = OnState(stays, Heard(view), msg)
  BY DEF StateArrives, d
<1> HIDE DEF msg
<1>15. /\ Fit(stays) /\ Watched(stays, Heard(view)) /\ Carries(stays, msg)
       /\ stays.from = relay.room
       /\ stays.told = IF d.from = relay.room THEN d.told ELSE Null
  BY <1>1, <1>4, <1>7, <1>8, StaysFacts
<1> HIDE DEF stays
<1>10. /\ Fit(driver') /\ LinkInv(driver', Heard(view)) /\ MessageInv(driver')
       /\ driver'.state = [msg |-> msg] /\ driver'.state # Null
       /\ driver'.from = stays.from
       /\ driver'.told = stays.told \/ (driver'.told # Null /\ Shows(driver', driver'.told.id))
  BY <1>2, <1>6, <1>9, <1>15, OnStateFacts
<1>11. LinkInv(driver', view')
  BY <1>2, <1>3, <1>10 DEF LinkInv, Watched
<1>12. /\ relay' \in Relays /\ relay'.frames = Tail(relay.frames)
       /\ SameRooms(relay, relay')
  BY <1>1, TailRoom DEF StateArrives
<1>13. driver'.state.msg = Head(relay.frames).msg
  BY <1>10 DEF msg
<1>14. OrderInv(driver', relay')
  BY <1>1, <1>8, <1>10, <1>12, <1>13, <1>15, StateTakenOrder
<1> QED
  BY <1>2, <1>10, <1>11, <1>12, <1>14 DEF DriverInv, DriverSound, RelaySound

LEMMA ErrorArrivesStep ==
  ASSUME DriverInv, ErrorArrives
  PROVE  DriverInv'
<1>1. /\ view \in Views /\ ViewSound(view) /\ view.status = "open"
      /\ relay \in Relays /\ OrderInv(driver, relay) /\ relay.frames # <<>>
  BY DEF DriverInv, RelaySound, ErrorArrives
<1>2. view' \in Views /\ ViewSound(view)' /\ IsLinkOk(view') /\ view'.heard = 0
  BY <1>1, HeardFacts DEF ErrorArrives
<1>3. Drawn(driver, HeardNow) /\ LinkInv(HeardNow, view')
  BY <1>1, <1>2, HeardNowFacts, ViewAssumption
<1>4. DriverSound(HeardNow, view') /\ Continues(driver, HeardNow)
  BY <1>3, DrawnContinues DEF DriverInv, DriverSound, Drawn
<1>5. /\ relay' \in Relays /\ relay'.frames = Tail(relay.frames)
      /\ SameRooms(relay, relay')
  BY <1>1, TailRoom DEF ErrorArrives
<1>6. RelaySound(driver, relay')
  BY <1>1, <1>5, ErrorTakenOrder DEF RelaySound
<1>7. RelaySound(HeardNow, relay')
  BY <1>4, <1>6, ContinuesRelay
<1>8. DriverSound(OnError(HeardNow), view') /\ RelaySound(OnError(HeardNow), relay')
  BY <1>4, <1>7, OnErrorFacts, DrawnSound DEF DriverSound
<1> QED
  BY <1>2, <1>4, <1>7, <1>8 DEF DriverInv, ErrorArrives

LEMMA PongArrivesStep ==
  ASSUME DriverInv, PongArrives
  PROVE  DriverInv'
<1>1. view \in Views /\ ViewSound(view) /\ view.status = "open"
  BY DEF DriverInv, ViewSound, PongArrives
<1>2. view' \in Views /\ ViewSound(view)' /\ IsLinkOk(view') /\ view'.heard = 0
  BY <1>1, HeardFacts DEF PongArrives
<1>3. Drawn(driver, HeardNow) /\ LinkInv(HeardNow, view')
  BY <1>1, <1>2, HeardNowFacts, ViewAssumption
<1>4. DriverSound(HeardNow, view') /\ Continues(driver, HeardNow)
  BY <1>3, DrawnContinues DEF DriverInv, DriverSound, Drawn
<1>5. RelaySound(HeardNow, relay)
  BY <1>4, ContinuesRelay DEF DriverInv
<1> QED
  BY <1>2, <1>4, <1>5 DEF DriverInv, PongArrives

--------------------------------------------------------------------------------
(* The steps of the relay and of the spotter behind it.                        *)

\* A step of the relay: the driver's app and its view stay.
LEMMA RelayStep ==
  ASSUME DriverInv, UNCHANGED <<driver, view>>, RelaySound(driver, relay')
  PROVE  DriverInv'
BY DEF DriverInv

LEMMA SocketDiesStep ==
  ASSUME DriverInv, SocketDies
  PROVE  DriverInv'
<1> DEFINE gone == NoSocket(relay)
           yes == TRUE
           q == [gone EXCEPT !.dead = yes]
<1>1. RelaySound(driver, gone)
  BY NoSocketFacts DEF DriverInv, RelaySound, Relays
<1>2. gone.frames = <<>> /\ yes \in BOOLEAN
  BY DEF NoSocket, DriverInv, RelaySound, Relays
<1>3. relay' = q
  BY DEF SocketDies
<1> HIDE DEF gone, yes
<1>4. q \in Relays /\ q.msgs = gone.msgs /\ q.last = gone.last /\ q.frames = <<>>
  BY <1>1, <1>2 DEF RelaySound, Relays
<1> HIDE DEF q
<1>5. RelaySound(driver, q)
  BY <1>1, <1>4, NoFramesOrder DEF RelaySound
<1> QED
  BY <1>3, <1>5, RelayStep DEF SocketDies

LEMMA RelayJoinsStep ==
  ASSUME DriverInv, RelayJoins
  PROVE  DriverInv'
<1> DEFINE replay == <<StateFrame(relay.msgs[relay.room])>>
           yes == TRUE
           one == [relay EXCEPT !.joined = yes]
           q == [one EXCEPT !.frames = replay]
<1>1. relay \in Relays /\ yes \in BOOLEAN
  BY DEF DriverInv, RelaySound
<1>2. StateFrame(relay.msgs[relay.room]) \in Frames
  BY <1>1 DEF StateFrame, Frames, Relays
<1>3. replay \in Seq(Frames) /\ replay = <<StateFrame(relay.msgs[relay.room])>>
  BY <1>2
<1>4. relay' = q
  BY <1>1 DEF RelayJoins, Relays
<1> HIDE DEF replay, yes
<1>5. one \in Relays /\ SameRooms(relay, one)
  BY <1>1 DEF Relays, SameRooms
<1> HIDE DEF one
<1>6. q \in Relays /\ SameRooms(relay, q) /\ q.frames = replay
  BY <1>3, <1>5 DEF Relays, SameRooms
<1> HIDE DEF q
<1>7. RelaySound(driver, q)
  BY <1>1, <1>3, <1>6, ReplayOrder DEF DriverInv, RelaySound
<1> QED
  BY <1>4, <1>7, RelayStep DEF RelayJoins

LEMMA RelayRefusesStep ==
  ASSUME DriverInv, RelayRefuses
  PROVE  DriverInv'
<1> DEFINE more == Append(relay.frames, ErrorFrame)
           no == FALSE
           yes == TRUE
           one == [relay EXCEPT !.joined = no]
           two == [one EXCEPT !.closing = yes]
           q == [two EXCEPT !.frames = more]
<1>1. relay \in Relays /\ yes \in BOOLEAN /\ no \in BOOLEAN
  BY DEF DriverInv, RelaySound
<1>2. more \in Seq(Frames) /\ more = Append(relay.frames, ErrorFrame)
  BY <1>1 DEF Relays, ErrorFrame, Frames
<1>3. relay' = q
  BY <1>1 DEF RelayRefuses, Relays
<1> HIDE DEF more, yes, no
<1>4. one \in Relays /\ SameRooms(relay, one)
  BY <1>1 DEF Relays, SameRooms
<1> HIDE DEF one
<1>5. two \in Relays /\ SameRooms(relay, two)
  BY <1>1, <1>4 DEF Relays, SameRooms
<1> HIDE DEF two
<1>6. q \in Relays /\ SameRooms(relay, q) /\ q.frames = more
  BY <1>2, <1>5 DEF Relays, SameRooms
<1> HIDE DEF q
<1>7. RelaySound(driver, q)
  BY <1>1, <1>2, <1>6, ErrorOrder DEF DriverInv, RelaySound
<1> QED
  BY <1>3, <1>7, RelayStep DEF RelayRefuses

\* What broadcast writes.
RoomTold(r, msg, last, frames) ==
  [[[r EXCEPT !.msgs = [r.msgs EXCEPT ![r.room] = msg]] EXCEPT !.last = last]
     EXCEPT !.frames = frames]

LEMMA ToldRoom ==
  ASSUME NEW r \in Relays, NEW msg \in Messages \union {Null}, NEW last \in 0 .. MaxMessages,
         NEW frames, frames = r.frames \/ frames = Append(r.frames, StateFrame(msg))
  PROVE  LET q == RoomTold(r, msg, last, frames)
         IN  /\ q \in Relays /\ q.msgs = [r.msgs EXCEPT ![r.room] = msg]
             /\ q.room = r.room /\ q.last = last /\ q.frames = frames
<1> DEFINE msgs == [r.msgs EXCEPT ![r.room] = msg]
           one == [r EXCEPT !.msgs = msgs]
           two == [one EXCEPT !.last = last]
           q == [two EXCEPT !.frames = frames]
<1>1. StateFrame(msg) \in Frames
  BY DEF StateFrame, Frames
<1>2. frames \in Seq(Frames)
  BY <1>1 DEF Relays
<1>3. msgs \in [RoomCodes -> Messages \union {Null}]
  BY DEF Relays
<1>4. RoomTold(r, msg, last, frames) = q
  BY DEF RoomTold
<1>5. msgs = [r.msgs EXCEPT ![r.room] = msg]
  OBVIOUS
<1> HIDE DEF msgs
<1>6. one \in Relays /\ one.msgs = msgs /\ one.room = r.room
  BY <1>3 DEF Relays
<1> HIDE DEF one
<1>7. two \in Relays /\ two.msgs = msgs /\ two.room = r.room /\ two.last = last
  BY <1>6 DEF Relays
<1> HIDE DEF two
<1>8. /\ q \in Relays /\ q.msgs = msgs /\ q.room = r.room /\ q.last = last
      /\ q.frames = frames
  BY <1>2, <1>7 DEF Relays
<1> QED
  BY <1>4, <1>5, <1>8

LEMMA BroadcastFacts ==
  ASSUME NEW msg \in Messages \union {Null}, NEW last \in 0 .. MaxMessages,
         relay \in Relays, Broadcast(msg, last)
  PROVE  /\ relay' \in Relays /\ relay'.msgs = [relay.msgs EXCEPT ![relay.room] = msg]
         /\ relay'.room = relay.room /\ relay'.last = last
         /\ \/ relay'.frames = relay.frames
            \/ relay'.frames = Append(relay.frames, StateFrame(msg))
<1> DEFINE frames == IF Present THEN Append(relay.frames, StateFrame(msg)) ELSE relay.frames
<1>1. relay' = RoomTold(relay, msg, last, frames)
  BY DEF Broadcast, Relays, RoomTold
<1>2. frames = relay.frames \/ frames = Append(relay.frames, StateFrame(msg))
  OBVIOUS
<1> HIDE DEF frames
<1> DEFINE q == RoomTold(relay, msg, last, frames)
<1>3. /\ q \in Relays /\ q.msgs = [relay.msgs EXCEPT ![relay.room] = msg]
      /\ q.room = relay.room /\ q.last = last /\ q.frames = frames
  BY SMTT(60), <1>2, ToldRoom
<1> HIDE DEF q
<1>4. relay' = q
  BY <1>1 DEF q
<1> QED
  BY <1>2, <1>3, <1>4

LEMMA BroadcastStep ==
  ASSUME DriverInv, NEW msg \in Messages \union {Null}, Broadcast(msg, relay.last),
         \A i : Live(msg, i) => Live(relay.msgs[relay.room], i)
  PROVE  DriverInv'
<1>1. relay \in Relays /\ OrderInv(driver, relay)
  BY DEF DriverInv, RelaySound
<1>2. relay.last \in 0 .. MaxMessages
  BY <1>1 DEF Relays
<1>3. /\ relay' \in Relays /\ relay'.msgs = [relay.msgs EXCEPT ![relay.room] = msg]
      /\ relay'.room = relay.room /\ relay'.last = relay.last
      /\ \/ relay'.frames = relay.frames
         \/ relay'.frames = Append(relay.frames, StateFrame(msg))
  BY <1>1, <1>2, BroadcastFacts
<1>4. OrderInv(driver, relay')
  BY <1>1, <1>3, BroadcastOrder
<1> QED
  BY <1>3, <1>4, RelayStep DEF Broadcast, RelaySound

LEMMA RoomChangesStep ==
  ASSUME DriverInv, RoomChanges
  PROVE  DriverInv'
<1>1. relay.msgs[relay.room] \in Messages \union {Null}
  BY DEF DriverInv, RelaySound, Relays
<1>2. \A i : ~Live(Null, i)
  BY DEF Live
<1>3. CASE Broadcast(Null, relay.last)
  BY <1>2, <1>3, BroadcastStep
<1>4. CASE Broadcast(relay.msgs[relay.room], relay.last)
  BY <1>1, <1>4, BroadcastStep
<1> QED
  BY <1>3, <1>4 DEF RoomChanges

LEMMA AckArrivesStep ==
  ASSUME DriverInv, AckArrives
  PROVE  DriverInv'
<1> DEFINE of == relay.msgs[relay.room]
           msg == [of EXCEPT !.acked = TRUE]
<1>1. of \in Messages
  BY DEF DriverInv, RelaySound, Relays, AckArrives
<1>2. msg \in Messages /\ msg.acked
  BY <1>1 DEF Messages
<1>3. Broadcast(msg, relay.last)
  BY DEF AckArrives
<1> HIDE DEF msg
<1>4. \A i : ~Live(msg, i)
  BY <1>2 DEF Live
<1> QED
  BY <1>2, <1>3, <1>4, BroadcastStep

LEMMA NewMessageStep ==
  ASSUME DriverInv, NewMessage
  PROVE  DriverInv'
<1> DEFINE n == relay.last + 1
           id == [room |-> relay.room, n |-> n]
           msg == [id |-> id, acked |-> FALSE]
<1>1. relay \in Relays /\ OrderInv(driver, relay) /\ relay.last < MaxMessages
  BY DEF DriverInv, RelaySound, NewMessage
<1>2. n \in 1 .. MaxMessages /\ n \in 0 .. MaxMessages
  BY <1>1, DriverAssumption DEF Relays
<1>3. id \in Ids /\ id.room = relay.room /\ id.n = n
  BY <1>1, <1>2 DEF Relays, Ids
<1>4. Broadcast(msg, n)
  BY DEF NewMessage
<1> HIDE DEF id
<1>5. msg \in Messages /\ msg.id = id
  BY <1>3 DEF Messages
<1> HIDE DEF msg
<1>6. /\ relay' \in Relays /\ relay'.msgs = [relay.msgs EXCEPT ![relay.room] = msg]
      /\ relay'.room = relay.room /\ relay'.last = n
      /\ \/ relay'.frames = relay.frames
         \/ relay'.frames = Append(relay.frames, StateFrame(msg))
  BY <1>1, <1>2, <1>4, <1>5, BroadcastFacts
<1>7. OrderInv(driver, relay')
  BY <1>1, <1>3, <1>5, <1>6, NewOrder
<1> QED
  BY <1>4, <1>6, <1>7, RelayStep DEF Broadcast, RelaySound

--------------------------------------------------------------------------------
(* The steps of the app's timers.                                              *)

LEMMA AppStep ==
  ASSUME DriverInv, UNCHANGED <<relay, view>>,
         DriverSound(driver', view), Continues(driver, driver')
  PROVE  DriverInv'
BY ContinuesRelay DEF DriverInv

LEMMA AppDraws ==
  ASSUME DriverInv, UNCHANGED <<relay, view>>, Drawn(driver, driver')
  PROVE  DriverInv'
BY DrawnSound, DrawnContinues, AppStep DEF DriverInv, DriverSound

LEMMA LinkCheckStep ==
  ASSUME DriverInv, LinkCheck
  PROVE  DriverInv'
<1> DEFINE d == driver
           armed == [d EXCEPT !.check = LINK_CHECK_MS]
           checked == Check(armed, view, TRUE)
<1>1. Fit(d) /\ LinkInv(d, view) /\ MessageInv(d) /\ d.check = 0
  BY DEF DriverInv, DriverSound, LinkCheck
<1>2. driver' = SyncBlink(checked)
  BY DEF LinkCheck
<1>3. LINK_CHECK_MS \in 0 .. LINK_CHECK_MS
  BY DriverAssumption
<1>4. Fit(armed) /\ SameMessage(d, armed) /\ armed.check = LINK_CHECK_MS
      /\ armed.linkOk = d.linkOk /\ armed.lag = d.lag /\ armed.lastHud = d.lastHud
  BY <1>1, <1>3 DEF Fit, Drivers, BlinkRuns, SameMessage
<1> HIDE DEF d, armed
<1>5. Fit(checked) /\ SameMessage(armed, checked) /\ checked.linkOk = IsLinkOk(view)
      /\ checked.check = LINK_CHECK_MS /\ (checked.lag = d.lag \/ checked.lag = 0)
      /\ Linked(checked)
  <2>1. Linked(armed)
    BY <1>1, <1>4 DEF LinkInv, Watched, Linked
  <2> QED
    BY <1>4, <2>1, CheckFacts
<1> HIDE DEF checked
<1>6. checked.lag = 0
  <2>1. d.lag > 0 => ~checked.linkOk
    BY <1>1, <1>5 DEF LinkInv, Watched
  <2>2. d.lag \in Nat
    BY <1>1, DriverAssumption DEF Fit, Drivers
  <2> QED
    BY <1>5, <2>1, <2>2 DEF Linked
<1>7. LinkInv(checked, view)
  <2>1. Watched(checked, view)
    BY <1>5, <1>6, DriverAssumption DEF Watched
  <2>2. checked.linkOk => view.heard # Null
    BY <1>5 DEF IsLinkOk
  <2> QED
    BY <2>1, <2>2 DEF LinkInv
<1>8. Drawn(checked, driver')
  BY <1>2, <1>5, SyncBlinkFacts
<1>9. LinkInv(driver', view) /\ Fit(driver')
  BY <1>5, <1>7, <1>8, DrawnLink DEF Drawn
<1>10. SameMessage(d, driver')
  BY <1>4, <1>5, <1>8 DEF Drawn, SameMessage
<1>11. MessageInv(driver') /\ Continues(d, driver')
  BY <1>1, <1>10, DrawnMessage DEF MessageInv, Continues, SameMessage
<1> QED
  BY <1>9, <1>11, AppStep DEF DriverSound, LinkCheck, d

LEMMA TickBlinkStep ==
  ASSUME DriverInv, TickBlink
  PROVE  DriverInv'
<1> DEFINE d == driver
           on == ~d.blinkOn
           one == [d EXCEPT !.blinkTimer = STATUS_BLINK_MS]
           two == [one EXCEPT !.blinkOn = on]
<1>1. Fit(d)
  BY DEF DriverInv, DriverSound
<1>2. driver' = Render(two)
  BY <1>1 DEF TickBlink, Fit, Drivers
<1>3. on \in BOOLEAN /\ STATUS_BLINK_MS \in 0 .. STATUS_BLINK_MS
  BY DriverAssumption
<1> HIDE DEF on, d
<1>4. Drawn(d, one)
  BY <1>1, <1>3 DEF Drawn, Fit, Drivers, BlinkRuns, SameMessage, SameLink, Linked
<1> HIDE DEF one
<1>5. Drawn(one, two)
  BY <1>3, <1>4 DEF Drawn, Fit, Drivers, BlinkRuns, SameMessage, SameLink, Linked
<1> HIDE DEF two
<1>6. Drawn(d, driver')
  BY <1>2, <1>4, <1>5, DrawnTwice, DrawnAfter
<1> QED
  BY <1>6, AppDraws DEF TickBlink, d

LEMMA BlinkPhaseStep ==
  ASSUME DriverInv, BlinkPhase
  PROVE  DriverInv'
<1> DEFINE d == driver
           phase == d.blink.phase + 1
           next == SetMessageVisible(d, d.blink.id, phase % 2 = 0, TRUE)
           in == IF phase < Phases - 1 THEN MSG_BLINK_MS ELSE Null
           blink == [id |-> d.blink.id, phase |-> phase, in |-> in]
           one == [next EXCEPT !.blink = blink]
<1>1. Fit(d) /\ d.blink # Null /\ d.blink.in = 0
  BY DEF DriverInv, DriverSound, BlinkPhase
<1>2. d.blink \in Blinks
  BY <1>1 DEF Fit, Drivers
<1>3. /\ d.blink.id \in Ids0 /\ d.blink.id \in Ids /\ d.blink.phase \in 0 .. Phases - 1
      /\ d.blink.phase < Phases - 1 /\ Phases \in Nat
  BY <1>1, <1>2, ViewAssumption, DriverAssumption DEF Blinks, Ids0, Fit, BlinkRuns
<1>4. phase \in 0 .. Phases - 1 /\ in \in 0 .. MSG_BLINK_MS \union {Null}
      /\ (in # Null => phase < Phases - 1)
  BY <1>3, DriverAssumption
<1>5. blink \in Blinks /\ (blink.in # Null => blink.phase < Phases - 1)
  BY <1>3, <1>4 DEF Blinks
<1>6. Drawn(d, next) /\ next.blink = d.blink
  <2>1. (phase % 2 = 0) \in BOOLEAN
    OBVIOUS
  <2> QED
    BY <1>1, <1>3, <2>1, SetMessageVisibleFacts
<1>7. driver' = one
  <2>1. next \in Drivers /\ next.blink \in Blinks
    BY <1>2, <1>6 DEF Drawn, Fit
  <2>2. driver' = [next EXCEPT !.blink.phase = phase, !.blink.in = in]
    BY DEF BlinkPhase
  <2> HIDE DEF next, phase, in, d
  <2> DEFINE mid == [next.blink EXCEPT !.phase = phase]
             late == [mid EXCEPT !.in = in]
  <2>3. late = blink
    <3>1. next.blink = [id |-> d.blink.id, phase |-> next.blink.phase, in |-> next.blink.in]
      BY <1>6, <2>1 DEF Blinks
    <3>2. mid = [id |-> d.blink.id, phase |-> phase, in |-> next.blink.in]
      BY <3>1
    <3> HIDE DEF mid
    <3> QED
      BY <3>2
  <2>4. driver' = [next EXCEPT !.blink = late]
    BY <2>1, <2>2 DEF Drivers
  <2> QED
    BY <2>3, <2>4
<1> HIDE DEF next, blink, d
<1>8. Drawn(next, one)
  BY <1>5, <1>6 DEF Drawn, Fit, Drivers, BlinkRuns, SameMessage, SameLink, Linked
<1>9. Drawn(d, driver')
  BY <1>6, <1>7, <1>8, DrawnTwice
<1> QED
  BY <1>9, AppDraws DEF BlinkPhase, d

LEMMA AckRetryStep ==
  ASSUME DriverInv, AckRetry
  PROVE  DriverInv'
<1> DEFINE d == driver
           no == FALSE
           fired == [d EXCEPT !.retryTimer = no]
<1>1. Fit(d) /\ no \in BOOLEAN
  BY DEF DriverInv, DriverSound
<1>2. driver' = IF d.pendingAck = Null THEN fired ELSE Ack(fired, view, d.pendingAck)
  BY DEF AckRetry
<1> HIDE DEF d, no
<1>3. Drawn(d, fired)
  BY <1>1 DEF Drawn, Fit, Drivers, BlinkRuns, SameMessage, SameLink, Linked
<1> HIDE DEF fired
<1>4. d.pendingAck # Null => d.pendingAck \in Ids
  BY <1>1 DEF Fit, Drivers, Ids0
<1>5. d.pendingAck # Null => Drawn(fired, Ack(fired, view, d.pendingAck))
  BY <1>3, <1>4, AckFacts DEF Drawn
<1>6. Drawn(d, driver')
  BY <1>2, <1>3, <1>5, DrawnTwice
<1> QED
  BY <1>6, AppDraws DEF AckRetry, d

\* The message is settled, hidden, and its ack is pending.
LEMMA MessageExpiresStep ==
  ASSUME DriverInv, MessageExpires
  PROVE  DriverInv'
<1> DEFINE d == driver
           id == d.msgTimer.id
           one == [d EXCEPT !.msgTimer = Null]
           settled == [one EXCEPT !.settled = id]
           still == CancelBlink(settled)
           hides == [still EXCEPT !.hidden = id]
           off == HideMessage(still, id)
           pending == [off EXCEPT !.pendingAck = id]
<1>1. Fit(d) /\ LinkInv(d, view) /\ OnScreen(d) /\ d.msgTimer # Null
  BY DEF DriverInv, DriverSound, MessageInv, MessageExpires
<1>2. d.msgTimer \in Clears
  BY <1>1 DEF Fit, Drivers
<1>3. id \in Ids /\ id \in Ids0 /\ UnackedMessageId(d) = id
  BY <1>1, <1>2 DEF Clears, Ids0, OnScreen, Clear
<1>4. Shows(d, id)
  BY <1>1, <1>3, UnackedType DEF Fit
<1>5. driver' = Ack(pending, view, id)
  <2>1. [d EXCEPT !.msgTimer = Null, !.settled = id] = settled
    BY <1>1 DEF Fit, Drivers
  <2> QED
    BY <1>3, <2>1 DEF MessageExpires
<1> HIDE DEF id, d
<1>6. /\ Fit(one) /\ SameLink(d, one)
      /\ one.state = d.state /\ one.hidden = d.hidden /\ one.shown = d.shown
      /\ one.told = d.told /\ one.pendingAck = d.pendingAck /\ one.msgTimer = Null
      /\ one.from = d.from
  BY <1>1 DEF SameLink, Linked, Fit, Drivers, BlinkRuns
<1> HIDE DEF one
<1>7. /\ Fit(settled) /\ SameLink(one, settled)
      /\ settled.state = d.state /\ settled.hidden = d.hidden /\ settled.shown = d.shown
      /\ settled.told = d.told /\ settled.pendingAck = d.pendingAck
      /\ settled.msgTimer = Null /\ settled.from = d.from
  BY <1>3, <1>6 DEF SameLink, Linked, Fit, Drivers, BlinkRuns
<1> HIDE DEF settled
<1>8. Drawn(settled, still)
  BY <1>7, CancelBlinkFacts
<1> HIDE DEF still
<1>9. Fit(hides) /\ Drawn(hides, off)
  BY <1>3, <1>8, HideFacts DEF Drawn
<1>10. /\ SameLink(still, hides)
       /\ hides.state = d.state /\ hides.hidden = id /\ hides.shown = d.shown
       /\ hides.told = d.told /\ hides.msgTimer = Null /\ hides.from = d.from
  BY <1>7, <1>8 DEF SameLink, Linked, Drawn, SameMessage, Fit, Drivers
<1> HIDE DEF hides, off
<1>11. /\ SameLink(off, pending) /\ Fit(pending)
       /\ pending.state = d.state /\ pending.hidden = id /\ pending.shown = d.shown
       /\ pending.told = d.told /\ pending.msgTimer = Null /\ pending.pendingAck = id
       /\ pending.from = d.from
  BY <1>3, <1>9, <1>10 DEF SameLink, Linked, Drawn, SameMessage, Fit, Drivers, BlinkRuns
<1> HIDE DEF pending
<1>12. Drawn(pending, driver')
  BY <1>3, <1>5, <1>11, AckFacts
<1>13. SameLink(d, driver')
  BY <1>6, <1>7, <1>8, <1>9, <1>10, <1>11, <1>12 DEF Drawn, SameLink
<1> DEFINE e == driver'
<1>14. /\ Fit(e) /\ e.state = d.state /\ e.hidden = id /\ e.shown = d.shown
       /\ e.told = d.told /\ e.msgTimer = Null /\ e.pendingAck = id
       /\ e.from = d.from
  BY <1>11, <1>12 DEF Drawn, SameMessage
<1> HIDE DEF e
<1>15. \A i : Shows(e, i) <=> Shows(d, i)
  BY <1>14 DEF Shows
<1>16. UnackedMessageId(e) = Null
  <2>1. UnackedMessageId(e) # id
    BY <1>3, <1>14, UnackedType DEF Fit
  <2>2. ASSUME NEW i \in Ids, UnackedMessageId(e) = i
        PROVE  i = id
    BY <1>4, <1>14, <1>15, <2>2, UnackedType DEF Fit, Shows, Live
  <2>3. UnackedMessageId(e) \in Ids0
    BY <1>14, UnackedType DEF Fit
  <2> QED
    BY <2>1, <2>2, <2>3 DEF Ids0
<1>17. OnScreen(e)
  BY <1>1, <1>14, <1>15, <1>16 DEF OnScreen
<1>18. HiddenPends(e)
  BY <1>14 DEF HiddenPends
<1>19. LinkInv(e, view)
  BY <1>1, <1>13, <1>14, SameLinkInv DEF e
<1>20. Continues(d, e)
  BY <1>4, <1>14, <1>15 DEF Continues
<1> QED
  BY <1>14, <1>17, <1>18, <1>19, <1>20, AppStep DEF DriverSound, MessageInv, MessageExpires, d, e

LEMMA TapStep ==
  ASSUME DriverInv, Tap
  PROVE  DriverInv'
<1> DEFINE d == driver
           id == UnackedMessageId(d)
           one == [d EXCEPT !.ackGuard = id]
           two == [one EXCEPT !.settled = id]
           tapped == [two EXCEPT !.msgTimer = Null]
<1>1. Fit(d) /\ LinkInv(d, view) /\ MessageInv(d) /\ id # Null
  BY DEF DriverInv, DriverSound, Tap
<1>2. id \in Ids /\ id \in Ids0
  BY <1>1, UnackedType DEF Fit, Ids0
<1>3. driver' = Ack(tapped, view, id)
  BY <1>1 DEF Tap, Fit, Drivers
<1> HIDE DEF id, d
<1>4. Drawn(d, one)
  BY <1>1, <1>2 DEF Drawn, Fit, Drivers, BlinkRuns, SameMessage, SameLink, Linked
<1> HIDE DEF one
<1>5. /\ Fit(two) /\ SameLink(one, two)
      /\ two.state = d.state /\ two.hidden = d.hidden /\ two.shown = d.shown
      /\ two.told = d.told /\ two.pendingAck = d.pendingAck /\ two.settled = id
      /\ two.from = d.from
  BY <1>2, <1>4 DEF Drawn, SameMessage, SameLink, Linked, Fit, Drivers, BlinkRuns
<1> HIDE DEF two
<1>6. /\ Fit(tapped) /\ SameLink(two, tapped)
      /\ tapped.state = d.state /\ tapped.hidden = d.hidden /\ tapped.shown = d.shown
      /\ tapped.told = d.told /\ tapped.pendingAck = d.pendingAck
      /\ tapped.settled = id /\ tapped.msgTimer = Null /\ tapped.from = d.from
  BY <1>5 DEF SameLink, Linked, Fit, Drivers, BlinkRuns
<1> HIDE DEF tapped
<1>7. SameLink(d, tapped)
  BY <1>4, <1>5, <1>6 DEF Drawn, SameLink
<1>8. UnackedMessageId(tapped) = id /\ \A i : Shows(tapped, i) <=> Shows(d, i)
  BY <1>6 DEF UnackedMessageId, Shows, id
<1>9. OnScreen(tapped)
  BY <1>1, <1>6, <1>8 DEF OnScreen, MessageInv, id
<1>10. HiddenPends(tapped)
  BY <1>1, <1>6, <1>8 DEF HiddenPends, MessageInv
<1>11. Continues(d, tapped) /\ LinkInv(tapped, view)
  BY <1>1, <1>6, <1>7, SameLinkInv DEF Continues
<1>12. Drawn(tapped, driver')
  BY <1>2, <1>3, <1>6, AckFacts
<1>13. LinkInv(driver', view) /\ MessageInv(driver') /\ Continues(tapped, driver')
  BY <1>6, <1>9, <1>10, <1>11, <1>12, DrawnLink, DrawnContinues DEF MessageInv
<1>14. Continues(d, driver')
  BY <1>6, <1>12, <1>13 DEF Continues, Drawn, SameMessage
<1> QED
  BY <1>12, <1>13, <1>14, AppStep DEF DriverSound, Drawn, Tap, d

LEMMA EnterForegroundStep ==
  ASSUME DriverInv, EnterForeground
  PROVE  DriverInv'
<1> DEFINE entered == [driver EXCEPT !.foreground = 0]
<1>1. Fit(driver)
  BY DEF DriverInv, DriverSound
<1>2. Drawn(driver, entered)
  BY <1>1, DriverAssumption
     DEF Drawn, Fit, Drivers, BlinkRuns, SameMessage, SameLink, Linked
<1>3. CASE Connects(entered, relay.room)
  <2> HIDE DEF entered
  <2>1. DriverSound(entered, view) /\ RelaySound(entered, relay)
    BY <1>2, DrawnSound DEF DriverInv
  <2>2. relay.room \in RoomCodes
    BY DEF DriverInv, RelaySound, Relays
  <2> QED
    BY <1>3, <2>1, <2>2, DisconnectedStep DEF Connects
<1>4. CASE driver' = Render(entered) /\ UNCHANGED <<relay, view>>
  <2> HIDE DEF entered
  <2> QED
    BY <1>2, <1>4, DrawnAfter, AppDraws
<1> QED
  BY <1>3, <1>4 DEF EnterForeground

LEMMA SaveSettingsStep ==
  ASSUME DriverInv, SaveSettings
  PROVE  DriverInv'
<1>1. PICK code \in RoomCodes \union {Null} :
        LET saved == Render([driver EXCEPT !.hasRoom = code # Null])
        IN  \/ code # Null /\ Connects(saved, code)
            \/ driver' = saved /\ UNCHANGED <<relay, view>>
  BY DEF SaveSettings
<1> DEFINE valid == code # Null
           one == [driver EXCEPT !.hasRoom = valid]
           saved == Render(one)
<1>2. Fit(driver)
  BY DEF DriverInv, DriverSound
<1>9. valid \in BOOLEAN
  OBVIOUS
<1>10. \/ code \in RoomCodes /\ Connects(saved, code)
       \/ driver' = saved /\ UNCHANGED <<relay, view>>
  BY <1>1
<1> HIDE DEF valid
<1>3. Drawn(driver, one)
  BY <1>2, <1>9 DEF Drawn, Fit, Drivers, BlinkRuns, SameMessage, SameLink, Linked
<1> HIDE DEF one
<1>4. Drawn(driver, saved)
  BY <1>3, DrawnAfter
<1>5. DriverSound(saved, view) /\ RelaySound(saved, relay)
  BY <1>4, DrawnSound DEF DriverInv
<1> HIDE DEF saved
<1>7. CASE code \in RoomCodes /\ Connects(saved, code)
  BY <1>5, <1>7, DisconnectedStep DEF Connects
<1>8. CASE driver' = saved /\ UNCHANGED <<relay, view>>
  BY <1>4, <1>8, AppDraws
<1> QED
  BY <1>7, <1>8, <1>10

--------------------------------------------------------------------------------
(* The clock.                                                                  *)

LEMMA OlderFacts ==
  ASSUME NEW max \in Nat, NEW age \in 0 .. max
  PROVE  /\ Capped(age, max) \in 0 .. max
         /\ Capped(age, max) = IF age < max THEN age + 1 ELSE max
BY DEF Capped

\* What a tick makes of the timers and ages.
LEMMA TickFields ==
  ASSUME DriverInv, Tick
  PROVE  LET d == driver
             e == driver'
         IN  /\ Fit(e)
             /\ e.state = d.state /\ e.hidden = d.hidden /\ e.from = d.from
             /\ e.settled = d.settled /\ e.pendingAck = d.pendingAck
             /\ e.linkOk = d.linkOk /\ e.lastHud = d.lastHud
             /\ d.check > 0 /\ e.check = d.check - 1
             /\ e.lag = IF d.lastHud.linkOk /\ ~IsLinkOk(view')
                        THEN Capped(d.lag, LINK_CHECK_MS + 1) ELSE 0
             /\ e.msgTimer = In(d.msgTimer)
             /\ e.shown = OlderBy(d.shown, MSG_AUTO_ACK_MS)
             /\ e.told = OlderBy(d.told, MSG_AUTO_ACK_MS)
<1> DEFINE d == driver
           check == Down(d.check)
           blinkTimer == Down(d.blinkTimer)
           msgTimer == In(d.msgTimer)
           blink == In(d.blink)
           foreground == Capped(d.foreground, FOREGROUND_DEBOUNCE_MS)
           shown == OlderBy(d.shown, MSG_AUTO_ACK_MS)
           told == OlderBy(d.told, MSG_AUTO_ACK_MS)
           lag == IF d.lastHud.linkOk /\ ~IsLinkOk(view')
                  THEN Capped(d.lag, LINK_CHECK_MS + 1) ELSE 0
           e1 == [d EXCEPT !.check = check]
           e2 == [e1 EXCEPT !.blinkTimer = blinkTimer]
           e3 == [e2 EXCEPT !.msgTimer = msgTimer]
           e4 == [e3 EXCEPT !.blink = blink]
           e5 == [e4 EXCEPT !.foreground = foreground]
           e6 == [e5 EXCEPT !.shown = shown]
           e7 == [e6 EXCEPT !.told = told]
           e8 == [e7 EXCEPT !.lag = lag]
<1>1. Fit(d) /\ ~Due
  BY DEF DriverInv, DriverSound, Tick
<1>2. driver' = e8
  BY <1>1 DEF Tick, Fit, Drivers
<1>3. /\ LINK_CHECK_MS \in Nat /\ STATUS_BLINK_MS \in Nat /\ MSG_AUTO_ACK_MS \in Nat
      /\ MSG_BLINK_MS \in Nat /\ FOREGROUND_DEBOUNCE_MS \in Nat /\ Null \notin Nat
  BY ViewAssumption, DriverAssumption
<1>4. check \in 0 .. LINK_CHECK_MS /\ check = d.check - 1 /\ d.check > 0
  BY <1>1, <1>3 DEF Down, Due, Fit, Drivers
<1>5. blinkTimer \in 0 .. STATUS_BLINK_MS \union {Null}
  BY <1>1, <1>3 DEF Down, Due, Fit, Drivers
<1>6. msgTimer \in Clears \union {Null}
  <2>1. ASSUME d.msgTimer # Null
        PROVE  msgTimer \in Clears
    <3>1. d.msgTimer \in Clears /\ d.msgTimer.in # 0
      BY <1>1, <2>1 DEF Fit, Drivers, Due
    <3>2. Down(d.msgTimer.in) \in 0 .. MSG_AUTO_ACK_MS
      BY <1>3, <3>1 DEF Clears, Down
    <3>3. msgTimer = [d.msgTimer EXCEPT !.in = Down(d.msgTimer.in)]
      BY <2>1, <3>1 DEF In, Clears
    <3> QED
      BY <3>1, <3>2, <3>3 DEF Clears
  <2> QED
    BY <2>1 DEF In
<1>7. blink \in Blinks \union {Null} /\ (blink # Null /\ blink.in # Null => blink.phase < Phases - 1)
  <2>1. ASSUME d.blink # Null
        PROVE  blink \in Blinks /\ (blink.in # Null => blink.phase < Phases - 1)
    <3> DEFINE in == Down(d.blink.in)
    <3>1. d.blink \in Blinks /\ d.blink.in # 0
      BY <1>1, <2>1 DEF Fit, Drivers, Due
    <3>2. in \in 0 .. MSG_BLINK_MS \union {Null} /\ (in # Null => d.blink.in # Null)
      BY <1>3, <3>1 DEF Blinks, Down
    <3>3. blink = [d.blink EXCEPT !.in = in]
      BY <2>1, <3>1 DEF In, Blinks
    <3> HIDE DEF in, blink
    <3>4. blink \in Blinks /\ blink.in = in /\ blink.phase = d.blink.phase
      BY <3>1, <3>2, <3>3 DEF Blinks
    <3> QED
      BY <1>1, <2>1, <3>2, <3>4 DEF Fit, BlinkRuns
  <2> QED
    BY <2>1 DEF In
<1>8. foreground \in 0 .. FOREGROUND_DEBOUNCE_MS
  BY <1>1, <1>3, OlderFacts DEF Fit, Drivers
<1>9. shown \in Showns \union {Null}
  <2>1. ASSUME d.shown # Null
        PROVE  shown \in Showns
    <3>1. d.shown \in Showns
      BY <1>1, <2>1 DEF Fit, Drivers
    <3>2. Capped(d.shown.age, MSG_AUTO_ACK_MS) \in 0 .. MSG_AUTO_ACK_MS
      BY <1>3, <3>1, OlderFacts DEF Showns
    <3>3. shown = [d.shown EXCEPT !.age = Capped(d.shown.age, MSG_AUTO_ACK_MS)]
      BY <2>1, <3>1 DEF OlderBy, Showns
    <3> QED
      BY <3>1, <3>2, <3>3 DEF Showns
  <2> QED
    BY <2>1 DEF OlderBy
<1>10. told \in Tolds \union {Null}
  <2>1. ASSUME d.told # Null
        PROVE  told \in Tolds
    <3>1. d.told \in Tolds
      BY <1>1, <2>1 DEF Fit, Drivers
    <3>2. Capped(d.told.age, MSG_AUTO_ACK_MS) \in 0 .. MSG_AUTO_ACK_MS
      BY <1>3, <3>1, OlderFacts DEF Tolds
    <3>3. told = [d.told EXCEPT !.age = Capped(d.told.age, MSG_AUTO_ACK_MS)]
      BY <2>1, <3>1 DEF OlderBy, Tolds
    <3> QED
      BY <3>1, <3>2, <3>3 DEF Tolds
  <2> QED
    BY <2>1 DEF OlderBy
<1>11. lag \in 0 .. LINK_CHECK_MS + 1
  <2>1. d.lag \in 0 .. LINK_CHECK_MS + 1
    BY <1>1 DEF Fit, Drivers
  <2> QED
    BY <1>3, <2>1, OlderFacts
<1> HIDE DEF check, blinkTimer, msgTimer, blink, foreground, shown, told, lag, d
<1>12. /\ e1 \in Drivers /\ e1.check = check /\ e1.blink = d.blink
       /\ SameMessage(d, e1) /\ e1.linkOk = d.linkOk /\ e1.lastHud = d.lastHud
  BY <1>1, <1>4 DEF Fit, Drivers, SameMessage
<1> HIDE DEF e1
<1>13. /\ e2 \in Drivers /\ e2.check = check /\ e2.blink = d.blink
       /\ SameMessage(e1, e2) /\ e2.linkOk = d.linkOk /\ e2.lastHud = d.lastHud
  BY <1>5, <1>12 DEF Drivers, SameMessage
<1> HIDE DEF e2
<1>14. /\ e3 \in Drivers /\ e3.check = check /\ e3.msgTimer = msgTimer
       /\ e3.linkOk = d.linkOk /\ e3.lastHud = d.lastHud
       /\ e3.state = d.state /\ e3.hidden = d.hidden /\ e3.from = d.from
       /\ e3.settled = d.settled /\ e3.pendingAck = d.pendingAck
  BY <1>6, <1>12, <1>13 DEF Drivers, SameMessage
<1> HIDE DEF e3
<1>15. /\ e4 \in Drivers /\ e4.check = check /\ e4.blink = blink
       /\ SameMessage(e3, e4) /\ e4.linkOk = d.linkOk /\ e4.lastHud = d.lastHud
  BY <1>7, <1>14 DEF Drivers, SameMessage
<1> HIDE DEF e4
<1>16. /\ e5 \in Drivers /\ e5.check = check /\ e5.blink = blink
       /\ SameMessage(e4, e5) /\ e5.linkOk = d.linkOk /\ e5.lastHud = d.lastHud
  BY <1>8, <1>15 DEF Drivers, SameMessage
<1> HIDE DEF e5
<1>17. /\ e6 \in Drivers /\ e6.check = check /\ e6.blink = blink /\ e6.shown = shown
       /\ e6.linkOk = d.linkOk /\ e6.lastHud = d.lastHud
       /\ e6.state = e5.state /\ e6.hidden = e5.hidden /\ e6.msgTimer = e5.msgTimer
       /\ e6.from = e5.from
       /\ e6.settled = e5.settled /\ e6.pendingAck = e5.pendingAck
  BY <1>9, <1>16 DEF Drivers, SameMessage
<1> HIDE DEF e6
<1>18. /\ e7 \in Drivers /\ e7.check = check /\ e7.blink = blink /\ e7.shown = shown
       /\ e7.told = told /\ e7.linkOk = d.linkOk /\ e7.lastHud = d.lastHud
       /\ e7.state = e6.state /\ e7.hidden = e6.hidden /\ e7.msgTimer = e6.msgTimer
       /\ e7.from = e6.from
       /\ e7.settled = e6.settled /\ e7.pendingAck = e6.pendingAck
  BY <1>10, <1>17 DEF Drivers
<1> HIDE DEF e7
<1>19. /\ e8 \in Drivers /\ e8.check = check /\ e8.blink = blink /\ e8.lag = lag
       /\ SameMessage(e7, e8) /\ e8.linkOk = d.linkOk /\ e8.lastHud = d.lastHud
  BY <1>11, <1>18 DEF Drivers, SameMessage
<1> HIDE DEF e8
<1>20. /\ e8.state = d.state /\ e8.hidden = d.hidden /\ e8.from = d.from
       /\ e8.settled = d.settled /\ e8.pendingAck = d.pendingAck
       /\ e8.msgTimer = msgTimer /\ e8.shown = shown /\ e8.told = told
  BY <1>12, <1>13, <1>14, <1>15, <1>16, <1>17, <1>18, <1>19 DEF SameMessage
<1>21. Fit(e8)
  BY <1>7, <1>19 DEF Fit, BlinkRuns
<1> QED
  BY <1>2, <1>4, <1>19, <1>20, <1>21 DEF check, msgTimer, shown, told, lag, d

LEMMA TickStep ==
  ASSUME DriverInv, Tick
  PROVE  DriverInv'
<1> DEFINE d == driver
           e == driver'
           id == UnackedMessageId(d)
<1>1. /\ Fit(d) /\ LinkInv(d, view) /\ OnScreen(d) /\ HiddenPends(d)
      /\ view \in Views /\ ViewSound(view) /\ RelaySound(d, relay)
      /\ ~Due /\ view' = Aged(view) /\ relay' = relay
  BY DEF DriverInv, DriverSound, MessageInv, Tick
<1>2. /\ view' \in Views /\ ViewSound(view)' /\ view'.status = view.status
      /\ view.heard # Null => view'.heard # Null
      /\ IsLinkOk(view') => IsLinkOk(view)
  BY <1>1, AgedFacts DEF ViewSound
<1>3. /\ Fit(e)
      /\ e.state = d.state /\ e.hidden = d.hidden /\ e.from = d.from
      /\ e.settled = d.settled /\ e.pendingAck = d.pendingAck
      /\ e.linkOk = d.linkOk /\ e.lastHud = d.lastHud
      /\ d.check > 0 /\ e.check = d.check - 1
      /\ e.lag = IF d.lastHud.linkOk /\ ~IsLinkOk(view')
                 THEN Capped(d.lag, LINK_CHECK_MS + 1) ELSE 0
      /\ e.msgTimer = In(d.msgTimer)
      /\ e.shown = OlderBy(d.shown, MSG_AUTO_ACK_MS)
      /\ e.told = OlderBy(d.told, MSG_AUTO_ACK_MS)
  BY TickFields
<1>4. d.msgTimer # Null => d.msgTimer.in # 0
  BY <1>1 DEF Due
<1> HIDE DEF d, e
<1>5. /\ MSG_AUTO_ACK_MS \in Nat /\ LINK_CHECK_MS \in Nat /\ Null \notin Nat
  BY ViewAssumption, DriverAssumption
<1>6. LinkInv(e, view')
  <2>1. d.lag \in 0 .. LINK_CHECK_MS + 1 /\ d.check \in 0 .. LINK_CHECK_MS
    BY <1>1 DEF Fit, Drivers
  <2>2. d.lag + d.check <= LINK_CHECK_MS /\ Linked(d)
    BY <1>1 DEF LinkInv, Watched
  <2>3. /\ e.lag \in Nat /\ e.lag <= d.lag + 1
        /\ e.lag > 0 => ~IsLinkOk(view') /\ e.linkOk
    BY SMTT(60), <1>3, <1>5, <2>1, <2>2, OlderFacts DEF Linked
  <2>4. Watched(e, view')
    <3>1. e.lag + e.check <= LINK_CHECK_MS
      BY <1>3, <1>5, <2>1, <2>2, <2>3
    <3>2. Linked(e)
      BY <1>3, <2>2, <2>3 DEF Linked
    <3> QED
      BY <2>3, <3>1, <3>2 DEF Watched
  <2> QED
    BY <1>1, <1>2, <1>3, <2>4 DEF LinkInv
<1>7. /\ UnackedMessageId(e) = id /\ \A i : Shows(e, i) <=> Shows(d, i)
  BY <1>3 DEF UnackedMessageId, Shows
<1>8. d.shown # Null =>
        /\ d.shown \in Showns /\ e.shown = [d.shown EXCEPT !.age = Capped(d.shown.age, MSG_AUTO_ACK_MS)]
  BY <1>1, <1>3 DEF Fit, Drivers, OlderBy, Showns
<1>9. d.shown # Null =>
        /\ e.shown # Null /\ e.shown.id = d.shown.id
        /\ e.shown.age = Capped(d.shown.age, MSG_AUTO_ACK_MS)
  <2> SUFFICES ASSUME d.shown # Null
               PROVE  /\ e.shown # Null /\ e.shown.id = d.shown.id
                      /\ e.shown.age = Capped(d.shown.age, MSG_AUTO_ACK_MS)
    OBVIOUS
  <2>1. Capped(d.shown.age, MSG_AUTO_ACK_MS) \in 0 .. MSG_AUTO_ACK_MS
    BY <1>5, <1>8, OlderFacts DEF Showns
  <2>2. e.shown \in Showns
    BY <1>8, <2>1 DEF Showns
  <2> QED
    BY <1>8, <2>2, NullAssumption DEF Showns
<1>10. d.told # Null =>
        /\ e.told # Null /\ e.told.id = d.told.id /\ d.told.age \in Nat
        /\ d.told.age <= MSG_AUTO_ACK_MS
        /\ e.told.age = Capped(d.told.age, MSG_AUTO_ACK_MS)
  <2> SUFFICES ASSUME d.told # Null
               PROVE  /\ e.told # Null /\ e.told.id = d.told.id /\ d.told.age \in Nat
                      /\ d.told.age <= MSG_AUTO_ACK_MS
                      /\ e.told.age = Capped(d.told.age, MSG_AUTO_ACK_MS)
    OBVIOUS
  <2>1. d.told \in Tolds /\ e.told = [d.told EXCEPT !.age = Capped(d.told.age, MSG_AUTO_ACK_MS)]
    BY <1>1, <1>3 DEF Fit, Drivers, OlderBy, Tolds
  <2>2. d.told.age \in 0 .. MSG_AUTO_ACK_MS
    BY <2>1 DEF Tolds
  <2>3. Capped(d.told.age, MSG_AUTO_ACK_MS) \in 0 .. MSG_AUTO_ACK_MS
    BY <1>5, <2>2, OlderFacts
  <2>4. e.told \in Tolds
    BY <2>1, <2>3 DEF Tolds
  <2> QED
    BY <1>5, <2>1, <2>2, <2>4, NullAssumption DEF Tolds
<1>11. d.shown = Null => e.shown = Null
  BY <1>3 DEF OlderBy
<1>12. d.told # Null => e.told # Null /\ e.told.id = d.told.id
  BY <1>10
<1>13. d.told = Null => e.told = Null
  BY <1>3 DEF OlderBy
<1>14. d.msgTimer = Null => e.msgTimer = Null
  BY <1>3 DEF In
<1>15. d.msgTimer # Null =>
         /\ d.shown # Null /\ d.shown.age \in Nat /\ d.shown.age < MSG_AUTO_ACK_MS
         /\ e.msgTimer = Clear(id, e.shown.age)
  <2> SUFFICES ASSUME d.msgTimer # Null
               PROVE  /\ d.shown # Null /\ d.shown.age \in Nat /\ d.shown.age < MSG_AUTO_ACK_MS
                      /\ e.msgTimer = Clear(id, e.shown.age)
    OBVIOUS
  <2>1. /\ id # Null /\ d.shown # Null /\ d.msgTimer = Clear(id, d.shown.age)
    BY <1>1 DEF OnScreen, id
  <2>2. d.shown.age \in 0 .. MSG_AUTO_ACK_MS
    BY <1>8, <2>1 DEF Showns
  <2>3. d.msgTimer.in = MSG_AUTO_ACK_MS - d.shown.age
    BY <2>1 DEF Clear
  <2>4. d.shown.age < MSG_AUTO_ACK_MS
    BY <1>4, <1>5, <2>2, <2>3
  <2>5. e.shown.age = d.shown.age + 1
    BY <1>9, <2>1, <2>4 DEF Capped
  <2>6. e.msgTimer = [id |-> id, in |-> Down(d.msgTimer.in)]
    BY <1>3, <2>1 DEF In, Clear
  <2>7. Down(d.msgTimer.in) = MSG_AUTO_ACK_MS - e.shown.age
    BY <1>5, <2>2, <2>3, <2>5 DEF Down
  <2> QED
    BY <2>1, <2>2, <2>4, <2>6, <2>7 DEF Clear
<1>16. OnScreen(e)
  <2>1. id # Null =>
          /\ e.shown # Null /\ e.shown.id = id
          /\ e.told # Null /\ e.told.id = id
          /\ e.shown.age = Younger(e.told.age)
          /\ e.settled = id \/ e.msgTimer = Clear(id, e.shown.age)
    <3> SUFFICES ASSUME id # Null
                 PROVE  /\ e.shown # Null /\ e.shown.id = id
                        /\ e.told # Null /\ e.told.id = id
                        /\ e.shown.age = Younger(e.told.age)
                        /\ e.settled = id \/ e.msgTimer = Clear(id, e.shown.age)
      OBVIOUS
    <3>1. /\ d.shown # Null /\ d.shown.id = id
          /\ d.told # Null /\ d.told.id = id
          /\ d.shown.age = Younger(d.told.age)
          /\ d.settled = id \/ d.msgTimer = Clear(id, d.shown.age)
      BY <1>1 DEF OnScreen, id
    <3>2. e.shown.age = Younger(e.told.age)
      BY <1>5, <1>9, <1>10, <3>1 DEF Younger, Capped
    <3>3. d.settled = id \/ d.msgTimer # Null
      <4>1. d.shown.age \in 0 .. MSG_AUTO_ACK_MS
        BY <1>8, <3>1 DEF Showns
      <4>2. id \in Ids
        BY <1>1, UnackedType DEF Fit, Ids0, id
      <4>3. Clear(id, d.shown.age) \in Clears
        BY <1>5, <4>1, <4>2 DEF Clears, Clear
      <4> QED
        BY <3>1, <4>3, NullAssumption
    <3> QED
      BY <1>3, <1>9, <1>12, <1>15, <3>1, <3>2, <3>3
  <2>2. e.msgTimer # Null => id # Null /\ e.msgTimer = Clear(id, e.shown.age)
    BY <1>1, <1>14, <1>15 DEF OnScreen, id
  <2>3. e.shown # Null => Shows(e, e.shown.id)
    BY <1>1, <1>7, <1>9, <1>11 DEF OnScreen
  <2> HIDE DEF id
  <2> QED
    BY <1>7, <2>1, <2>2, <2>3 DEF OnScreen
<1>17. HiddenPends(e)
  BY <1>1, <1>3, <1>7, <1>12, <1>13 DEF HiddenPends
<1>18. RelaySound(e, relay)
  <2>1. e.told # Null <=> d.told # Null
    BY <1>12, <1>13
  <2>2. OrderInv(e, relay)
    BY <1>1, <1>3, <1>7, <1>12, <2>1 DEF RelaySound, OrderInv, Owned, Fresh, Past, Ordered
  <2> QED
    BY <1>1, <2>2 DEF RelaySound
<1> QED
  BY <1>1, <1>2, <1>3, <1>6, <1>16, <1>17, <1>18 DEF DriverInv, DriverSound, MessageInv, e

--------------------------------------------------------------------------------
(* The theorems.                                                               *)

\* Before its first state the app shows nothing that could be stale.
LEMMA StartedFacts ==
  ASSUME NEW hasRoom \in BOOLEAN
  PROVE  LET d == SyncBlink(Render(Started(hasRoom)))
         IN  /\ Fit(d) /\ MessageInv(d) /\ Linked(d) /\ d.lag = 0 /\ ~d.linkOk
             /\ d.check = LINK_CHECK_MS
             /\ d.state = Null /\ d.hidden = Null /\ d.told = Null
<1> DEFINE line == IF hasRoom THEN "CONNECTING" ELSE "ROOM ?"
           none == {}
           no == FALSE
           yes == TRUE
           conn == "connecting"
           s == Started(hasRoom)
           d == SyncBlink(Render(s))
<1>1. line \in Strips /\ none \in SUBSET Ids /\ no \in BOOLEAN /\ yes \in BOOLEAN
      /\ conn \in {"connecting", "open", "closed"} /\ ~no
  BY DEF Strips
<1>2. /\ FOREGROUND_DEBOUNCE_MS \in 0 .. FOREGROUND_DEBOUNCE_MS
      /\ LINK_CHECK_MS \in 0 .. LINK_CHECK_MS /\ 0 \in 0 .. LINK_CHECK_MS + 1
  BY DriverAssumption
<1>3. s = [state |-> Null, connection |-> conn, terminal |-> no, linkOk |-> no,
           everLinked |-> no, hasRoom |-> hasRoom, blinkOn |-> yes, blinkTimer |-> Null,
           hidden |-> Null, blinkHidden |-> Null, lastHud |-> Null, lastStatus |-> line,
           shown |-> Null, msgTimer |-> Null, settled |-> Null, pendingAck |-> Null,
           retryTimer |-> no, blink |-> Null, ackGuard |-> Null,
           foreground |-> FOREGROUND_DEBOUNCE_MS, check |-> LINK_CHECK_MS,
           from |-> Null, told |-> Null, lag |-> 0, handed |-> none]
  BY DEF Started
<1> HIDE DEF line, none, no, yes, conn, s
<1>4. s \in Drivers
  BY <1>1, <1>2, <1>3 DEF Drivers, Ids0
<1>5. /\ s.blink = Null /\ s.state = Null /\ s.hidden = Null /\ s.told = Null
      /\ s.shown = Null /\ s.msgTimer = Null /\ s.check = LINK_CHECK_MS
      /\ s.lag = 0 /\ s.linkOk = no
  BY <1>3
<1>6. Fit(s)
  BY <1>4, <1>5 DEF Fit, BlinkRuns
<1>7. Drawn(s, Render(s)) /\ Linked(Render(s))
  BY <1>6, RenderFacts
<1>8. Drawn(Render(s), d)
  BY <1>7, SyncBlinkFacts DEF Drawn
<1>9. Drawn(s, d) /\ Linked(d)
  BY <1>7, <1>8, DrawnTwice DEF Drawn, SameLink
<1>10. /\ d.state = Null /\ d.hidden = Null /\ d.told = Null
       /\ d.shown = Null /\ d.msgTimer = Null
       /\ d.check = LINK_CHECK_MS /\ d.lag = 0 /\ ~d.linkOk
  BY <1>1, <1>5, <1>9 DEF Drawn, SameMessage, SameLink
<1> HIDE DEF d
<1>11. MessageInv(d)
  BY <1>10 DEF MessageInv, OnScreen, HiddenPends, UnackedMessageId, Shows
<1> QED
  BY <1>9, <1>10, <1>11 DEF Drawn, d, s

LEMMA InitFacts ==
  ASSUME DriverInit
  PROVE  DriverInv
<1>1. PICK hasRoom \in BOOLEAN :
        LET started == SyncBlink(Render(Started(hasRoom)))
        IN  IF hasRoom
            THEN view = Connecting(NoSession) /\ driver = OnConnection(started, view, FALSE)
            ELSE view = NoSession /\ driver = started
  BY DEF DriverInit
<1> DEFINE d == SyncBlink(Render(Started(hasRoom)))
<1>2. /\ Fit(d) /\ MessageInv(d) /\ Linked(d) /\ d.lag = 0 /\ ~d.linkOk
      /\ d.check = LINK_CHECK_MS
      /\ d.state = Null /\ d.hidden = Null /\ d.told = Null
  BY StartedFacts
<1>3. IF hasRoom THEN view = Connecting(NoSession) /\ driver = OnConnection(d, view, FALSE)
      ELSE view = NoSession /\ driver = d
  BY <1>1
<1> HIDE DEF d
<1>4. NoSession \in Views /\ ViewSound(NoSession)
  BY DEF NoSession, Views, ViewSound
<1>5. view \in Views /\ ViewSound(view)
  BY <1>3, <1>4, ViewFacts
<1>6. LinkInv(d, view)
  BY <1>2, DriverAssumption DEF LinkInv, Watched
<1>7. DriverSound(driver, view) /\ Continues(d, driver)
  <2>1. CASE hasRoom
    BY <1>2, <1>3, <1>5, <1>6, <2>1, OnConnectionFacts DEF DriverSound, LinkInv
  <2>2. CASE ~hasRoom
    BY <1>2, <1>3, <1>6, <2>2 DEF DriverSound, Continues
  <2> QED
    BY <2>1, <2>2
<1>8. RelaySound(d, relay)
  <2> DEFINE none == <<>>
             no == FALSE
             msgs == [code \in RoomCodes |-> Null]
  <2>1. PICK room \in RoomCodes :
          relay = [msgs |-> msgs, room |-> room, last |-> 0, joined |-> no, closing |-> no,
                   dead |-> no, frames |-> none]
    BY DEF DriverInit
  <2>8. msgs \in [RoomCodes -> Messages \union {Null}] /\ \A code \in RoomCodes : msgs[code] = Null
    OBVIOUS
  <2>2. no \in BOOLEAN /\ none \in Seq(Frames) /\ DOMAIN none = {}
    OBVIOUS
  <2>3. 0 \in 0 .. MaxMessages
    BY DriverAssumption
  <2> HIDE DEF no, none, msgs
  <2>4. /\ relay \in Relays /\ DOMAIN relay.frames = {}
        /\ \A code \in RoomCodes : relay.msgs[code] = Null
    BY <2>1, <2>2, <2>3, <2>8 DEF Relays
  <2>5. \A i : ~Shows(d, i) /\ ~Comes(relay, 0, i)
    BY <1>2, <2>4 DEF Shows, Comes, Live
  <2>6. Owned(d, relay)
    BY <1>2, <2>4 DEF Owned, Shows, Live
  <2>7. OrderInv(d, relay)
    BY <1>2, <2>4, <2>5, <2>6 DEF OrderInv, Fresh, Past, Ordered
  <2> QED
    BY <2>4, <2>7 DEF RelaySound
<1> QED
  BY <1>5, <1>7, <1>8, ContinuesRelay DEF DriverInv

LEMMA DriverStep ==
  ASSUME DriverInv, [DriverNext]_driverVars
  PROVE  DriverInv'
<1>1. CASE DriverNext
  BY <1>1, RetryConnectsStep, SocketOpensStep, StateArrivesStep, ErrorArrivesStep,
     PongArrivesStep, SocketDropsStep, TerminalCloseStep, SocketDiesStep,
     RelayJoinsStep, RelayRefusesStep, RoomChangesStep, NewMessageStep,
     AckArrivesStep, LinkCheckStep, TickBlinkStep, MessageExpiresStep,
     BlinkPhaseStep, AckRetryStep, TickStep, TapStep, EnterForegroundStep,
     ExitStep, SaveSettingsStep
     DEF DriverNext
<1>2. CASE UNCHANGED driverVars
  BY <1>2 DEF driverVars, DriverInv, DriverSound, RelaySound, ViewSound
<1> QED
  BY <1>1, <1>2

\* Every step of the app, the client, the socket and the relay keeps the
\* invariant the four properties follow from.
THEOREM DriverInvariant == DriverSpec => []DriverInv
<1>1. DriverInit => DriverInv
  BY InitFacts
<1>2. DriverInv /\ [DriverNext]_driverVars => DriverInv'
  BY DriverStep
<1> QED
  BY <1>1, <1>2, PTL DEF DriverSpec

\* The app keeps what driver.ts, app.ts and msg-blink.ts can hold, for any number
\* of messages and frames and all timings.
THEOREM DriverTypeCorrect == DriverSpec => []DriverTypeOK
<1>1. DriverInv => DriverTypeOK
  BY DEF DriverInv, DriverSound, RelaySound, Fit, DriverTypeOK
<1> QED
  BY <1>1, DriverInvariant, PTL

\* The HUD shows a link that is gone for one check at most, and none for a
\* session that was not heard of: what the LINK_CHECK_MS interval and the looks
\* at every status and state of driver.ts add up to.
THEOREM NeverStale == DriverSpec => []StaleIsNeverLive
<1>1. DriverInv => StaleIsNeverLive
  <2> SUFFICES ASSUME DriverInv, driver.lastHud.linkOk
               PROVE  /\ driver.lag <= LINK_CHECK_MS
                      /\ view.status # "closed" => view.heard # Null
    BY DEF StaleIsNeverLive
  <2>1. LinkInv(driver, view) /\ driver \in Drivers
    BY DEF DriverInv, DriverSound, Fit
  <2>2. driver.lag \in Nat /\ driver.check \in Nat
    BY <2>1, DriverAssumption DEF Drivers
  <2> QED
    BY <2>1, <2>2, DriverAssumption DEF LinkInv, Watched, Linked
<1> QED
  BY <1>1, DriverInvariant, PTL

\* The auto-clear of driver.ts is due five seconds after a message was first
\* drawn, whatever of its room is received, lost or drawn again in between.
THEOREM MessagesLeaveInTime == DriverSpec => []MessageLeavesInTime
<1>1. DriverInv => MessageLeavesInTime
  <2> DEFINE id == UnackedMessageId(driver)
  <2> SUFFICES ASSUME DriverInv, id # Null
               PROVE  /\ driver.told # Null /\ driver.told.id = id
                      /\ driver.told.age >= MSG_AUTO_ACK_MS =>
                           driver.settled = id \/ driver.msgTimer = [id |-> id, in |-> 0]
    BY DEF MessageLeavesInTime
  <2>1. OnScreen(driver) /\ driver \in Drivers
    BY DEF DriverInv, DriverSound, MessageInv, Fit
  <2>2. /\ driver.told # Null /\ driver.told.id = id
        /\ driver.shown.age = Younger(driver.told.age)
        /\ driver.settled = id \/ driver.msgTimer = Clear(id, driver.shown.age)
    BY <2>1 DEF OnScreen
  <2>3. driver.told.age \in 0 .. MSG_AUTO_ACK_MS
    BY <2>1, <2>2 DEF Drivers, Tolds
  <2>4. driver.told.age >= MSG_AUTO_ACK_MS => driver.shown.age = MSG_AUTO_ACK_MS
    BY <2>2, <2>3, DriverAssumption DEF Younger
  <2> HIDE DEF id
  <2>5. driver.shown.age = MSG_AUTO_ACK_MS =>
          Clear(id, driver.shown.age) = [id |-> id, in |-> 0]
    BY DriverAssumption DEF Clear
  <2> QED
    BY <2>2, <2>4, <2>5
<1> QED
  BY <1>1, DriverInvariant, PTL

\* What the auto-clear took off the screen is acked until a state confirms it:
\* pendingAckMsgId of driver.ts is kept through every reconnect to its room.
THEOREM HiddenMessagesAcked == DriverSpec => []HiddenIsAcked
<1>1. DriverInv => HiddenIsAcked
  <2> SUFFICES ASSUME DriverInv, driver.state # Null, driver.state.msg # Null,
                      ~driver.state.msg.acked, driver.state.msg.id = driver.hidden,
                      driver.told # Null, driver.told.id = driver.hidden
               PROVE  driver.pendingAck = driver.hidden
    BY DEF HiddenIsAcked
  <2>1. HiddenPends(driver) /\ driver \in Drivers
    BY DEF DriverInv, DriverSound, MessageInv, Fit
  <2>2. driver.told.id \in Ids
    BY <2>1 DEF Drivers, Tolds
  <2>3. driver.hidden # Null
    BY <2>2, NullAssumption
  <2> QED
    BY <2>1, <2>3 DEF HiddenPends, Shows, Live
<1> QED
  BY <1>1, DriverInvariant, PTL
================================================================================

------------------------------ MODULE RenderQueue ------------------------------
(* The render queue of the glasses (apps/glasses/src/render/queue.ts): the     *)
(* single worker that brings what the app pushed onto the four image           *)
(* containers, or onto the one text HUD after the images were given up, with   *)
(* one bridge call in flight.  The bytes of a container are what is drawn into *)
(* it.  Every await of the worker is a state of its own.  A push may find it   *)
(* in any of them, the next one of the same render in the turn that the first  *)
(* one left it at; timers fire and time passes between turns only.             *)
EXTENDS Integers, Sequences, FiniteSets

CONSTANTS Null,
          Jobs,         \* HUD jobs the app may push
          Messages,     \* message texts, "" among them: none
          OneLine,      \* textModeMessage: each with its line breaks as spaces
          Statuses,     \* status lines
          HUD_GAP_FLUSH_MS, SEND_FAILED_LIMIT,
          MaxPushes,    \* bound of the pushes
          MaxFails      \* bound of the calls that fail

Lanes == {"top", "mid", "bot"}
Tops == <<"TL", "TR">>
Bottoms == <<"BL", "BR">>
Ids(strip) == {strip[i] : i \in DOMAIN strip}
Containers == Ids(Tops) \union Ids(Bottoms)

\* visible: the phase of the blink of the message.
HudJobs == [lane : Lanes \union {Null}, left : Nat, mid : Nat, right : Nat,
            linkOk : BOOLEAN, message : Messages, visible : BOOLEAN]

ASSUME QueueAssumption ==
  /\ Jobs \subseteq HudJobs
  /\ OneLine \in [Messages -> Messages] /\ OneLine[""] = ""
  /\ HUD_GAP_FLUSH_MS \in Nat \ {0} /\ SEND_FAILED_LIMIT \in Nat \ {0}
  /\ MaxPushes \in Nat /\ MaxFails \in Nat

VARIABLES q,         \* the queue
          glasses,   \* what the glasses show
          pushes, fails

queueVars == <<q, glasses, pushes, fails>>

--------------------------------------------------------------------------------
(* What is drawn.                                                              *)

DrawnMessage(job) == IF job.visible THEN job.message ELSE ""
IsBlank(job) == job.lane = Null /\ job.left = 0 /\ job.mid = 0 /\ job.right = 0

\* The middle shapes and the message lie across the seam.
Bytes(c, job) ==
  CASE c = "TL" -> [on |-> job.lane \in {"bot", "mid"}, lane |-> job.lane = "mid", linkOk |-> job.linkOk]
    [] c = "TR" -> [on |-> job.lane \in {"top", "mid"}, lane |-> job.lane = "mid", linkOk |-> job.linkOk]
    [] c = "BL" -> [side |-> job.left, mid |-> job.mid, message |-> DrawnMessage(job), linkOk |-> job.linkOk]
    [] c = "BR" -> [side |-> job.right, mid |-> job.mid, message |-> DrawnMessage(job), linkOk |-> job.linkOk]

Text(job) == [lane |-> job.lane, left |-> job.left, mid |-> job.mid, right |-> job.right]
SameText(a, b) == a # Null /\ a.linkOk = b.linkOk /\ Text(a) = Text(b)

TextKinds == {"msg", "status"}
Texts == Messages \union Statuses \union {""}
TextJobs == [kind : TextKinds, text : Texts]
Images(c) == {Bytes(c, job) : job \in Jobs}
AllImages == UNION {Images(c) : c \in Containers}

Calls == [t : {"image"}, c : Containers, bytes : AllImages]
           \union [t : {"hud"}, job : Jobs]
           \union [t : {"text"}, job : TextJobs]
           \union [t : {"page"}, hud : {Text(job) : job \in Jobs} \union {Null},
                   msg : Texts, status : Texts]

Ages == 0 .. HUD_GAP_FLUSH_MS
Pendings == [job : Jobs, immediate : BOOLEAN]

ASSUME NullAssumption == Null \notin Jobs \union Calls \union Ages \union Pendings

\* Where the worker is: it does not run, it waits for the next lap of pump, for
\* the bridge, or, with pump at its end, for run to look at wake.
Workers == {"idle", "lap", "call", "end"}

\* lost is history: what the last call for it did not bring onto the glasses.
Queues ==
  [mode : {"image", "text"}, latest : Jobs \union {Null}, message : Texts,
   lastStatus : Texts, pushed : Statuses,
   desired : [Containers -> AllImages \union {Null}],
   lastSent : [Containers -> AllImages \union {Null}],
   dirty : SUBSET Containers, retried : SUBSET Containers,
   flush : Seq(Ids(Bottoms)), immediate : BOOLEAN, basis : Jobs \union {Null},
   sinceBottom : Ages,
   pending : Pendings \union {Null},
   dispatched : Jobs \union {Null}, sinceText : Ages,
   jobs : Seq(TextJobs), failures : 0 .. SEND_FAILED_LIMIT - 1,
   timer : Ages \union {Null}, worker : Workers, wake : BOOLEAN,
   call : Calls \union {Null},
   lost : SUBSET {"hud", "msg", "status"}]

Screens == [page : {"image", "text"}, image : [Containers -> AllImages \union {Null}],
            hud : {Text(job) : job \in Jobs} \union {Null}, msg : Texts, status : Texts]

--------------------------------------------------------------------------------
(* The worker: one lap of pump, up to its next await.                          *)

PendingOf(strip, dirty) == Ids(strip) \intersect dirty

\* A strip has two containers.
FirstOf(strip, dirty) == IF strip[1] \in dirty THEN strip[1] ELSE strip[2]
InOrder(strip, dirty) ==
  IF Ids(strip) \subseteq dirty THEN strip ELSE <<FirstOf(strip, dirty)>>

In(k, call) == [k EXCEPT !.call = call, !.worker = "call"]

\* What is sent is the next of the flush, or in none.
Without(flush, c) == IF flush # <<>> /\ Head(flush) = c THEN Tail(flush) ELSE flush

\* sendImage up to its call; nothing to send is no call.
SendImage(k, c) ==
  LET taken == [k EXCEPT !.dirty = @ \ {c}, !.flush = Without(@, c)]
  IN  IF k.lastSent[c] = k.desired[c] THEN taken
      ELSE In(taken, [t |-> "image", c |-> c, bytes |-> k.desired[c]])

OpenFlush(k) ==
  [k EXCEPT !.flush = InOrder(Bottoms, k.dirty), !.sinceBottom = 0,
            !.immediate = FALSE, !.basis = k.latest]

BottomDelay(k) == IF k.immediate THEN 0 ELSE HUD_GAP_FLUSH_MS - k.sinceBottom
TextDelay(k) == IF k.pending.immediate THEN 0 ELSE HUD_GAP_FLUSH_MS - k.sinceText

Arm(k, delay) == IF k.timer = Null THEN [k EXCEPT !.timer = delay] ELSE k

\* What a push meanwhile took out of the flush under way is dropped.
Undone(flush, dirty) ==
  IF flush = <<>> \/ Head(flush) \in dirty THEN flush
  ELSE IF Tail(flush) # <<>> /\ Head(Tail(flush)) \in dirty THEN Tail(flush) ELSE <<>>

\* A half-done flush first, then the lane strip, then a flush that is due.
ImageDue(k) ==
  \/ k.flush # <<>>
  \/ PendingOf(Tops, k.dirty) # {}
  \/ PendingOf(Bottoms, k.dirty) # {} /\ BottomDelay(k) <= 0

NextImage(k) ==
  IF k.flush # <<>>
  THEN SendImage(k, Head(k.flush))
  ELSE IF PendingOf(Tops, k.dirty) # {}
  THEN SendImage(k, FirstOf(Tops, k.dirty))
  ELSE SendImage(OpenFlush(k), FirstOf(Bottoms, k.dirty))

TextDue(k) == k.pending # Null /\ TextDelay(k) <= 0

SendHudText(k) == In([k EXCEPT !.pending = Null], [t |-> "hud", job |-> k.pending.job])

SendTextJob(k) ==
  LET job == Head(k.jobs)
  IN  In([k EXCEPT !.jobs = Tail(@),
                   !.lastStatus = IF job.kind = "status" THEN job.text ELSE @],
         [t |-> "text", job |-> job])

\* What has to wait arms the timer, and pump returns.
Rest(k) ==
  LET armed == IF k.mode = "image"
               THEN IF PendingOf(Bottoms, k.dirty) # {} THEN Arm(k, BottomDelay(k)) ELSE k
               ELSE IF k.pending # Null THEN Arm(k, TextDelay(k)) ELSE k
  IN  [armed EXCEPT !.worker = "end"]

Pump(k) ==
  LET next == [k EXCEPT !.flush = Undone(@, k.dirty)]
  IN  IF k.mode = "image" /\ ImageDue(next) THEN NextImage(next)
      ELSE IF k.mode = "text" /\ TextDue(k) THEN SendHudText(next)
      ELSE IF k.jobs # <<>> THEN SendTextJob(next) ELSE Rest(next)

Lap ==
  /\ q.worker = "lap"
  /\ q' = Pump(q)
  /\ UNCHANGED <<glasses, pushes, fails>>

\* A turn of run: the first lap follows at once.
Run(k) == Pump([k EXCEPT !.wake = FALSE, !.worker = "lap"])

\* A wake-up between the return of pump and this step costs another turn.
RunEnds ==
  /\ q.worker = "end"
  /\ q' = IF q.wake THEN Run(q) ELSE [q EXCEPT !.worker = "idle"]
  /\ UNCHANGED <<glasses, pushes, fails>>

\* Seeded fault: a worker that runs is thought to look once more.
ScheduleIdle(k) == IF k.worker = "idle" THEN Run(k) ELSE k

Schedule(k) == IF k.worker = "idle" THEN Run(k) ELSE [k EXCEPT !.wake = TRUE]

--------------------------------------------------------------------------------
(* push.                                                                       *)

IsBottomImmediate(k, job) ==
  \/ k.basis = Null
  \/ k.basis.linkOk # job.linkOk
  \/ DrawnMessage(k.basis) # DrawnMessage(job)
  \/ IsBlank(job) /\ ~IsBlank(k.basis)

IsTextImmediate(k, job) ==
  \/ k.dispatched = Null
  \/ k.dispatched.lane # job.lane
  \/ k.dispatched.linkOk # job.linkOk
  \/ IsBlank(job) /\ ~IsBlank(k.dispatched)

\* A container that shows the new bytes is dropped, any other replaced.
PushImages(k, job) ==
  LET dirty == {c \in Containers : k.lastSent[c] # Bytes(c, job)}
  IN  [k EXCEPT !.desired = [c \in Containers |-> Bytes(c, job)],
                !.dirty = dirty, !.retried = {},
                !.immediate = (@ \/ IsBottomImmediate(k, job))
                                /\ PendingOf(Bottoms, dirty) # {}]

\* What the text HUD draws alike is no HUD call; a new message text is one of its own.
PushText(k, job) ==
  LET line == OneLine[job.message]
      told == IF line = k.message THEN k
              ELSE [k EXCEPT !.jobs = Append(@, [kind |-> "msg", text |-> line])]
  IN  IF SameText(k.latest, job) THEN told
      ELSE [told EXCEPT !.pending =
              [job |-> job,
               immediate |-> IsTextImmediate(k, job)
                               \/ (k.pending # Null /\ k.pending.immediate)]]

PushHud ==
  \E job \in Jobs :
    LET pushed == IF q.mode = "image" THEN PushImages(q, job) ELSE PushText(q, job)
        next   == [pushed EXCEPT !.latest = job, !.message = OneLine[job.message]]
    IN  /\ pushes < MaxPushes /\ job # q.latest
        /\ q' = IF q.mode = "text" /\ SameText(q.latest, job) /\ next.message = q.message
                THEN next ELSE Schedule(next)
        /\ pushes' = pushes + 1
        /\ UNCHANGED <<glasses, fails>>

PushStatus ==
  \E text \in Statuses :
    /\ pushes < MaxPushes /\ text # q.pushed
    /\ q' = Schedule([q EXCEPT !.jobs = Append(@, [kind |-> "status", text |-> text]),
                               !.pushed = text])
    /\ pushes' = pushes + 1
    /\ UNCHANGED <<glasses, fails>>

--------------------------------------------------------------------------------
(* The rest of a call, when the bridge has answered.                           *)

Answered(k) == [k EXCEPT !.call = Null, !.worker = "lap"]

\* Seeded fault: what was pushed during the flight is not looked at.
SucceededAsSent(k, c, bytes) ==
  [k EXCEPT !.retried = @ \ {c}, !.lastSent[c] = bytes, !.failures = 0]

Succeeded(k, c, bytes) ==
  [k EXCEPT !.retried = @ \ {c}, !.lastSent[c] = bytes, !.failures = 0,
            !.dirty = IF k.desired[c] # bytes THEN @ \union {c} ELSE @ \ {c}]

\* retryOnce: a bottom half rejoins the flush under way.
RetryOnce(k, c) ==
  IF c \in k.retried \/ k.lastSent[c] = k.desired[c] THEN k
  ELSE [k EXCEPT !.retried = @ \union {c}, !.dirty = @ \union {c},
                 !.flush = IF c \in Ids(Bottoms) /\ c \notin Ids(@) THEN Append(@, c) ELSE @]

\* The one rebuild of the page.
FallbackToText(k) ==
  In([k EXCEPT !.mode = "text", !.failures = 0, !.dirty = {}, !.flush = <<>>,
               !.dispatched = k.latest, !.sinceText = 0],
     [t |-> "page", hud |-> Text(k.latest), msg |-> k.message, status |-> k.lastStatus])

\* Seeded fault: one failure more than the limit.
FailedLate(k, c, sendFailed) ==
  LET retried == RetryOnce(k, c)
  IN  IF ~sendFailed THEN [retried EXCEPT !.failures = 0]
      ELSE IF k.failures < SEND_FAILED_LIMIT THEN [retried EXCEPT !.failures = @ + 1]
      ELSE FallbackToText(retried)

Failed(k, c, sendFailed) ==
  LET retried == RetryOnce(k, c)
  IN  IF ~sendFailed THEN [retried EXCEPT !.failures = 0]
      ELSE IF k.failures + 1 < SEND_FAILED_LIMIT
      THEN [retried EXCEPT !.failures = @ + 1]
      ELSE FallbackToText(retried)

Fail == fails < MaxFails /\ fails' = fails + 1

ImageAccepted ==
  /\ q.call # Null /\ q.call.t = "image"
  /\ q' = Succeeded(Answered(q), q.call.c, q.call.bytes)
  /\ glasses' = [glasses EXCEPT !.image[q.call.c] = q.call.bytes]
  /\ UNCHANGED <<pushes, fails>>

ImageFails ==
  /\ q.call # Null /\ q.call.t = "image" /\ Fail
  /\ \E sendFailed \in BOOLEAN : q' = Failed(Answered(q), q.call.c, sendFailed)
  /\ UNCHANGED <<glasses, pushes>>

\* sendHudText, sendTextJob, rebuildPageContainer: the answer makes no difference.
Done(k, lost) ==
  LET answered == [Answered(k) EXCEPT !.lost = lost]
  IN  IF k.call.t = "hud"
      THEN [answered EXCEPT !.dispatched = k.call.job, !.sinceText = 0] ELSE answered

Slots(call) ==
  IF call.t = "page" THEN {"hud", "msg", "status"}
  ELSE IF call.t = "hud" THEN {"hud"} ELSE {call.job.kind}

\* The image page has no container for the HUD text and the message.
Shows(call) == glasses.page = "text" \/ Slots(call) = {"status"}

TextShown ==
  /\ q.call # Null /\ q.call.t \in {"hud", "text"} /\ Shows(q.call)
  /\ q' = Done(q, q.lost \ Slots(q.call))
  /\ glasses' = IF q.call.t = "hud" THEN [glasses EXCEPT !.hud = Text(q.call.job)]
                ELSE IF q.call.job.kind = "msg"
                THEN [glasses EXCEPT !.msg = q.call.job.text]
                ELSE [glasses EXCEPT !.status = q.call.job.text]
  /\ UNCHANGED <<pushes, fails>>

TextFails ==
  /\ q.call # Null /\ q.call.t \in {"hud", "text", "page"}
  /\ IF q.call.t = "page" \/ Shows(q.call) THEN Fail ELSE UNCHANGED fails
  /\ q' = Done(q, q.lost \union Slots(q.call))
  /\ UNCHANGED <<glasses, pushes>>

PageRebuilt ==
  /\ q.call # Null /\ q.call.t = "page"
  /\ q' = Done(q, {})
  /\ glasses' = [glasses EXCEPT !.page = "text", !.hud = q.call.hud, !.msg = q.call.msg,
                                !.status = q.call.status]
  /\ UNCHANGED <<pushes, fails>>

--------------------------------------------------------------------------------
(* Time.                                                                       *)

\* The lap after an answer and the end of run come before the next callback.
BetweenTurns == q.worker \in {"idle", "call"}

TimerFires ==
  /\ q.timer = 0 /\ BetweenTurns
  /\ q' = Schedule([q EXCEPT !.timer = Null])
  /\ UNCHANGED <<glasses, pushes, fails>>

Older(age) == IF age < HUD_GAP_FLUSH_MS THEN age + 1 ELSE age

Tick ==
  /\ q.timer # 0 /\ BetweenTurns
  /\ q' = [q EXCEPT !.timer = IF @ = Null THEN Null ELSE @ - 1,
                    !.sinceBottom = Older(@), !.sinceText = Older(@)]
  /\ UNCHANGED <<glasses, pushes, fails>>

--------------------------------------------------------------------------------

\* The page of start-up; the app knows the status drawn on it, the queue does not.
QueueInit ==
  \E mode \in {"image", "text"}, status \in Statuses :
    /\ q = [mode |-> mode, latest |-> Null, message |-> "", lastStatus |-> "",
            pushed |-> status,
            desired |-> [c \in Containers |-> Null], lastSent |-> [c \in Containers |-> Null],
            dirty |-> {}, retried |-> {}, flush |-> <<>>, immediate |-> FALSE,
            basis |-> Null, sinceBottom |-> HUD_GAP_FLUSH_MS, pending |-> Null,
            dispatched |-> Null, sinceText |-> HUD_GAP_FLUSH_MS, jobs |-> <<>>,
            failures |-> 0, timer |-> Null, worker |-> "idle", wake |-> FALSE,
            call |-> Null, lost |-> {}]
    /\ glasses = [page |-> mode, image |-> [c \in Containers |-> Null], hud |-> Null,
                  msg |-> "", status |-> status]
    /\ pushes = 0 /\ fails = 0

QueueNext ==
  \/ PushHud
  \/ PushStatus
  \/ Lap
  \/ RunEnds
  \/ ImageAccepted
  \/ ImageFails
  \/ TextShown
  \/ TextFails
  \/ PageRebuilt
  \/ TimerFires
  \/ Tick

QueueSpec == QueueInit /\ [][QueueNext]_queueVars

--------------------------------------------------------------------------------
(* Properties.                                                                 *)

\* The queue keeps what queue.ts can hold.
QueueTypeOK == q \in Queues /\ glasses \in Screens

\* An idle queue has shown what was pushed last, in either mode, in every order
\* of pushes, answers, failures and wake-ups, those between the worker's last
\* look and its end among them.  It still owes the glasses no more than cars or a
\* text HUD that a timer will bring, an image whose one retry failed, and a text
\* whose call failed; the lane strip never waits, nor does what was found to be
\* news.  (The page of a fallback before the first status job has an empty
\* status strip.)
NothingIsForgotten ==
  q.worker = "idle" =>
    /\ q.latest # Null /\ q.mode = "image" =>
         \A c \in Containers :
           \/ glasses.image[c] = Bytes(c, q.latest)
           \/ c \in q.retried
           \/ c \in Ids(Bottoms) /\ c \in q.dirty /\ ~q.immediate /\ q.timer # Null
    /\ q.latest # Null /\ q.mode = "text" =>
         /\ \/ glasses.hud = Text(q.latest)
            \/ "hud" \in q.lost
            \/ /\ q.pending # Null /\ Text(q.pending.job) = Text(q.latest)
               /\ ~q.pending.immediate /\ q.timer # Null
         /\ glasses.msg = OneLine[q.latest.message] \/ "msg" \in q.lost
    /\ glasses.status = q.pushed \/ "status" \in q.lost \/ q.lastStatus = ""

================================================================================

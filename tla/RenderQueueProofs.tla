--------------------------- MODULE RenderQueueProofs ---------------------------
(* For every set of jobs, messages and statuses and every number of pushes and *)
(* failures: an idle render queue has shown what was pushed last.              *)
EXTENDS RenderQueue, SequenceTheorems, TLAPS

--------------------------------------------------------------------------------
(* The parts of the invariant.                                                 *)

InFlight(k, t) == k.call # Null /\ k.call.t = t
Sends(k, c)     == InFlight(k, "image") /\ k.call.c = c
Writes(k, kind) == InFlight(k, "text") /\ k.call.job.kind = kind

CallSound(k) == k.worker = "call" <=> k.call # Null

NoJob(jobs, kind) == \A i \in DOMAIN jobs : jobs[i].kind # kind
IsLast(jobs, kind, i) == jobs[i].kind = kind /\ \A j \in DOMAIN jobs : j > i => jobs[j].kind # kind
LastIs(jobs, kind, text) == \A i \in DOMAIN jobs : IsLast(jobs, kind, i) => jobs[i].text = text

\* A mode has its own calls and its own way to wait.
ModeSound(k) ==
  /\ InFlight(k, "image") => k.mode = "image" /\ k.latest # Null
  /\ InFlight(k, "hud") \/ InFlight(k, "page") => k.mode = "text"
  /\ k.mode = "image" => k.pending = Null /\ NoJob(k.jobs, "msg")

\* A container that is neither shown as pushed nor to be sent has failed twice.
Known(k, c) ==
  \/ c \in k.dirty
  \/ Sends(k, c)
  \/ k.lastSent[c] = k.desired[c]
  \/ c \in k.retried

ImageSound(k, g) ==
  /\ k.lastSent = g.image
  /\ k.latest = Null => k.dirty = {}
  /\ k.mode = "image" /\ k.latest # Null =>
       \A c \in Containers : k.desired[c] = Bytes(c, k.latest) /\ Known(k, c)

\* What the call in flight will leave on the glasses, or what is there.
HudShown(k, g, text) ==
  IF InFlight(k, "hud") THEN Text(k.call.job) = text
  ELSE IF InFlight(k, "page") THEN k.call.hud = text
  ELSE g.hud = text \/ "hud" \in k.lost

MsgShown(k, g, text) ==
  IF Writes(k, "msg") THEN k.call.job.text = text
  ELSE IF InFlight(k, "page") THEN k.call.msg = text
  ELSE g.msg = text \/ "msg" \in k.lost

StatusShown(k, g, text) ==
  IF Writes(k, "status") THEN k.call.job.text = text
  ELSE IF InFlight(k, "page") THEN k.call.status = text
  ELSE g.status = text \/ "status" \in k.lost

HudSound(k, g) ==
  k.mode = "text" /\ k.latest # Null =>
    /\ k.pending # Null => Text(k.pending.job) = Text(k.latest)
    /\ k.pending = Null => HudShown(k, g, Text(k.latest))

MsgSound(k, g) ==
  /\ k.latest # Null => k.message = OneLine[k.latest.message]
  /\ k.mode = "text" =>
       /\ LastIs(k.jobs, "msg", k.message)
       /\ NoJob(k.jobs, "msg") => MsgShown(k, g, k.message)

StatusSound(k, g) ==
  /\ LastIs(k.jobs, "status", k.pushed)
  /\ NoJob(k.jobs, "status") /\ k.lastStatus # "" => k.lastStatus = k.pushed
  /\ k.lastStatus # "" => StatusShown(k, g, k.lastStatus)

Core(k, g) ==
  /\ k \in Queues /\ g \in Screens
  /\ CallSound(k) /\ ModeSound(k)
  /\ ImageSound(k, g) /\ HudSound(k, g) /\ MsgSound(k, g) /\ StatusSound(k, g)

\* The worker has ended, or will without another look.
Resting(k) == k.worker = "idle" \/ (k.worker = "end" /\ ~k.wake)
Awake == {"lap", "call"}

\* What a resting queue waits for comes with the timer.
IdleSound(k) ==
  Resting(k) =>
    /\ k.jobs = <<>>
    /\ k.mode = "image" =>
         /\ Ids(Tops) \intersect k.dirty = {}
         /\ k.dirty # {} => k.timer # Null /\ ~k.immediate
    /\ k.mode = "text" /\ k.pending # Null => k.timer # Null /\ ~k.pending.immediate

LEMMA AwakeSound == ASSUME NEW k, k.worker \in Awake PROVE IdleSound(k)
BY DEF IdleSound, Resting, Awake

QueueInv == Core(q, glasses) /\ IdleSound(q)

--------------------------------------------------------------------------------
(* Lemmas about the lists of jobs and the strips.                              *)

LEMMA AppendedJob ==
  ASSUME NEW jobs \in Seq(TextJobs), NEW job \in TextJobs, NEW kind, NEW text,
         NEW e, e = Append(jobs, job)
  PROVE  /\ e \in Seq(TextJobs) /\ e # <<>>
         /\ job.kind = kind => LastIs(e, kind, job.text) /\ ~NoJob(e, kind)
         /\ job.kind # kind => /\ LastIs(jobs, kind, text) => LastIs(e, kind, text)
                               /\ NoJob(e, kind) <=> NoJob(jobs, kind)
<1> DEFINE n == Len(jobs)
<1>1. /\ e \in Seq(TextJobs) /\ Len(e) = n + 1 /\ n \in Nat
      /\ e[n + 1] = job
      /\ \A i \in 1 .. n : e[i] = jobs[i]
      /\ DOMAIN e = 1 .. n + 1 /\ DOMAIN jobs = 1 .. n
  BY AppendProperties, LenProperties
<1>2. e # <<>>
  BY <1>1, EmptySeq
<1> HIDE DEF n
<1>3. ASSUME job.kind = kind PROVE LastIs(e, kind, job.text) /\ ~NoJob(e, kind)
  <2>1. \A i \in DOMAIN e : IsLast(e, kind, i) => i = n + 1
    BY <1>1, <1>3 DEF IsLast
  <2> QED
    BY <1>1, <1>3, <2>1 DEF LastIs, NoJob
<1>4. ASSUME job.kind # kind
      PROVE  /\ LastIs(jobs, kind, text) => LastIs(e, kind, text)
             /\ NoJob(e, kind) <=> NoJob(jobs, kind)
  <2>1. \A i \in DOMAIN e : IsLast(e, kind, i) => i \in DOMAIN jobs /\ IsLast(jobs, kind, i)
    BY <1>1, <1>4 DEF IsLast
  <2>2. LastIs(jobs, kind, text) => LastIs(e, kind, text)
    BY <1>1, <2>1 DEF LastIs
  <2>3. NoJob(e, kind) <=> NoJob(jobs, kind)
    BY <1>1, <1>4 DEF NoJob
  <2> QED
    BY <2>2, <2>3
<1> QED
  BY <1>1, <1>2, <1>3, <1>4

LEMMA TakenJob ==
  ASSUME NEW jobs \in Seq(TextJobs), jobs # <<>>, NEW kind, NEW text,
         NEW e, e = Tail(jobs), NEW job, job = Head(jobs)
  PROVE  /\ e \in Seq(TextJobs) /\ job \in TextJobs
         /\ LastIs(jobs, kind, text) => LastIs(e, kind, text)
         /\ NoJob(jobs, kind) => NoJob(e, kind) /\ job.kind # kind
         /\ NoJob(e, kind) /\ job.kind = kind /\ LastIs(jobs, kind, text) => job.text = text
         /\ NoJob(e, kind) /\ job.kind # kind => NoJob(jobs, kind)
<1> DEFINE n == Len(jobs)
<1>1. /\ e \in Seq(TextJobs) /\ Len(e) = n - 1 /\ n \in Nat /\ n > 0
      /\ job \in TextJobs /\ job = jobs[1]
      /\ \A i \in 1 .. n - 1 : e[i] = jobs[i + 1]
      /\ DOMAIN e = 1 .. n - 1 /\ DOMAIN jobs = 1 .. n
  BY HeadTailProperties, EmptySeq, LenProperties
<1> HIDE DEF n
<1>2. \A i \in DOMAIN e : i + 1 \in DOMAIN jobs /\ e[i] = jobs[i + 1]
  BY <1>1
<1>3. \A i \in DOMAIN jobs : i = 1 \/ (i - 1 \in DOMAIN e /\ jobs[i] = e[i - 1])
  BY <1>1
<1>4. \A i \in DOMAIN e : IsLast(e, kind, i) => IsLast(jobs, kind, i + 1)
  <2> SUFFICES ASSUME NEW i \in DOMAIN e, IsLast(e, kind, i),
                      NEW j \in DOMAIN jobs, j > i + 1
               PROVE  jobs[i + 1].kind = kind /\ jobs[j].kind # kind
    BY DEF IsLast
  <2>1. j # 1 /\ j - 1 > i
    BY <1>1
  <2> QED
    BY SMTT(60), <1>2, <1>3, <2>1 DEF IsLast
<1>5. LastIs(jobs, kind, text) => LastIs(e, kind, text)
  BY <1>2, <1>4 DEF LastIs
<1>6. 1 \in DOMAIN jobs
  BY <1>1
<1>7. NoJob(jobs, kind) => NoJob(e, kind) /\ job.kind # kind
  BY <1>1, <1>2, <1>6 DEF NoJob
<1>8. ASSUME NoJob(e, kind), NEW j \in DOMAIN jobs, j > 1 PROVE jobs[j].kind # kind
  <2>1. j # 1
    BY <1>1, <1>8
  <2> QED
    BY <1>3, <1>8, <2>1 DEF NoJob
<1>9. NoJob(e, kind) /\ job.kind = kind => IsLast(jobs, kind, 1)
  BY <1>1, <1>8 DEF IsLast
<1>10. NoJob(e, kind) /\ job.kind # kind => NoJob(jobs, kind)
  BY <1>1, <1>3 DEF NoJob
<1>11. NoJob(e, kind) /\ job.kind = kind /\ LastIs(jobs, kind, text) => job.text = text
  BY <1>1, <1>6, <1>9 DEF LastIs
<1> QED
  BY <1>1, <1>5, <1>7, <1>10, <1>11

LEMMA Bounds == HUD_GAP_FLUSH_MS \in Nat \ {0} /\ SEND_FAILED_LIMIT \in Nat \ {0}
BY QueueAssumption

LEMMA Strips ==
  /\ Ids(Tops) = {"TL", "TR"} /\ Ids(Bottoms) = {"BL", "BR"}
  /\ Containers = {"TL", "TR", "BL", "BR"}
<1>1. Ids(Tops) = {"TL", "TR"}
  BY DEF Ids, Tops
<1>2. Ids(Bottoms) = {"BL", "BR"}
  BY DEF Ids, Bottoms
<1> QED
  BY <1>1, <1>2 DEF Containers

LEMMA FirstPending ==
  ASSUME NEW dirty \in SUBSET Containers, NEW strip \in {Tops, Bottoms},
         PendingOf(strip, dirty) # {}
  PROVE  /\ FirstOf(strip, dirty) \in dirty
         /\ strip = Bottoms => InOrder(strip, dirty) \in Seq(Ids(Bottoms))
<1>1. Ids(strip) = {strip[1], strip[2]}
  BY DEF Ids, Tops, Bottoms
<1>2. FirstOf(strip, dirty) \in dirty /\ FirstOf(strip, dirty) \in Ids(strip)
  BY <1>1 DEF FirstOf, PendingOf
<1>3. Bottoms \in Seq(Ids(Bottoms))
  BY Strips DEF Bottoms
<1> QED
  BY <1>2, <1>3 DEF InOrder

--------------------------------------------------------------------------------
(* What the operators leave alone.                                             *)

SameMode(k, e) == e.mode = k.mode /\ e.latest = k.latest

SameImages(k, e) ==
  /\ e.lastSent = k.lastSent /\ e.desired = k.desired
  /\ e.dirty = k.dirty /\ e.retried = k.retried

SameTexts(k, e) ==
  /\ e.pending = k.pending /\ e.jobs = k.jobs
  /\ e.message = k.message /\ e.pushed = k.pushed /\ e.lastStatus = k.lastStatus
  /\ e.lost = k.lost

SameCall(k, e) == e.call = k.call /\ (e.worker = "call" <=> k.worker = "call")

Same(k, e) == SameMode(k, e) /\ SameImages(k, e) /\ SameTexts(k, e) /\ SameCall(k, e)

LEMMA SameCore ==
  ASSUME NEW k, NEW g, NEW e \in Queues, Core(k, g), Same(k, e)
  PROVE  Core(e, g)
<1> USE DEF Same, SameMode, SameImages, SameTexts, SameCall, Core
<1>1. CallSound(e) /\ ModeSound(e)
  BY DEF CallSound, ModeSound, InFlight
<1>2. ImageSound(e, g)
  BY DEF ImageSound, Known, Sends, InFlight
<1>3. HudSound(e, g)
  BY DEF HudSound, HudShown, InFlight
<1>4. MsgSound(e, g)
  BY DEF MsgSound, MsgShown, Writes, InFlight
<1>5. StatusSound(e, g)
  BY DEF StatusSound, StatusShown, Writes, InFlight
<1> QED
  BY <1>1, <1>2, <1>3, <1>4, <1>5

\* What wakes the worker, starts it and ends it.
Set(k, worker, wake) == [k EXCEPT !.worker = worker, !.wake = wake]

LEMMA SetFacts ==
  ASSUME NEW k \in Queues, k.worker # "call", NEW w \in Workers, w # "call",
         NEW b \in BOOLEAN, NEW e, e = Set(k, w, b)
  PROVE  /\ e \in Queues /\ Same(k, e) /\ e.worker = w /\ e.wake = b
         /\ e.timer = k.timer /\ e.immediate = k.immediate
<1>1. e \in Queues
  BY ZenonT(60) DEF Set, Queues
<1>2. /\ Same(k, e) /\ e.worker = w /\ e.wake = b
      /\ e.timer = k.timer /\ e.immediate = k.immediate
  BY DEF Set, Queues, Same, SameMode, SameImages, SameTexts, SameCall
<1> QED
  BY <1>1, <1>2

Waking(k, wake) == [k EXCEPT !.wake = wake]

LEMMA WakingFacts ==
  ASSUME NEW k \in Queues, NEW b \in BOOLEAN, NEW e, e = Waking(k, b)
  PROVE  e \in Queues /\ Same(k, e) /\ e.worker = k.worker /\ e.wake = b
BY ZenonT(60) DEF Waking, Queues, Same, SameMode, SameImages, SameTexts, SameCall

LEMMA InFacts ==
  ASSUME NEW k \in Queues, NEW call \in Calls
  PROVE  /\ In(k, call) \in Queues
         /\ In(k, call).call = call /\ In(k, call).worker = "call"
         /\ SameMode(k, In(k, call)) /\ SameImages(k, In(k, call)) /\ SameTexts(k, In(k, call))
<1> DEFINE w == "call"
<1>1. w \in Workers
  BY DEF Workers
<1> HIDE DEF w
<1>2. ASSUME NEW e, e = [k EXCEPT !.call = call, !.worker = w]
      PROVE  /\ e \in Queues /\ e.call = call /\ e.worker = w
             /\ SameMode(k, e) /\ SameImages(k, e) /\ SameTexts(k, e)
  BY ZenonT(60), <1>1, <1>2 DEF Queues, SameMode, SameImages, SameTexts
<1> QED
  BY <1>2 DEF In, w

LEMMA AnsweredFacts ==
  ASSUME NEW k \in Queues
  PROVE  /\ Answered(k) \in Queues
         /\ Answered(k).call = Null /\ Answered(k).worker = "lap"
         /\ SameMode(k, Answered(k)) /\ SameImages(k, Answered(k)) /\ SameTexts(k, Answered(k))
         /\ Answered(k).failures = k.failures
<1> DEFINE w == "lap"
<1>1. w \in Workers
  BY DEF Workers
<1> HIDE DEF w
<1>2. ASSUME NEW e, e = [k EXCEPT !.call = Null, !.worker = w]
      PROVE  /\ e \in Queues /\ e.call = Null /\ e.worker = w
             /\ SameMode(k, e) /\ SameImages(k, e) /\ SameTexts(k, e)
             /\ e.failures = k.failures
  BY ZenonT(60), <1>1, <1>2 DEF Queues, SameMode, SameImages, SameTexts
<1> QED
  BY <1>2 DEF Answered, w

LEMMA CallTypes ==
  ASSUME NEW call \in Calls
  PROVE  /\ call # Null
         /\ call.t \in {"image", "hud", "text", "page"}
         /\ call.t = "image" => call.c \in Containers /\ call.bytes \in AllImages
         /\ call.t = "hud"   => call.job \in Jobs
         /\ call.t = "text"  => call.job \in TextJobs
         /\ call.t = "page"  => /\ call.hud \in {Text(job) : job \in Jobs} \union {Null}
                                /\ call.msg \in Texts /\ call.status \in Texts
<1>1. call # Null
  BY NullAssumption
<1> QED
  BY <1>1 DEF Calls

--------------------------------------------------------------------------------
(* push.                                                                       *)

LEMMA JobFacts ==
  ASSUME NEW job \in Jobs
  PROVE  /\ job # Null /\ job.message \in Messages
         /\ OneLine[job.message] \in Texts
         /\ \A c \in Containers : Bytes(c, job) \in AllImages
<1>1. job # Null /\ job \in HudJobs
  BY NullAssumption, QueueAssumption
<1>2. job.message \in Messages
  BY <1>1 DEF HudJobs
<1>3. OneLine[job.message] \in Texts
  BY <1>2, QueueAssumption DEF Texts
<1>4. \A c \in Containers : Bytes(c, job) \in AllImages
  BY DEF AllImages, Images
<1> QED
  BY <1>1, <1>2, <1>3, <1>4

\* What is pushed becomes the latest.
Latest(k, job) == [k EXCEPT !.latest = job, !.message = OneLine[job.message]]

LEMMA LatestFacts ==
  ASSUME NEW k \in Queues, NEW job \in Jobs
  PROVE  /\ Latest(k, job) \in Queues
         /\ Latest(k, job).latest = job /\ Latest(k, job).message = OneLine[job.message]
         /\ Latest(k, job).mode = k.mode /\ Latest(k, job).worker = k.worker
         /\ Latest(k, job).pending = k.pending /\ Latest(k, job).jobs = k.jobs
         /\ Latest(k, job).pushed = k.pushed /\ Latest(k, job).lastStatus = k.lastStatus
         /\ Latest(k, job).lost = k.lost /\ Latest(k, job).timer = k.timer
         /\ Latest(k, job).wake = k.wake
         /\ SameImages(k, Latest(k, job)) /\ SameCall(k, Latest(k, job))
<1> DEFINE line == OneLine[job.message]
<1>1. line \in Texts
  BY JobFacts
<1> HIDE DEF line
<1>2. ASSUME NEW e, e = [k EXCEPT !.latest = job, !.message = line]
      PROVE  /\ e \in Queues /\ e.latest = job /\ e.message = line
             /\ e.mode = k.mode /\ e.worker = k.worker
             /\ e.pending = k.pending /\ e.jobs = k.jobs
             /\ e.pushed = k.pushed /\ e.lastStatus = k.lastStatus
             /\ e.lost = k.lost /\ e.timer = k.timer /\ e.wake = k.wake
             /\ SameImages(k, e) /\ SameCall(k, e)
  BY ZenonT(60), <1>1, <1>2 DEF Queues, SameImages, SameCall
<1> QED
  BY <1>2 DEF Latest, line

LEMMA PushImagesFacts ==
  ASSUME NEW k \in Queues, NEW job \in Jobs
  PROVE  LET e == PushImages(k, job)
         IN  /\ e \in Queues /\ SameMode(k, e) /\ SameTexts(k, e) /\ SameCall(k, e)
             /\ e.worker = k.worker /\ e.lastSent = k.lastSent
             /\ \A c \in Containers : e.desired[c] = Bytes(c, job)
             /\ e.dirty = {c \in Containers : k.lastSent[c] # Bytes(c, job)}
<1> DEFINE dirty == {c \in Containers : k.lastSent[c] # Bytes(c, job)}
           desired == [c \in Containers |-> Bytes(c, job)]
           none == {}
           now == (k.immediate \/ IsBottomImmediate(k, job)) /\ PendingOf(Bottoms, dirty) # {}
<1>1. /\ dirty \in SUBSET Containers /\ none \in SUBSET Containers
      /\ desired \in [Containers -> AllImages \union {Null}]
      /\ now \in BOOLEAN
  BY JobFacts
<1>2. \A c \in Containers : desired[c] = Bytes(c, job)
  OBVIOUS
<1>3. PushImages(k, job)
        = [k EXCEPT !.desired = desired, !.dirty = dirty, !.retried = none, !.immediate = now]
  BY DEF PushImages
<1> HIDE DEF dirty, desired, none, now
<1>4. ASSUME NEW e,
             e = [k EXCEPT !.desired = desired, !.dirty = dirty, !.retried = none, !.immediate = now]
      PROVE  /\ e \in Queues /\ SameMode(k, e) /\ SameTexts(k, e) /\ SameCall(k, e)
             /\ e.worker = k.worker /\ e.lastSent = k.lastSent
             /\ e.desired = desired /\ e.dirty = dirty
  BY ZenonT(60), <1>1, <1>4 DEF Queues, SameMode, SameTexts, SameCall
<1> QED
  BY <1>2, <1>3, <1>4 DEF dirty

LEMMA ImagePush ==
  ASSUME NEW k, NEW g, NEW job \in Jobs, Core(k, g), k.mode = "image"
  PROVE  LET e == Latest(PushImages(k, job), job)
         IN  Core(e, g) /\ e.worker = k.worker
<1> DEFINE p == PushImages(k, job)
           e == Latest(p, job)
<1>1. k \in Queues
  BY DEF Core
<1>2. /\ p \in Queues /\ SameMode(k, p) /\ SameTexts(k, p) /\ SameCall(k, p)
      /\ p.worker = k.worker /\ p.lastSent = k.lastSent
      /\ \A c \in Containers : p.desired[c] = Bytes(c, job)
      /\ p.dirty = {c \in Containers : k.lastSent[c] # Bytes(c, job)}
  BY <1>1, PushImagesFacts
<1> HIDE DEF p
<1>3. /\ e \in Queues /\ e.latest = job /\ e.message = OneLine[job.message]
      /\ e.mode = p.mode /\ e.worker = p.worker /\ e.pending = p.pending
      /\ e.jobs = p.jobs /\ e.pushed = p.pushed /\ e.lastStatus = p.lastStatus
      /\ e.lost = p.lost /\ SameImages(p, e) /\ SameCall(p, e)
  BY <1>2, LatestFacts
<1> HIDE DEF e
<1>4. /\ e.mode = "image" /\ e.pending = k.pending /\ e.jobs = k.jobs /\ e.call = k.call
      /\ e.worker = k.worker /\ e.lastSent = k.lastSent /\ e.pushed = k.pushed
      /\ e.lastStatus = k.lastStatus /\ e.lost = k.lost
      /\ \A c \in Containers : e.desired[c] = Bytes(c, job)
      /\ e.dirty = {c \in Containers : k.lastSent[c] # Bytes(c, job)}
  BY <1>2, <1>3 DEF SameMode, SameTexts, SameCall, SameImages
<1>5. job # Null
  BY JobFacts
<1>6. CallSound(e) /\ ModeSound(e)
  BY <1>3, <1>4, <1>5 DEF Core, CallSound, ModeSound, InFlight
<1>7. ImageSound(e, g)
  BY <1>3, <1>4, <1>5 DEF Core, ImageSound, Known
<1>8. HudSound(e, g) /\ MsgSound(e, g)
  BY <1>3, <1>4 DEF HudSound, MsgSound
<1>9. StatusSound(e, g)
  BY <1>4 DEF Core, StatusSound, StatusShown, Writes, InFlight
<1> QED
  BY <1>3, <1>4, <1>6, <1>7, <1>8, <1>9 DEF Core, e, p

LEMMA PushTextFacts ==
  ASSUME NEW k \in Queues, NEW job \in Jobs
  PROVE  LET e == PushText(k, job)
             line == OneLine[job.message]
         IN  /\ e \in Queues /\ SameMode(k, e) /\ SameImages(k, e) /\ SameCall(k, e)
             /\ e.worker = k.worker /\ e.timer = k.timer /\ e.wake = k.wake
             /\ e.message = k.message /\ e.pushed = k.pushed
             /\ e.lastStatus = k.lastStatus /\ e.lost = k.lost
             /\ IF line = k.message THEN e.jobs = k.jobs
                ELSE e.jobs = Append(k.jobs, [kind |-> "msg", text |-> line])
             /\ IF SameText(k.latest, job) THEN e.pending = k.pending
                ELSE e.pending # Null /\ e.pending.job = job
<1> DEFINE line == OneLine[job.message]
           news == Append(k.jobs, [kind |-> "msg", text |-> line])
           jobs == IF line = k.message THEN k.jobs ELSE news
           next == [job |-> job,
                    immediate |-> IsTextImmediate(k, job)
                                    \/ (k.pending # Null /\ k.pending.immediate)]
           told == IF line = k.message THEN k ELSE [k EXCEPT !.jobs = news]
<1>1. line \in Texts /\ k.jobs \in Seq(TextJobs)
  BY JobFacts DEF Queues
<1>2. [kind |-> "msg", text |-> line] \in TextJobs
  BY <1>1 DEF TextJobs, TextKinds
<1>3. news \in Seq(TextJobs)
  BY <1>1, <1>2, AppendProperties
<1>4. IsTextImmediate(k, job) \in BOOLEAN
  BY DEF IsTextImmediate
<1>5. k.pending # Null => k.pending.immediate \in BOOLEAN
  BY DEF Queues, Pendings
<1>6. next \in Pendings
  BY <1>4, <1>5 DEF Pendings
<1>7. next # Null /\ next.job = job
  BY <1>6, NullAssumption
<1>8. PushText(k, job) = IF SameText(k.latest, job) THEN told ELSE [told EXCEPT !.pending = next]
  <2>1. told.pending = k.pending
    BY <1>3 DEF Queues
  <2> QED
    BY <2>1 DEF PushText, IsTextImmediate
<1> HIDE DEF next, news
<1>9. /\ told \in Queues /\ SameMode(k, told) /\ SameImages(k, told) /\ SameCall(k, told)
      /\ told.worker = k.worker /\ told.timer = k.timer /\ told.wake = k.wake
      /\ told.message = k.message /\ told.pushed = k.pushed
      /\ told.lastStatus = k.lastStatus /\ told.lost = k.lost
      /\ told.jobs = jobs /\ told.pending = k.pending
  <2>1. ASSUME NEW e, e = [k EXCEPT !.jobs = news]
        PROVE  /\ e \in Queues /\ SameMode(k, e) /\ SameImages(k, e) /\ SameCall(k, e)
               /\ e.worker = k.worker /\ e.timer = k.timer /\ e.wake = k.wake
               /\ e.message = k.message /\ e.pushed = k.pushed
               /\ e.lastStatus = k.lastStatus /\ e.lost = k.lost
               /\ e.jobs = news /\ e.pending = k.pending
    BY ZenonT(60), <1>3, <2>1 DEF Queues, SameMode, SameImages, SameCall
  <2>2. SameMode(k, k) /\ SameImages(k, k) /\ SameCall(k, k)
    BY DEF SameMode, SameImages, SameCall
  <2> QED
    BY <2>1, <2>2
<1> HIDE DEF told
<1>10. ASSUME NEW e, e = [told EXCEPT !.pending = next]
       PROVE  /\ e \in Queues /\ SameMode(told, e) /\ SameImages(told, e) /\ SameCall(told, e)
              /\ e.worker = told.worker /\ e.timer = told.timer /\ e.wake = told.wake
              /\ e.message = told.message /\ e.pushed = told.pushed
              /\ e.lastStatus = told.lastStatus /\ e.lost = told.lost
              /\ e.jobs = told.jobs /\ e.pending = next
  BY ZenonT(60), <1>6, <1>9, <1>10 DEF Queues, SameMode, SameImages, SameCall
<1> DEFINE e == PushText(k, job)
<1>11. /\ e \in Queues /\ SameMode(k, e) /\ SameImages(k, e) /\ SameCall(k, e)
       /\ e.worker = k.worker /\ e.timer = k.timer /\ e.wake = k.wake
       /\ e.message = k.message /\ e.pushed = k.pushed
       /\ e.lastStatus = k.lastStatus /\ e.lost = k.lost
       /\ e.jobs = jobs
       /\ IF SameText(k.latest, job) THEN e.pending = k.pending ELSE e.pending = next
  <2>1. CASE SameText(k.latest, job)
    BY <1>8, <1>9, <2>1
  <2>2. CASE ~SameText(k.latest, job)
    <3>1. e = [told EXCEPT !.pending = next]
      BY <1>8, <2>2
    <3> QED
      BY <1>9, <1>10, <2>2, <3>1 DEF SameMode, SameImages, SameCall
  <2> QED
    BY <2>1, <2>2
<1> QED
  BY <1>7, <1>11 DEF news

LEMMA TextPush ==
  ASSUME NEW k, NEW g, NEW job \in Jobs, Core(k, g), k.mode = "text"
  PROVE  LET e == Latest(PushText(k, job), job)
         IN  /\ Core(e, g) /\ e.worker = k.worker /\ e.timer = k.timer /\ e.wake = k.wake
             /\ e.mode = k.mode
             /\ SameText(k.latest, job) => e.pending = k.pending
             /\ OneLine[job.message] = k.message => e.jobs = k.jobs
<1> DEFINE p == PushText(k, job)
           e == Latest(p, job)
           line == OneLine[job.message]
           news == [kind |-> "msg", text |-> line]
<1>1. k \in Queues /\ k.jobs \in Seq(TextJobs)
  BY DEF Core, Queues
<1>2. /\ p \in Queues /\ SameMode(k, p) /\ SameImages(k, p) /\ SameCall(k, p)
      /\ p.worker = k.worker /\ p.timer = k.timer /\ p.wake = k.wake
      /\ p.message = k.message /\ p.pushed = k.pushed
      /\ p.lastStatus = k.lastStatus /\ p.lost = k.lost
      /\ IF line = k.message THEN p.jobs = k.jobs ELSE p.jobs = Append(k.jobs, news)
      /\ IF SameText(k.latest, job) THEN p.pending = k.pending
         ELSE p.pending # Null /\ p.pending.job = job
  BY <1>1, PushTextFacts
<1> HIDE DEF p
<1>3. /\ e \in Queues /\ e.latest = job /\ e.message = line
      /\ e.mode = p.mode /\ e.worker = p.worker /\ e.pending = p.pending
      /\ e.jobs = p.jobs /\ e.pushed = p.pushed /\ e.lastStatus = p.lastStatus
      /\ e.lost = p.lost /\ e.timer = p.timer /\ e.wake = p.wake /\ SameImages(p, e) /\ SameCall(p, e)
  BY <1>2, LatestFacts
<1> HIDE DEF e
<1>4. /\ e.mode = "text" /\ e.call = k.call /\ e.worker = k.worker
      /\ SameImages(k, e) /\ e.pushed = k.pushed /\ e.lastStatus = k.lastStatus
      /\ e.lost = k.lost /\ e.timer = k.timer /\ e.wake = k.wake
      /\ IF line = k.message THEN e.jobs = k.jobs ELSE e.jobs = Append(k.jobs, news)
      /\ IF SameText(k.latest, job) THEN e.pending = k.pending
         ELSE e.pending # Null /\ e.pending.job = job
  BY <1>2, <1>3 DEF SameMode, SameImages, SameCall
<1>5. job # Null /\ line \in Texts
  BY JobFacts
<1>6. news \in TextJobs /\ news.kind = "msg" /\ news.text = line
  BY <1>5 DEF TextJobs, TextKinds
<1> HIDE DEF news
<1>7. CallSound(e) /\ ModeSound(e)
  BY <1>3, <1>4, <1>5 DEF Core, CallSound, ModeSound, InFlight
<1>8. ImageSound(e, g)
  BY <1>3, <1>4, <1>5 DEF Core, ImageSound, SameImages
<1>9. HudSound(e, g)
  <2>1. CASE SameText(k.latest, job)
    <3>1. k.latest # Null /\ Text(k.latest) = Text(job) /\ e.pending = k.pending
      BY <1>4, <2>1 DEF SameText
    <3> QED
      BY <1>3, <1>4, <3>1 DEF Core, HudSound, HudShown, InFlight
  <2>2. CASE ~SameText(k.latest, job)
    BY <1>3, <1>4, <2>2 DEF HudSound
  <2> QED
    BY <2>1, <2>2
<1>10. MsgSound(e, g)
  <2>1. CASE line = k.message
    BY <1>3, <1>4, <2>1 DEF Core, MsgSound, MsgShown, Writes, InFlight
  <2>2. CASE line # k.message
    <3>1. LastIs(e.jobs, "msg", line) /\ ~NoJob(e.jobs, "msg")
      BY <1>1, <1>4, <1>6, <2>2, AppendedJob
    <3> QED
      BY <1>3, <3>1 DEF MsgSound
  <2> QED
    BY <2>1, <2>2
<1>11. StatusSound(e, g)
  <2>1. /\ LastIs(k.jobs, "status", k.pushed) => LastIs(e.jobs, "status", k.pushed)
        /\ NoJob(e.jobs, "status") <=> NoJob(k.jobs, "status")
    <3>1. CASE line = k.message
      BY <1>4, <3>1
    <3>2. CASE line # k.message
      <4>1. news.kind # "status"
        BY <1>6
      <4> QED
        BY <1>1, <1>4, <1>6, <3>2, <4>1, AppendedJob
    <3> QED
      BY <3>1, <3>2
  <2> QED
    BY <1>4, <2>1 DEF Core, StatusSound, StatusShown, Writes, InFlight
<1>12. Core(e, g)
  BY <1>3, <1>7, <1>8, <1>9, <1>10, <1>11 DEF Core
<1> QED
  BY <1>2, <1>4, <1>12 DEF e, p, line, SameMode

--------------------------------------------------------------------------------
(* A lap of the worker.                                                        *)

LEMMA AtRest ==
  ASSUME NEW k, NEW g, Core(k, g), k.worker = "lap"
  PROVE  k \in Queues /\ k.call = Null
<1>1. k \in Queues /\ CallSound(k)
  BY DEF Core
<1>2. k.worker # "call"
  OBVIOUS
<1> QED
  BY <1>1, <1>2 DEF CallSound

Taken(k, dirty, flush) == [k EXCEPT !.dirty = dirty, !.flush = flush]

LEMMA TakenImage ==
  ASSUME NEW k \in Queues, NEW dirty \in SUBSET Containers, NEW flush \in Seq(Ids(Bottoms)),
         NEW e, e = Taken(k, dirty, flush)
  PROVE  /\ e \in Queues /\ SameMode(k, e) /\ SameTexts(k, e) /\ SameCall(k, e)
         /\ e.worker = k.worker /\ e.lastSent = k.lastSent /\ e.desired = k.desired
         /\ e.retried = k.retried /\ e.dirty = dirty
BY ZenonT(60) DEF Taken, Queues, SameMode, SameTexts, SameCall

Opened(k, flush, zero, no, latest) ==
  [k EXCEPT !.flush = flush, !.sinceBottom = zero, !.immediate = no, !.basis = latest]

LEMMA OpenedFlush ==
  ASSUME NEW k \in Queues, NEW flush \in Seq(Ids(Bottoms)), NEW zero \in Ages,
         NEW no \in BOOLEAN, NEW latest \in Jobs \union {Null},
         NEW e, e = Opened(k, flush, zero, no, latest)
  PROVE  e \in Queues /\ Same(k, e) /\ e.worker = k.worker
<1>1. e \in Queues
  BY ZenonT(60) DEF Opened, Queues
<1>2. Same(k, e) /\ e.worker = k.worker
  BY DEF Opened, Queues, Same, SameMode, SameImages, SameTexts, SameCall
<1> QED
  BY <1>1, <1>2

LEMMA SendImageSound ==
  ASSUME NEW k, NEW g, NEW c, Core(k, g), k.worker = "lap", k.mode = "image", c \in k.dirty
  PROVE  Core(SendImage(k, c), g) /\ SendImage(k, c).worker \in Awake
<1> DEFINE dirty == k.dirty \ {c}
           flush == Without(k.flush, c)
           one == Taken(k, dirty, flush)
           call == [t |-> "image", c |-> c, bytes |-> k.desired[c]]
<1>1. k \in Queues /\ k.call = Null /\ c \in Containers
  BY AtRest DEF Queues
<1>2. /\ k.latest # Null /\ k.latest \in Jobs /\ \A b \in Containers : k.desired[b] = Bytes(b, k.latest)
      /\ \A b \in Containers : Known(k, b)
  BY <1>1 DEF Core, ImageSound, Queues
<1>3. dirty \in SUBSET Containers /\ flush \in Seq(Ids(Bottoms))
  <2>1. k.flush \in Seq(Ids(Bottoms)) /\ k.dirty \subseteq Containers
    BY <1>1 DEF Queues
  <2> QED
    BY <2>1, HeadTailProperties, EmptySeq DEF Without
<1>4. SendImage(k, c) = IF k.lastSent[c] = k.desired[c] THEN one ELSE In(one, call)
  BY <1>1 DEF SendImage, Taken, Queues
<1> HIDE DEF flush, dirty
<1>5. /\ one \in Queues /\ SameMode(k, one) /\ SameTexts(k, one) /\ SameCall(k, one)
      /\ one.worker = k.worker /\ one.lastSent = k.lastSent /\ one.desired = k.desired
      /\ one.retried = k.retried /\ one.dirty = dirty
  BY <1>1, <1>3, TakenImage
<1> HIDE DEF one
<1>6. \A b \in Containers : b # c => Known(one, b)
  BY <1>1, <1>2, <1>5 DEF Known, Sends, InFlight, SameCall, dirty
<1>7. k.latest = Null => dirty = {}
  BY <1>2
<1>8. CASE k.lastSent[c] = k.desired[c]
  <2>1. Known(one, c)
    BY <1>5, <1>8 DEF Known
  <2>2. ImageSound(one, g)
    BY <1>2, <1>5, <1>6, <2>1 DEF Core, ImageSound, SameMode
  <2>3. CallSound(one) /\ ModeSound(one)
    BY <1>5 DEF Core, CallSound, ModeSound, InFlight, SameMode, SameCall, SameTexts
  <2>4. HudSound(one, g) /\ MsgSound(one, g)
    BY <1>5 DEF Core, HudSound, MsgSound, SameMode, SameTexts
  <2>5. StatusSound(one, g)
    BY <1>5 DEF Core, StatusSound, StatusShown, Writes, InFlight, SameCall, SameTexts
  <2>6. one.worker \in Awake
    BY <1>5 DEF Awake
  <2> QED
    BY <1>4, <1>5, <1>8, <2>2, <2>3, <2>4, <2>5, <2>6 DEF Core
<1>9. CASE k.lastSent[c] # k.desired[c]
  <2> DEFINE e == In(one, call)
  <2>1. call \in Calls /\ call.t = "image" /\ call.c = c
    <3>1. k.desired[c] \in AllImages
      BY <1>1, <1>2, JobFacts
    <3> QED
      BY <1>1, <3>1 DEF Calls
  <2>2. call # Null
    BY <2>1, CallTypes
  <2> HIDE DEF call
  <2>3. /\ e \in Queues /\ e.call = call /\ e.worker = "call"
        /\ SameMode(one, e) /\ SameImages(one, e) /\ SameTexts(one, e)
    BY <1>5, <2>1, InFacts
  <2> HIDE DEF e
  <2>4. /\ e.mode = "image" /\ e.latest = k.latest /\ SameTexts(k, e)
        /\ e.lastSent = k.lastSent /\ e.desired = k.desired /\ e.dirty = dirty
        /\ e.retried = k.retried
    BY <1>5, <2>3 DEF SameMode, SameImages, SameTexts
  <2>5. CallSound(e) /\ ModeSound(e)
    BY <1>2, <2>1, <2>2, <2>3, <2>4 DEF Core, CallSound, ModeSound, InFlight, SameTexts
  <2>6. Sends(e, c)
    BY <2>1, <2>2, <2>3 DEF Sends, InFlight
  <2>7. \A b \in Containers : Known(e, b)
    BY <1>1, <1>2, <1>6, <2>4, <2>6, <1>5 DEF Known, Sends, InFlight, SameCall
  <2>8. ImageSound(e, g)
    BY <1>2, <2>4, <2>7 DEF Core, ImageSound
  <2>9. HudSound(e, g) /\ MsgSound(e, g)
    BY <2>4 DEF Core, HudSound, MsgSound, SameTexts
  <2>10. StatusSound(e, g)
    BY <1>1, <2>1, <2>3, <2>4 DEF Core, StatusSound, StatusShown, Writes, InFlight, SameTexts
  <2>11. Core(e, g) /\ e.worker \in Awake
    BY <2>3, <2>5, <2>8, <2>9, <2>10 DEF Core, Awake
  <2> QED
    BY <1>4, <1>9, <2>11 DEF e
<1> QED
  BY <1>8, <1>9

LEMMA OpenFlushFacts ==
  ASSUME NEW k \in Queues, PendingOf(Bottoms, k.dirty) # {}
  PROVE  OpenFlush(k) \in Queues /\ Same(k, OpenFlush(k)) /\ OpenFlush(k).worker = k.worker
<1> DEFINE flush == InOrder(Bottoms, k.dirty)
           zero == 0
           no == FALSE
           latest == k.latest
<1>1. /\ flush \in Seq(Ids(Bottoms)) /\ zero \in Ages /\ no \in BOOLEAN
      /\ latest \in Jobs \union {Null}
  <2>1. k.dirty \in SUBSET Containers /\ latest \in Jobs \union {Null}
    BY DEF Queues
  <2>2. flush \in Seq(Ids(Bottoms))
    BY <2>1, FirstPending
  <2>3. zero \in Ages
    BY Bounds DEF Ages
  <2> QED
    BY <2>1, <2>2, <2>3
<1>2. OpenFlush(k) = Opened(k, flush, zero, no, latest)
  BY DEF OpenFlush, Opened
<1> HIDE DEF flush, zero, no, latest
<1> QED
  BY <1>1, <1>2, OpenedFlush

LEMMA NextImageSound ==
  ASSUME NEW k, NEW g, Core(k, g), k.worker = "lap", k.mode = "image", ImageDue(k),
         k.flush # <<>> => Head(k.flush) \in k.dirty
  PROVE  Core(NextImage(k), g) /\ NextImage(k).worker \in Awake
<1>1. k \in Queues /\ k.dirty \in SUBSET Containers /\ k.flush \in Seq(Ids(Bottoms))
  BY AtRest DEF Queues
<1>2. CASE k.flush # <<>>
  <2>1. NextImage(k) = SendImage(k, Head(k.flush))
    BY <1>2 DEF NextImage
  <2> QED
    BY <1>2, <2>1, SendImageSound
<1>3. CASE k.flush = <<>> /\ PendingOf(Tops, k.dirty) # {}
  <2>1. NextImage(k) = SendImage(k, FirstOf(Tops, k.dirty))
    BY <1>3 DEF NextImage
  <2>2. FirstOf(Tops, k.dirty) \in k.dirty
    BY <1>1, <1>3, FirstPending
  <2> QED
    BY <2>1, <2>2, SendImageSound
<1>4. CASE k.flush = <<>> /\ ~(PendingOf(Tops, k.dirty) # {})
  <2> DEFINE o == OpenFlush(k)
             c == FirstOf(Bottoms, k.dirty)
  <2>1. NextImage(k) = SendImage(o, c)
    BY <1>4 DEF NextImage
  <2>2. PendingOf(Bottoms, k.dirty) # {}
    BY <1>4 DEF ImageDue
  <2>3. o \in Queues /\ Same(k, o) /\ o.worker = k.worker
    BY <1>1, <2>2, OpenFlushFacts
  <2>4. c \in k.dirty
    BY <1>1, <2>2, FirstPending
  <2> HIDE DEF o, c
  <2>5. Core(o, g) /\ o.worker = "lap" /\ o.mode = "image" /\ c \in o.dirty
    BY <2>3, <2>4, SameCore DEF Same, SameMode, SameImages
  <2> QED
    BY <2>1, <2>5, SendImageSound
<1> QED
  BY <1>2, <1>3, <1>4

TakenHud(k) == [k EXCEPT !.pending = Null]

LEMMA TakenHudFacts ==
  ASSUME NEW k \in Queues, NEW e, e = TakenHud(k)
  PROVE  /\ e \in Queues /\ SameMode(k, e) /\ SameImages(k, e) /\ e.pending = Null
         /\ e.jobs = k.jobs /\ e.message = k.message /\ e.pushed = k.pushed
         /\ e.lastStatus = k.lastStatus /\ e.lost = k.lost
BY ZenonT(60) DEF TakenHud, Queues, SameMode, SameImages

LEMMA SendHudTextSound ==
  ASSUME NEW k, NEW g, Core(k, g), k.worker = "lap", k.mode = "text", k.pending # Null
  PROVE  Core(SendHudText(k), g) /\ SendHudText(k).worker \in Awake
<1> DEFINE one == TakenHud(k)
           call == [t |-> "hud", job |-> k.pending.job]
           e == In(one, call)
<1>1. k \in Queues /\ k.call = Null
  BY AtRest
<1>2. k.pending.job \in Jobs
  BY <1>1 DEF Queues, Pendings
<1>3. call \in Calls /\ call.t = "hud" /\ call.job = k.pending.job
  BY <1>2 DEF Calls
<1>4. call # Null
  BY <1>3, CallTypes
<1>5. SendHudText(k) = e
  BY DEF SendHudText, TakenHud
<1> HIDE DEF call
<1>6. /\ one \in Queues /\ SameMode(k, one) /\ SameImages(k, one) /\ one.pending = Null
      /\ one.jobs = k.jobs /\ one.message = k.message /\ one.pushed = k.pushed
      /\ one.lastStatus = k.lastStatus /\ one.lost = k.lost
  BY <1>1, TakenHudFacts
<1> HIDE DEF one
<1>7. /\ e \in Queues /\ e.call = call /\ e.worker = "call"
      /\ SameMode(one, e) /\ SameImages(one, e) /\ SameTexts(one, e)
  BY <1>3, <1>6, InFacts
<1> HIDE DEF e
<1>8. /\ e.mode = "text" /\ e.latest = k.latest /\ e.lastSent = k.lastSent
      /\ e.dirty = k.dirty /\ e.pending = Null
      /\ e.jobs = k.jobs /\ e.message = k.message /\ e.pushed = k.pushed
      /\ e.lastStatus = k.lastStatus /\ e.lost = k.lost
  BY <1>6, <1>7 DEF SameMode, SameImages, SameTexts
<1>9. CallSound(e) /\ ModeSound(e)
  BY <1>3, <1>4, <1>7, <1>8 DEF CallSound, ModeSound, InFlight
<1>10. ImageSound(e, g)
  BY <1>8 DEF Core, ImageSound
<1>11. HudSound(e, g)
  BY <1>3, <1>4, <1>7, <1>8 DEF Core, HudSound, HudShown, InFlight
<1>12. MsgSound(e, g)
  BY <1>1, <1>3, <1>7, <1>8 DEF Core, MsgSound, MsgShown, Writes, InFlight
<1>13. StatusSound(e, g)
  BY <1>1, <1>3, <1>7, <1>8 DEF Core, StatusSound, StatusShown, Writes, InFlight
<1>14. e.worker \in Awake
  BY <1>7 DEF Awake
<1> QED
  BY <1>5, <1>7, <1>9, <1>10, <1>11, <1>12, <1>13, <1>14 DEF Core

TakenText(k, jobs, status) == [k EXCEPT !.jobs = jobs, !.lastStatus = status]

LEMMA TakenTextFacts ==
  ASSUME NEW k \in Queues, NEW jobs \in Seq(TextJobs), NEW status \in Texts,
         NEW e, e = TakenText(k, jobs, status)
  PROVE  /\ e \in Queues /\ SameMode(k, e) /\ SameImages(k, e)
         /\ e.pending = k.pending /\ e.message = k.message /\ e.pushed = k.pushed
         /\ e.lost = k.lost /\ e.jobs = jobs /\ e.lastStatus = status
BY ZenonT(60) DEF TakenText, Queues, SameMode, SameImages

LEMMA SendTextJobSound ==
  ASSUME NEW k, NEW g, Core(k, g), k.worker = "lap", k.jobs # <<>>
  PROVE  Core(SendTextJob(k), g) /\ SendTextJob(k).worker \in Awake
<1> DEFINE job == Head(k.jobs)
           jobs == Tail(k.jobs)
           status == IF job.kind = "status" THEN job.text ELSE k.lastStatus
           one == TakenText(k, jobs, status)
           call == [t |-> "text", job |-> job]
           e == In(one, call)
<1>1. k \in Queues /\ k.call = Null /\ k.jobs \in Seq(TextJobs) /\ k.lastStatus \in Texts
  BY AtRest DEF Queues
<1>2. SendTextJob(k) = e
  BY <1>1 DEF SendTextJob, TakenText, Queues
<1>3. jobs \in Seq(TextJobs) /\ job \in TextJobs
  BY <1>1, TakenJob
<1>4. \A kind, text :
        /\ LastIs(k.jobs, kind, text) => LastIs(jobs, kind, text)
        /\ NoJob(k.jobs, kind) => NoJob(jobs, kind) /\ job.kind # kind
        /\ NoJob(jobs, kind) /\ job.kind = kind /\ LastIs(k.jobs, kind, text) => job.text = text
        /\ NoJob(jobs, kind) /\ job.kind # kind => NoJob(k.jobs, kind)
  BY <1>1, TakenJob
<1> HIDE DEF job, jobs
<1>5. status \in Texts
  BY <1>1, <1>3 DEF TextJobs
<1>6. call \in Calls /\ call.t = "text" /\ call.job = job
  BY <1>3 DEF Calls
<1>7. call # Null
  BY <1>6, CallTypes
<1> HIDE DEF call
<1>8. /\ one \in Queues /\ SameMode(k, one) /\ SameImages(k, one)
      /\ one.pending = k.pending /\ one.message = k.message /\ one.pushed = k.pushed
      /\ one.lost = k.lost /\ one.jobs = jobs /\ one.lastStatus = status
  BY <1>1, <1>3, <1>5, TakenTextFacts
<1> HIDE DEF one
<1>9. /\ e \in Queues /\ e.call = call /\ e.worker = "call"
      /\ SameMode(one, e) /\ SameImages(one, e) /\ SameTexts(one, e)
  BY <1>6, <1>8, InFacts
<1> HIDE DEF e
<1>10. /\ SameMode(k, e) /\ SameImages(k, e)
       /\ e.pending = k.pending /\ e.message = k.message /\ e.pushed = k.pushed
       /\ e.lost = k.lost /\ e.jobs = jobs /\ e.lastStatus = status
  BY <1>8, <1>9 DEF SameMode, SameImages, SameTexts
<1>11. CallSound(e) /\ ModeSound(e)
  BY <1>4, <1>6, <1>7, <1>9, <1>10 DEF Core, CallSound, ModeSound, InFlight, SameMode
<1>12. ImageSound(e, g)
  BY <1>1, <1>10 DEF Core, ImageSound, Known, Sends, InFlight, SameMode, SameImages
<1>13. HudSound(e, g)
  BY <1>1, <1>6, <1>9, <1>10 DEF Core, HudSound, HudShown, InFlight, SameMode
<1>14. MsgSound(e, g)
  <2>1. MsgSound(k, g)
    BY DEF Core
  <2>2. ASSUME k.mode = "text" PROVE LastIs(jobs, "msg", k.message)
    BY <1>4, <2>1, <2>2 DEF MsgSound
  <2>3. ASSUME k.mode = "text", NoJob(jobs, "msg") PROVE MsgShown(e, g, k.message)
    <3>1. CASE job.kind = "msg"
      <4>1. job.text = k.message
        BY <1>4, <2>1, <2>3, <3>1 DEF MsgSound
      <4> QED
        BY <1>6, <1>7, <1>9, <3>1, <4>1 DEF MsgShown, Writes, InFlight
    <3>2. CASE job.kind # "msg"
      <4>1. MsgShown(k, g, k.message)
        BY <1>4, <2>1, <2>3, <3>2 DEF MsgSound
      <4> QED
        BY <1>1, <1>6, <1>9, <1>10, <3>2, <4>1 DEF MsgShown, Writes, InFlight
    <3> QED
      BY <3>1, <3>2
  <2> QED
    BY <1>10, <2>1, <2>2, <2>3 DEF MsgSound, SameMode
<1>15. StatusSound(e, g)
  <2>1. StatusSound(k, g)
    BY DEF Core
  <2>2. LastIs(jobs, "status", k.pushed)
    BY <1>4, <2>1 DEF StatusSound
  <2>3. CASE job.kind = "status"
    <3>1. status = job.text
      BY <2>3
    <3>2. NoJob(jobs, "status") => job.text = k.pushed
      BY <1>4, <2>1, <2>3 DEF StatusSound
    <3>3. StatusShown(e, g, job.text)
      BY <1>6, <1>7, <1>9, <2>3 DEF StatusShown, Writes, InFlight
    <3> QED
      BY <1>10, <2>2, <3>1, <3>2, <3>3 DEF StatusSound
  <2>4. CASE job.kind # "status"
    <3>1. status = k.lastStatus
      BY <2>4
    <3>2. NoJob(jobs, "status") => NoJob(k.jobs, "status")
      BY <1>4, <2>4
    <3>3. k.lastStatus # "" => StatusShown(e, g, k.lastStatus)
      BY <1>1, <1>6, <1>9, <1>10, <2>1, <2>4 DEF StatusSound, StatusShown, Writes, InFlight
    <3> QED
      BY <1>10, <2>1, <2>2, <3>1, <3>2, <3>3 DEF StatusSound
  <2> QED
    BY <2>3, <2>4
<1>16. e.worker \in Awake
  BY <1>9 DEF Awake
<1> QED
  BY <1>2, <1>9, <1>11, <1>12, <1>13, <1>14, <1>15, <1>16 DEF Core

LEMMA ArmFacts ==
  ASSUME NEW k \in Queues, NEW delay \in Ages
  PROVE  /\ Arm(k, delay) \in Queues /\ Same(k, Arm(k, delay))
         /\ Arm(k, delay).timer # Null /\ Arm(k, delay).worker = k.worker
         /\ Arm(k, delay).immediate = k.immediate
<1>1. delay # Null
  BY NullAssumption
<1>2. ASSUME NEW e, e = [k EXCEPT !.timer = delay]
      PROVE  e \in Queues /\ Same(k, e) /\ e.timer = delay /\ e.worker = k.worker
             /\ e.immediate = k.immediate
  BY ZenonT(60), <1>2 DEF Queues, Same, SameMode, SameImages, SameTexts, SameCall
<1>3. Same(k, k)
  BY DEF Same, SameMode, SameImages, SameTexts, SameCall
<1> QED
  BY <1>1, <1>2, <1>3 DEF Arm

LEMMA DelayTypes ==
  ASSUME NEW k \in Queues
  PROVE  /\ BottomDelay(k) \in Ages
         /\ k.pending # Null => TextDelay(k) \in Ages
<1>1. k.sinceBottom \in Ages /\ k.sinceText \in Ages
  BY DEF Queues
<1> QED
  BY <1>1, Bounds DEF BottomDelay, TextDelay, Ages

LEMMA RestSound ==
  ASSUME NEW k, NEW g, Core(k, g), k.worker = "lap", k.jobs = <<>>,
         ~(k.mode = "image" /\ ImageDue(k)), ~(k.mode = "text" /\ TextDue(k))
  PROVE  Core(Rest(k), g) /\ IdleSound(Rest(k))
<1> DEFINE armed == IF k.mode = "image"
                    THEN IF PendingOf(Bottoms, k.dirty) # {} THEN Arm(k, BottomDelay(k)) ELSE k
                    ELSE IF k.pending # Null THEN Arm(k, TextDelay(k)) ELSE k
           w == "end"
           wake == armed.wake
           e == Set(armed, w, wake)
<1>1. k \in Queues /\ k.dirty \subseteq Containers
  BY AtRest DEF Queues
<1>2. Same(k, k)
  BY DEF Same, SameMode, SameImages, SameTexts, SameCall
<1>3. /\ armed \in Queues /\ Same(k, armed) /\ armed.worker = k.worker
      /\ armed.immediate = k.immediate
      /\ k.mode = "image" /\ PendingOf(Bottoms, k.dirty) # {} => armed.timer # Null
      /\ k.mode = "text" /\ k.pending # Null => armed.timer # Null
  BY <1>1, <1>2, ArmFacts, DelayTypes
<1>4. Rest(k) = [armed EXCEPT !.worker = w]
  BY DEF Rest
<1> HIDE DEF armed
<1>5. Rest(k) = e
  BY <1>3, <1>4 DEF Set, Queues
<1>6. wake \in BOOLEAN
  BY <1>3 DEF Queues
<1>7. w \in Workers /\ w # "call" /\ armed.worker # "call"
  BY <1>3 DEF Workers
<1> HIDE DEF w, wake
<1>8. e \in Queues /\ Same(armed, e) /\ e.timer = armed.timer /\ e.immediate = armed.immediate
  BY <1>3, <1>6, <1>7, SetFacts
<1> HIDE DEF e
<1>9. Core(e, g)
  BY <1>3, <1>8, SameCore
<1>10. /\ e.jobs = <<>> /\ e.mode = k.mode /\ e.dirty = k.dirty /\ e.pending = k.pending
  BY <1>3, <1>8 DEF Same, SameMode, SameImages, SameTexts
<1>11. ASSUME k.mode = "image"
       PROVE  /\ Ids(Tops) \intersect k.dirty = {}
              /\ k.dirty # {} => PendingOf(Bottoms, k.dirty) # {}
  BY <1>1, <1>11, Strips DEF ImageDue, PendingOf
<1>12. ASSUME k.mode = "image", PendingOf(Bottoms, k.dirty) # {} PROVE ~k.immediate
  BY <1>12 DEF ImageDue, BottomDelay
<1>13. ASSUME k.mode = "text", k.pending # Null PROVE ~k.pending.immediate
  BY <1>13 DEF TextDue, TextDelay
<1>14. IdleSound(e)
  BY <1>3, <1>8, <1>10, <1>11, <1>12, <1>13 DEF IdleSound
<1> QED
  BY <1>5, <1>9, <1>14

\* What pump finds to be sent of the flush under way is to be sent.
Pruned(k, flush) == [k EXCEPT !.flush = flush]

LEMMA PrunedFacts ==
  ASSUME NEW k \in Queues, NEW flush \in Seq(Ids(Bottoms)), NEW e, e = Pruned(k, flush)
  PROVE  e \in Queues /\ Same(k, e) /\ e.worker = k.worker /\ e.flush = flush
BY ZenonT(60) DEF Pruned, Queues, Same, SameMode, SameImages, SameTexts, SameCall

LEMMA UndoneFacts ==
  ASSUME NEW flush \in Seq(Ids(Bottoms)), NEW dirty
  PROVE  /\ Undone(flush, dirty) \in Seq(Ids(Bottoms))
         /\ Undone(flush, dirty) # <<>> => Head(Undone(flush, dirty)) \in dirty
<1>1. flush # <<>> => Tail(flush) \in Seq(Ids(Bottoms))
  BY HeadTailProperties, EmptySeq
<1>2. <<>> \in Seq(Ids(Bottoms))
  OBVIOUS
<1> QED
  BY <1>1, <1>2 DEF Undone

LEMMA PumpSound ==
  ASSUME NEW k, NEW g, Core(k, g), k.worker = "lap"
  PROVE  Core(Pump(k), g) /\ IdleSound(Pump(k))
<1> DEFINE flush == Undone(k.flush, k.dirty)
           e == Pruned(k, flush)
<1>1. k \in Queues /\ k.flush \in Seq(Ids(Bottoms))
  BY DEF Core, Queues
<1>2. flush \in Seq(Ids(Bottoms)) /\ (flush # <<>> => Head(flush) \in k.dirty)
  BY <1>1, UndoneFacts
<1>3. Pump(k) = IF k.mode = "image" /\ ImageDue(e) THEN NextImage(e)
                ELSE IF k.mode = "text" /\ TextDue(k) THEN SendHudText(e)
                ELSE IF k.jobs # <<>> THEN SendTextJob(e) ELSE Rest(e)
  BY <1>1 DEF Pump, Pruned, Queues
<1>4. TextDue(e) <=> TextDue(k)
  BY <1>1 DEF Pruned, Queues, TextDue, TextDelay
<1> HIDE DEF flush
<1>5. e \in Queues /\ Same(k, e) /\ e.worker = k.worker /\ e.flush = flush
  BY <1>1, <1>2, PrunedFacts
<1> HIDE DEF e
<1>6. /\ Core(e, g) /\ e.worker = "lap" /\ e.mode = k.mode /\ e.jobs = k.jobs
      /\ e.flush # <<>> => Head(e.flush) \in e.dirty
  BY <1>2, <1>5, SameCore DEF Same, SameMode, SameTexts, SameImages
<1>7. CASE e.mode = "image" /\ ImageDue(e)
  <2>1. Pump(k) = NextImage(e)
    BY <1>3, <1>6, <1>7
  <2> QED
    BY <1>6, <1>7, <2>1, NextImageSound, AwakeSound
<1>8. CASE e.mode = "text" /\ TextDue(e)
  <2>1. Pump(k) = SendHudText(e) /\ e.pending # Null
    BY <1>3, <1>4, <1>6, <1>8 DEF TextDue
  <2> QED
    BY <1>6, <1>8, <2>1, SendHudTextSound, AwakeSound
<1>9. CASE ~(e.mode = "image" /\ ImageDue(e)) /\ ~(e.mode = "text" /\ TextDue(e)) /\ e.jobs # <<>>
  <2>1. Pump(k) = SendTextJob(e)
    BY <1>3, <1>4, <1>6, <1>9
  <2> QED
    BY <1>6, <1>9, <2>1, SendTextJobSound, AwakeSound
<1>10. CASE ~(e.mode = "image" /\ ImageDue(e)) /\ ~(e.mode = "text" /\ TextDue(e)) /\ e.jobs = <<>>
  <2>1. Pump(k) = Rest(e)
    BY <1>3, <1>4, <1>6, <1>10
  <2> QED
    BY <1>6, <1>10, <2>1, RestSound
<1> QED
  BY <1>7, <1>8, <1>9, <1>10

LEMMA LapStep == QueueInv /\ Lap => QueueInv'
<1> SUFFICES ASSUME QueueInv, Lap PROVE QueueInv'
  OBVIOUS
<1>1. Core(q, glasses) /\ q.worker = "lap" /\ glasses' = glasses /\ q' = Pump(q)
  BY DEF QueueInv, Lap
<1> QED
  BY <1>1, PumpSound DEF QueueInv

--------------------------------------------------------------------------------
(* run: what starts the worker and what ends it.                               *)

LEMMA RunSound ==
  ASSUME NEW k, NEW g, Core(k, g), k.worker \in {"idle", "end"}
  PROVE  Core(Run(k), g) /\ IdleSound(Run(k))
<1> DEFINE w == "lap"
           no == FALSE
           e == Set(k, w, no)
<1>1. k \in Queues /\ k.worker # "call"
  BY DEF Core
<1>2. Run(k) = Pump(e)
  BY <1>1 DEF Run, Set, Queues
<1>3. w \in Workers /\ w # "call" /\ w = "lap"
  BY DEF Workers
<1>4. no \in BOOLEAN
  OBVIOUS
<1> HIDE DEF w, no
<1>5. e \in Queues /\ Same(k, e) /\ e.worker = "lap"
  BY <1>1, <1>3, <1>4, SetFacts
<1> HIDE DEF e
<1>6. Core(e, g)
  BY <1>5, SameCore
<1> QED
  BY <1>2, <1>5, <1>6, PumpSound

\* A wake-up starts the worker, or keeps it from resting.
LEMMA Woken ==
  ASSUME NEW k, NEW g, Core(k, g)
  PROVE  Core(Schedule(k), g) /\ IdleSound(Schedule(k))
<1>1. k \in Queues
  BY DEF Core
<1>2. CASE k.worker = "idle"
  BY <1>2, RunSound DEF Schedule
<1>3. CASE k.worker # "idle"
  <2> DEFINE yes == TRUE
             e == Waking(k, yes)
  <2>1. Schedule(k) = e
    BY <1>3 DEF Schedule, Waking
  <2>2. yes \in BOOLEAN /\ yes
    OBVIOUS
  <2> HIDE DEF yes
  <2>3. e \in Queues /\ Same(k, e) /\ e.worker = k.worker /\ e.wake = yes
    BY <1>1, <2>2, WakingFacts
  <2> HIDE DEF e
  <2>4. Core(e, g)
    BY <2>3, SameCore
  <2>5. IdleSound(e)
    BY <1>3, <2>2, <2>3 DEF IdleSound, Resting
  <2> QED
    BY <2>1, <2>4, <2>5
<1> QED
  BY <1>2, <1>3

LEMMA RunEndsStep == QueueInv /\ RunEnds => QueueInv'
<1> SUFFICES ASSUME QueueInv, RunEnds PROVE QueueInv'
  OBVIOUS
<1>1. /\ Core(q, glasses) /\ IdleSound(q) /\ q \in Queues /\ q.worker = "end"
      /\ glasses' = glasses
      /\ q' = IF q.wake THEN Run(q) ELSE [q EXCEPT !.worker = "idle"]
  BY DEF QueueInv, Core, RunEnds
<1>2. CASE q.wake
  BY <1>1, <1>2, RunSound DEF QueueInv
<1>3. CASE ~q.wake
  <2> DEFINE w == "idle"
             wake == q.wake
             e == Set(q, w, wake)
  <2>1. q' = e
    BY <1>1, <1>3 DEF Set, Queues
  <2>2. w \in Workers /\ w # "call"
    BY DEF Workers
  <2>3. wake \in BOOLEAN /\ q.worker # "call"
    BY <1>1 DEF Queues
  <2> HIDE DEF w, wake
  <2>4. e \in Queues /\ Same(q, e) /\ e.timer = q.timer /\ e.immediate = q.immediate
    BY <1>1, <2>2, <2>3, SetFacts
  <2> HIDE DEF e
  <2>5. Core(e, glasses)
    BY <1>1, <2>4, SameCore
  <2>6. Resting(q)
    BY <1>1, <1>3 DEF Resting
  <2>7. IdleSound(e)
    BY <1>1, <2>4, <2>6 DEF IdleSound, Same, SameMode, SameImages, SameTexts
  <2> QED
    BY <1>1, <2>1, <2>5, <2>7 DEF QueueInv
<1> QED
  BY <1>2, <1>3

--------------------------------------------------------------------------------
(* What is pushed wakes the worker.                                           *)

LEMMA PushHudStep == QueueInv /\ PushHud => QueueInv'
<1> SUFFICES ASSUME QueueInv, NEW job \in Jobs, glasses' = glasses,
               LET pushed == IF q.mode = "image" THEN PushImages(q, job) ELSE PushText(q, job)
                   next   == [pushed EXCEPT !.latest = job, !.message = OneLine[job.message]]
               IN  q' = IF q.mode = "text" /\ SameText(q.latest, job) /\ next.message = q.message
                        THEN next ELSE Schedule(next)
             PROVE  QueueInv'
  BY DEF PushHud
<1> DEFINE pushed == IF q.mode = "image" THEN PushImages(q, job) ELSE PushText(q, job)
           next   == Latest(pushed, job)
<1>1. q' = IF q.mode = "text" /\ SameText(q.latest, job) /\ next.message = q.message
           THEN next ELSE Schedule(next)
  BY DEF Latest
<1>2. q \in Queues /\ q.mode \in {"image", "text"} /\ Core(q, glasses) /\ IdleSound(q)
  BY DEF QueueInv, Core, Queues
<1>3. pushed \in Queues
  BY <1>2, PushImagesFacts, PushTextFacts
<1>4. next.message = OneLine[job.message]
  BY <1>3, LatestFacts
<1>5. Core(next, glasses) /\ next.worker = q.worker
  BY <1>2, ImagePush, TextPush
<1>6. ASSUME q.mode = "text", SameText(q.latest, job), next.message = q.message
      PROVE  IdleSound(next)
  <2>1. /\ next.timer = q.timer /\ next.wake = q.wake /\ next.mode = "text"
        /\ next.pending = q.pending /\ next.jobs = q.jobs
    BY <1>2, <1>4, <1>6, TextPush
  <2> QED
    BY <1>2, <1>5, <1>6, <2>1 DEF IdleSound, Resting
<1> HIDE DEF pushed, next
<1>7. Core(Schedule(next), glasses) /\ IdleSound(Schedule(next))
  BY <1>5, Woken
<1> QED
  BY <1>1, <1>5, <1>6, <1>7 DEF QueueInv

LEMMA PushStatusStep == QueueInv /\ PushStatus => QueueInv'
<1> SUFFICES ASSUME QueueInv, NEW text \in Statuses, glasses' = glasses,
               q' = Schedule([q EXCEPT !.jobs = Append(@, [kind |-> "status", text |-> text]),
                                       !.pushed = text])
             PROVE  QueueInv'
  BY DEF PushStatus
<1> DEFINE news == [kind |-> "status", text |-> text]
           jobs == Append(q.jobs, news)
           e == [q EXCEPT !.jobs = jobs, !.pushed = text]
<1>1. q \in Queues /\ q.jobs \in Seq(TextJobs) /\ Core(q, glasses)
  BY DEF QueueInv, Core, Queues
<1>2. news \in TextJobs /\ news.kind = "status" /\ news.text = text
  BY DEF TextJobs, TextKinds, Texts
<1>3. q' = Schedule(e)
  BY <1>1 DEF Queues
<1> HIDE DEF news
<1>4. news.kind # "msg"
  BY <1>2
<1>5. /\ jobs \in Seq(TextJobs)
      /\ LastIs(jobs, "status", text) /\ ~NoJob(jobs, "status")
      /\ LastIs(q.jobs, "msg", q.message) => LastIs(jobs, "msg", q.message)
      /\ NoJob(jobs, "msg") <=> NoJob(q.jobs, "msg")
  BY ZenonT(60), <1>1, <1>2, <1>4, AppendedJob
<1> HIDE DEF jobs
<1>6. /\ e \in Queues /\ SameMode(q, e) /\ SameImages(q, e) /\ SameCall(q, e)
      /\ e.pending = q.pending /\ e.jobs = jobs /\ e.message = q.message
      /\ e.pushed = text /\ e.lastStatus = q.lastStatus /\ e.lost = q.lost
      /\ e.worker = q.worker
  <2>1. ASSUME NEW k \in Queues, NEW f, f = [k EXCEPT !.jobs = jobs, !.pushed = text]
        PROVE  /\ f \in Queues /\ SameMode(k, f) /\ SameImages(k, f) /\ SameCall(k, f)
               /\ f.pending = k.pending /\ f.jobs = jobs /\ f.message = k.message
               /\ f.pushed = text /\ f.lastStatus = k.lastStatus /\ f.lost = k.lost
               /\ f.worker = k.worker
    BY ZenonT(60), <1>5, <2>1 DEF Queues, SameMode, SameImages, SameCall
  <2> QED
    BY <1>1, <2>1
<1> HIDE DEF e
<1>7. CallSound(e) /\ ModeSound(e)
  BY <1>1, <1>5, <1>6 DEF Core, CallSound, ModeSound, InFlight, SameMode, SameCall
<1>8. ImageSound(e, glasses)
  BY <1>1, <1>6 DEF Core, ImageSound, Known, Sends, InFlight, SameMode, SameImages, SameCall
<1>9. HudSound(e, glasses)
  BY <1>1, <1>6 DEF Core, HudSound, HudShown, InFlight, SameMode, SameCall
<1>10. MsgSound(e, glasses)
  BY <1>1, <1>5, <1>6 DEF Core, MsgSound, MsgShown, Writes, InFlight, SameMode, SameCall
<1>11. StatusSound(e, glasses)
  BY <1>1, <1>5, <1>6 DEF Core, StatusSound, StatusShown, Writes, InFlight, SameCall
<1>12. Core(e, glasses)
  BY <1>1, <1>6, <1>7, <1>8, <1>9, <1>10, <1>11 DEF Core
<1>13. Core(Schedule(e), glasses) /\ IdleSound(Schedule(e))
  BY <1>6, <1>12, Woken
<1> QED
  BY <1>3, <1>13 DEF QueueInv

--------------------------------------------------------------------------------
(* The answers of the bridge.                                                  *)

\* An image call is of the image mode and of a HUD job.
LEMMA ImageCall ==
  ASSUME NEW k, NEW g, Core(k, g), InFlight(k, "image")
  PROVE  /\ k \in Queues /\ k.mode = "image" /\ k.latest # Null
         /\ k.call.c \in Containers /\ k.call.bytes \in AllImages
         /\ k.pending = Null /\ NoJob(k.jobs, "msg")
         /\ \A b \in Containers : k.desired[b] = Bytes(b, k.latest) /\ Known(k, b)
         /\ k.lastSent = g.image
<1>1. k \in Queues /\ ModeSound(k) /\ ImageSound(k, g)
  BY DEF Core
<1>2. k.call \in Calls /\ k.call.t = "image"
  BY <1>1 DEF Queues, InFlight
<1> QED
  BY <1>1, <1>2, CallTypes DEF ModeSound, ImageSound

With(f, c, v) == [f EXCEPT ![c] = v]

Accepted(k, retried, lastSent, failures, dirty) ==
  [k EXCEPT !.retried = retried, !.lastSent = lastSent, !.failures = failures, !.dirty = dirty]

LEMMA AcceptedFacts ==
  ASSUME NEW k \in Queues, NEW retried \in SUBSET Containers,
         NEW lastSent \in [Containers -> AllImages \union {Null}],
         NEW failures \in 0 .. SEND_FAILED_LIMIT - 1, NEW dirty \in SUBSET Containers,
         NEW e, e = Accepted(k, retried, lastSent, failures, dirty)
  PROVE  /\ e \in Queues /\ SameMode(k, e) /\ SameTexts(k, e) /\ SameCall(k, e)
         /\ e.worker = k.worker /\ e.desired = k.desired
         /\ e.retried = retried /\ e.lastSent = lastSent /\ e.dirty = dirty
<1>1. e \in Queues
  BY ZenonT(60) DEF Accepted, Queues
<1>2. /\ SameMode(k, e) /\ SameTexts(k, e) /\ SameCall(k, e)
      /\ e.worker = k.worker /\ e.desired = k.desired
      /\ e.retried = retried /\ e.lastSent = lastSent /\ e.dirty = dirty
  BY DEF Accepted, Queues, SameMode, SameTexts, SameCall
<1> QED
  BY <1>1, <1>2

Redrawn(k, c, bytes) ==
  IF k.desired[c] # bytes THEN k.dirty \union {c} ELSE k.dirty \ {c}

LEMMA SucceededFacts ==
  ASSUME NEW k \in Queues, NEW c \in Containers, NEW bytes \in AllImages
  PROVE  LET e == Succeeded(k, c, bytes)
         IN  /\ e \in Queues /\ SameMode(k, e) /\ SameTexts(k, e) /\ SameCall(k, e)
             /\ e.worker = k.worker /\ e.desired = k.desired
             /\ e.retried = k.retried \ {c}
             /\ e.lastSent = With(k.lastSent, c, bytes)
             /\ e.dirty = Redrawn(k, c, bytes)
<1> DEFINE retried == k.retried \ {c}
           lastSent == With(k.lastSent, c, bytes)
           failures == 0
           dirty == Redrawn(k, c, bytes)
<1>1. /\ retried \in SUBSET Containers /\ dirty \in SUBSET Containers
      /\ lastSent \in [Containers -> AllImages \union {Null}]
  BY DEF Queues, With, Redrawn
<1>2. failures \in 0 .. SEND_FAILED_LIMIT - 1
  BY Bounds
<1>3. Succeeded(k, c, bytes) = Accepted(k, retried, lastSent, failures, dirty)
  BY DEF Succeeded, Accepted, Queues, With, Redrawn
<1> HIDE DEF retried, lastSent, failures, dirty
<1>4. /\ Succeeded(k, c, bytes) \in Queues /\ SameMode(k, Succeeded(k, c, bytes))
      /\ SameTexts(k, Succeeded(k, c, bytes)) /\ SameCall(k, Succeeded(k, c, bytes))
      /\ Succeeded(k, c, bytes).worker = k.worker
      /\ Succeeded(k, c, bytes).desired = k.desired
      /\ Succeeded(k, c, bytes).retried = retried
      /\ Succeeded(k, c, bytes).lastSent = lastSent
      /\ Succeeded(k, c, bytes).dirty = dirty
  BY <1>1, <1>2, <1>3, AcceptedFacts
<1> QED
  BY <1>4 DEF retried, lastSent, dirty

ImagePut(g, c, bytes) == [g EXCEPT !.image[c] = bytes]

LEMMA ImageShown ==
  ASSUME NEW g \in Screens, NEW c \in Containers, NEW bytes \in AllImages,
         NEW h, h = ImagePut(g, c, bytes)
  PROVE  /\ h \in Screens /\ h.image = With(g.image, c, bytes)
         /\ h.hud = g.hud /\ h.msg = g.msg /\ h.status = g.status
<1> DEFINE image == With(g.image, c, bytes)
<1>1. image \in [Containers -> AllImages \union {Null}]
  BY DEF Screens, With
<1>2. h = [g EXCEPT !.image = image]
  BY DEF Screens, ImagePut, With
<1> HIDE DEF image
<1>3. /\ h \in Screens /\ h.image = image
      /\ h.hud = g.hud /\ h.msg = g.msg /\ h.status = g.status
  BY <1>1, <1>2 DEF Screens
<1> QED
  BY <1>3 DEF image

LEMMA ImageAcceptedStep == QueueInv /\ ImageAccepted => QueueInv'
<1> SUFFICES ASSUME QueueInv, ImageAccepted PROVE QueueInv'
  OBVIOUS
<1> DEFINE c == q.call.c
           bytes == q.call.bytes
           a == Answered(q)
           e == q'
           h == glasses'
<1>1. Core(q, glasses) /\ InFlight(q, "image") /\ q \in Queues /\ glasses \in Screens
  BY DEF QueueInv, Core, ImageAccepted, InFlight
<1>2. /\ q.mode = "image" /\ q.latest # Null /\ c \in Containers /\ bytes \in AllImages
      /\ q.pending = Null /\ NoJob(q.jobs, "msg") /\ q.lastSent = glasses.image
      /\ \A b \in Containers : q.desired[b] = Bytes(b, q.latest) /\ Known(q, b)
  BY <1>1, ImageCall
<1>3. e = Succeeded(a, c, bytes) /\ h = ImagePut(glasses, c, bytes)
  BY DEF ImageAccepted, ImagePut
<1>4. /\ h \in Screens /\ h.image = With(glasses.image, c, bytes)
      /\ h.status = glasses.status
  BY <1>1, <1>2, <1>3, ImageShown
<1>5. /\ a \in Queues /\ a.call = Null /\ a.worker = "lap"
      /\ SameMode(q, a) /\ SameImages(q, a) /\ SameTexts(q, a)
  BY <1>1, AnsweredFacts
<1>6. \A b \in Containers : b # c => ~Sends(q, b)
  BY DEF Sends
<1> HIDE DEF c, bytes, a, h, e
<1>7. /\ e \in Queues /\ SameMode(a, e) /\ SameTexts(a, e) /\ SameCall(a, e)
      /\ e.worker = a.worker /\ e.desired = a.desired
      /\ e.retried = a.retried \ {c}
      /\ e.lastSent = With(a.lastSent, c, bytes)
      /\ e.dirty = Redrawn(a, c, bytes)
  BY <1>2, <1>3, <1>5, SucceededFacts
<1>8. /\ SameMode(q, e) /\ SameTexts(q, e) /\ e.call = Null /\ e.worker = "lap"
      /\ e.desired = q.desired /\ e.retried = q.retried \ {c}
      /\ e.lastSent = With(q.lastSent, c, bytes)
      /\ e.dirty = IF q.desired[c] # bytes THEN q.dirty \union {c} ELSE q.dirty \ {c}
  BY <1>5, <1>7 DEF SameMode, SameTexts, SameCall, SameImages, Redrawn
<1>9. q.lastSent \in [Containers -> AllImages \union {Null}]
  BY <1>1 DEF Queues
<1>10. e.lastSent[c] = bytes /\ \A b \in Containers : b # c => e.lastSent[b] = q.lastSent[b]
  BY <1>2, <1>8, <1>9 DEF With
<1>11. Known(e, c)
  BY <1>8, <1>10 DEF Known
<1>12. \A b \in Containers : b # c => Known(e, b)
  BY <1>2, <1>6, <1>8, <1>10 DEF Known
<1>13. ImageSound(e, h)
  BY <1>2, <1>4, <1>8, <1>11, <1>12 DEF ImageSound, SameMode
<1>14. CallSound(e) /\ ModeSound(e)
  BY <1>2, <1>8 DEF CallSound, ModeSound, InFlight, SameMode, SameTexts
<1>15. HudSound(e, h) /\ MsgSound(e, h)
  BY <1>1, <1>2, <1>8 DEF Core, HudSound, MsgSound, SameMode, SameTexts
<1>16. StatusSound(e, h)
  BY <1>1, <1>4, <1>8 DEF Core, StatusSound, StatusShown, Writes, InFlight, SameTexts
<1>17. Core(e, h) /\ IdleSound(e)
  BY <1>4, <1>7, <1>8, <1>13, <1>14, <1>15, <1>16 DEF Core, IdleSound, Resting
<1> QED
  BY <1>17 DEF QueueInv, e, h

Retried(k, retried, dirty, flush) ==
  [k EXCEPT !.retried = retried, !.dirty = dirty, !.flush = flush]

LEMMA RetriedFacts ==
  ASSUME NEW k \in Queues, NEW retried \in SUBSET Containers, NEW dirty \in SUBSET Containers,
         NEW flush \in Seq(Ids(Bottoms)), NEW e, e = Retried(k, retried, dirty, flush)
  PROVE  /\ e \in Queues /\ SameMode(k, e) /\ SameTexts(k, e) /\ SameCall(k, e)
         /\ e.worker = k.worker /\ e.failures = k.failures
         /\ e.desired = k.desired /\ e.lastSent = k.lastSent
         /\ e.retried = retried /\ e.dirty = dirty
<1>1. e \in Queues
  BY ZenonT(60) DEF Retried, Queues
<1>2. /\ SameMode(k, e) /\ SameTexts(k, e) /\ SameCall(k, e)
      /\ e.worker = k.worker /\ e.failures = k.failures
      /\ e.desired = k.desired /\ e.lastSent = k.lastSent
      /\ e.retried = retried /\ e.dirty = dirty
  BY DEF Retried, Queues, SameMode, SameTexts, SameCall
<1> QED
  BY <1>1, <1>2

LEMMA RetryOnceFacts ==
  ASSUME NEW k \in Queues, NEW c \in Containers
  PROVE  LET e == RetryOnce(k, c)
         IN  /\ e \in Queues /\ SameMode(k, e) /\ SameTexts(k, e) /\ SameCall(k, e)
             /\ e.worker = k.worker /\ e.failures = k.failures
             /\ e.desired = k.desired /\ e.lastSent = k.lastSent
             /\ k.dirty \subseteq e.dirty /\ k.retried \subseteq e.retried
             /\ c \in e.retried \/ e.lastSent[c] = e.desired[c]
<1> DEFINE retried == k.retried \union {c}
           dirty == k.dirty \union {c}
           flush == IF c \in Ids(Bottoms) /\ c \notin Ids(k.flush) THEN Append(k.flush, c) ELSE k.flush
           e == RetryOnce(k, c)
<1>1. CASE c \in k.retried \/ k.lastSent[c] = k.desired[c]
  <2>1. e = k
    BY <1>1 DEF RetryOnce
  <2> QED
    BY <1>1, <2>1 DEF SameMode, SameTexts, SameCall
<1>2. CASE ~(c \in k.retried \/ k.lastSent[c] = k.desired[c])
  <2>1. k.flush \in Seq(Ids(Bottoms)) /\ k.retried \subseteq Containers /\ k.dirty \subseteq Containers
    BY DEF Queues
  <2>2. flush \in Seq(Ids(Bottoms))
    BY <2>1, AppendProperties
  <2>3. retried \in SUBSET Containers /\ dirty \in SUBSET Containers
    BY <2>1
  <2>4. e = Retried(k, retried, dirty, flush)
    BY <1>2 DEF RetryOnce, Retried, Queues
  <2> HIDE DEF e, flush
  <2>5. /\ e \in Queues /\ SameMode(k, e) /\ SameTexts(k, e) /\ SameCall(k, e)
        /\ e.worker = k.worker /\ e.failures = k.failures
        /\ e.desired = k.desired /\ e.lastSent = k.lastSent
        /\ e.retried = retried /\ e.dirty = dirty
    BY <2>2, <2>3, <2>4, RetriedFacts
  <2> QED
    BY <2>5 DEF e
<1> QED
  BY <1>1, <1>2

Counted(k, failures) == [k EXCEPT !.failures = failures]

LEMMA CountedFacts ==
  ASSUME NEW k \in Queues, NEW failures \in 0 .. SEND_FAILED_LIMIT - 1,
         NEW e, e = Counted(k, failures)
  PROVE  e \in Queues /\ Same(k, e) /\ e.worker = k.worker
BY ZenonT(60) DEF Counted, Queues, Same, SameMode, SameImages, SameTexts, SameCall

\* The state after a failed image call and its retry.
LEMMA RetrySound ==
  ASSUME NEW k, NEW g, Core(k, g), InFlight(k, "image")
  PROVE  LET e == RetryOnce(Answered(k), k.call.c)
         IN  /\ Core(e, g) /\ e.worker = "lap" /\ e.call = Null /\ e.failures = k.failures
             /\ e.mode = "image" /\ e.latest # Null
<1> DEFINE c == k.call.c
           a == Answered(k)
           e == RetryOnce(a, c)
<1>1. /\ k \in Queues /\ k.mode = "image" /\ k.latest # Null /\ c \in Containers
      /\ k.pending = Null /\ NoJob(k.jobs, "msg") /\ k.lastSent = g.image
      /\ \A b \in Containers : k.desired[b] = Bytes(b, k.latest) /\ Known(k, b)
  BY ImageCall
<1>2. /\ a \in Queues /\ a.call = Null /\ a.worker = "lap" /\ a.failures = k.failures
      /\ SameMode(k, a) /\ SameImages(k, a) /\ SameTexts(k, a)
  BY <1>1, AnsweredFacts
<1>3. \A b \in Containers : b # c => ~Sends(k, b)
  BY DEF Sends
<1> HIDE DEF c, a
<1>4. /\ e \in Queues /\ SameMode(a, e) /\ SameTexts(a, e) /\ SameCall(a, e)
      /\ e.worker = a.worker /\ e.failures = a.failures
      /\ e.desired = a.desired /\ e.lastSent = a.lastSent
      /\ a.dirty \subseteq e.dirty /\ a.retried \subseteq e.retried
      /\ c \in e.retried \/ e.lastSent[c] = e.desired[c]
  BY <1>1, <1>2, RetryOnceFacts
<1> HIDE DEF e
<1>5. /\ SameMode(k, e) /\ SameTexts(k, e) /\ e.call = Null /\ e.worker = "lap"
      /\ e.failures = k.failures
      /\ e.desired = k.desired /\ e.lastSent = k.lastSent
      /\ k.dirty \subseteq e.dirty /\ k.retried \subseteq e.retried
      /\ c \in e.retried \/ e.lastSent[c] = e.desired[c]
  BY <1>2, <1>4 DEF SameMode, SameTexts, SameCall, SameImages
<1>6. \A b \in Containers : Known(e, b)
  BY <1>1, <1>3, <1>5 DEF Known
<1>7. ImageSound(e, g)
  BY <1>1, <1>5, <1>6 DEF ImageSound, SameMode
<1>8. CallSound(e) /\ ModeSound(e)
  BY <1>1, <1>5 DEF CallSound, ModeSound, InFlight, SameMode, SameTexts
<1>9. HudSound(e, g) /\ MsgSound(e, g)
  BY <1>1, <1>5 DEF Core, HudSound, MsgSound, SameMode, SameTexts
<1>10. StatusSound(e, g)
  BY <1>1, <1>5 DEF Core, StatusSound, StatusShown, Writes, InFlight, SameTexts
<1>11. Core(e, g)
  BY <1>4, <1>7, <1>8, <1>9, <1>10 DEF Core
<1> QED
  BY <1>1, <1>5, <1>11 DEF e, a, c, SameMode

Fallen(k, mode, failures, dirty, flush, latest, age) ==
  [k EXCEPT !.mode = mode, !.failures = failures, !.dirty = dirty, !.flush = flush,
            !.dispatched = latest, !.sinceText = age]

LEMMA FallenFacts ==
  ASSUME NEW k \in Queues, NEW mode \in {"image", "text"},
         NEW failures \in 0 .. SEND_FAILED_LIMIT - 1, NEW dirty \in SUBSET Containers,
         NEW flush \in Seq(Ids(Bottoms)), NEW latest \in Jobs \union {Null}, NEW age \in Ages,
         NEW e, e = Fallen(k, mode, failures, dirty, flush, latest, age)
  PROVE  /\ e \in Queues /\ SameTexts(k, e)
         /\ e.mode = mode /\ e.latest = k.latest /\ e.dirty = dirty /\ e.lastSent = k.lastSent
<1>1. e \in Queues
  BY ZenonT(60) DEF Fallen, Queues
<1>2. /\ SameTexts(k, e)
      /\ e.mode = mode /\ e.latest = k.latest /\ e.dirty = dirty /\ e.lastSent = k.lastSent
  BY DEF Fallen, Queues, SameTexts
<1> QED
  BY <1>1, <1>2

LEMMA FallbackSound ==
  ASSUME NEW k, NEW g, Core(k, g), k.mode = "image", k.latest # Null, k.worker = "lap"
  PROVE  Core(FallbackToText(k), g) /\ FallbackToText(k).worker \in Awake
<1> DEFINE text == "text"
           zero == 0
           none == {}
           empty == <<>>
           one == Fallen(k, text, zero, none, empty, k.latest, zero)
           call == [t |-> "page", hud |-> Text(k.latest), msg |-> k.message, status |-> k.lastStatus]
           e == In(one, call)
<1>1. FallbackToText(k) = e
  BY DEF FallbackToText, Fallen
<1>2. /\ k \in Queues /\ k.call = Null /\ k.latest \in Jobs
      /\ k.message \in Texts /\ k.lastStatus \in Texts
  BY AtRest DEF Queues
<1>3. k.pending = Null /\ NoJob(k.jobs, "msg")
  BY DEF Core, ModeSound
<1>4. /\ text \in {"image", "text"} /\ none \in SUBSET Containers /\ empty \in Seq(Ids(Bottoms))
      /\ zero \in Ages /\ zero \in 0 .. SEND_FAILED_LIMIT - 1
  <2>1. zero \in Ages /\ zero \in 0 .. SEND_FAILED_LIMIT - 1
    BY Bounds DEF Ages
  <2>2. empty \in Seq(Ids(Bottoms))
    OBVIOUS
  <2> QED
    BY <2>1, <2>2
<1>5. /\ call \in Calls /\ call.t = "page" /\ call.hud = Text(k.latest)
      /\ call.msg = k.message /\ call.status = k.lastStatus
  BY <1>2 DEF Calls
<1>6. call # Null
  BY <1>5, CallTypes
<1> HIDE DEF zero, none, empty, text, call
<1>7. /\ one \in Queues /\ SameTexts(k, one)
      /\ one.mode = text /\ one.latest = k.latest /\ one.lastSent = k.lastSent
  BY <1>2, <1>4, FallenFacts
<1> HIDE DEF one
<1>8. /\ e \in Queues /\ e.call = call /\ e.worker = "call"
      /\ SameMode(one, e) /\ SameImages(one, e) /\ SameTexts(one, e)
  BY <1>5, <1>7, InFacts
<1> HIDE DEF e
<1>9. /\ e.mode = "text" /\ e.latest = k.latest /\ e.lastSent = k.lastSent /\ SameTexts(k, e)
  BY <1>7, <1>8 DEF SameMode, SameImages, SameTexts, text
<1>10. CallSound(e) /\ ModeSound(e)
  BY <1>5, <1>6, <1>8, <1>9 DEF CallSound, ModeSound, InFlight
<1>11. ImageSound(e, g)
  BY <1>9 DEF Core, ImageSound
<1>12. HudSound(e, g)
  BY <1>3, <1>5, <1>6, <1>8, <1>9 DEF HudSound, HudShown, InFlight, SameTexts
<1>13. MsgSound(e, g)
  <2>1. LastIs(k.jobs, "msg", k.message)
    BY <1>3 DEF NoJob, LastIs, IsLast
  <2>2. MsgShown(e, g, k.message)
    BY <1>5, <1>6, <1>8 DEF MsgShown, Writes, InFlight
  <2> QED
    BY <1>9, <2>1, <2>2 DEF Core, MsgSound, SameTexts
<1>14. StatusSound(e, g)
  BY <1>5, <1>6, <1>8, <1>9 DEF Core, StatusSound, StatusShown, Writes, InFlight, SameTexts
<1>15. e.worker \in Awake
  BY <1>8 DEF Awake
<1>16. g \in Screens
  BY DEF Core
<1> QED
  BY <1>1, <1>8, <1>10, <1>11, <1>12, <1>13, <1>14, <1>15, <1>16 DEF Core

LEMMA ImageFailsStep == QueueInv /\ ImageFails => QueueInv'
<1> SUFFICES ASSUME QueueInv, ImageFails, NEW sendFailed \in BOOLEAN,
                    q' = Failed(Answered(q), q.call.c, sendFailed)
             PROVE  QueueInv'
  BY DEF ImageFails
<1> DEFINE r == RetryOnce(Answered(q), q.call.c)
<1>1. Core(q, glasses) /\ InFlight(q, "image") /\ q \in Queues /\ glasses' = glasses
  BY DEF QueueInv, Core, ImageFails, InFlight
<1>2. /\ Core(r, glasses) /\ r.worker = "lap" /\ r.call = Null /\ r.failures = q.failures
      /\ r.mode = "image" /\ r.latest # Null
  BY <1>1, RetrySound
<1>3. Answered(q).failures = q.failures
  BY <1>1, AnsweredFacts
<1>4. q.failures \in 0 .. SEND_FAILED_LIMIT - 1
  BY <1>1 DEF Queues
<1>5. r \in Queues
  BY <1>2 DEF Core
<1>6. q' = IF ~sendFailed THEN Counted(r, 0)
           ELSE IF q.failures + 1 < SEND_FAILED_LIMIT THEN Counted(r, q.failures + 1)
           ELSE FallbackToText(r)
  BY <1>2, <1>3, <1>5 DEF Failed, Counted, Queues
<1> HIDE DEF r
<1>7. ASSUME NEW n \in 0 .. SEND_FAILED_LIMIT - 1
      PROVE  Core(Counted(r, n), glasses) /\ Counted(r, n).worker \in Awake
  BY <1>2, <1>5, CountedFacts, SameCore DEF Awake
<1>8. 0 \in 0 .. SEND_FAILED_LIMIT - 1
  BY Bounds
<1>9. q.failures + 1 < SEND_FAILED_LIMIT => q.failures + 1 \in 0 .. SEND_FAILED_LIMIT - 1
  BY <1>4, Bounds
<1>10. Core(FallbackToText(r), glasses) /\ FallbackToText(r).worker \in Awake
  BY <1>2, FallbackSound
<1>11. Core(q', glasses) /\ q'.worker \in Awake
  BY <1>6, <1>7, <1>8, <1>9, <1>10
<1> QED
  BY <1>1, <1>11, AwakeSound DEF QueueInv

TextKeys == {"hud", "msg", "status"}

Losing(k, lost) == [k EXCEPT !.lost = lost]
Dispatched(k, job, age) == [k EXCEPT !.dispatched = job, !.sinceText = age]

LEMMA LosingFacts ==
  ASSUME NEW k \in Queues, NEW lost \in SUBSET TextKeys, NEW e, e = Losing(k, lost)
  PROVE  /\ e \in Queues /\ SameMode(k, e) /\ SameImages(k, e)
         /\ e.pending = k.pending /\ e.jobs = k.jobs /\ e.message = k.message
         /\ e.pushed = k.pushed /\ e.lastStatus = k.lastStatus /\ e.lost = lost
         /\ SameCall(k, e) /\ e.worker = k.worker
BY ZenonT(60) DEF Losing, Queues, TextKeys, SameMode, SameImages, SameCall

LEMMA DispatchedFacts ==
  ASSUME NEW k \in Queues, NEW job \in Jobs, NEW age \in Ages, NEW e, e = Dispatched(k, job, age)
  PROVE  e \in Queues /\ Same(k, e) /\ e.worker = k.worker
BY ZenonT(60) DEF Dispatched, Queues, Same, SameMode, SameImages, SameTexts, SameCall

LEMMA DoneFacts ==
  ASSUME NEW k \in Queues, k.call # Null, NEW lost \in SUBSET TextKeys
  PROVE  LET e == Done(k, lost)
         IN  /\ e \in Queues /\ SameMode(k, e) /\ SameImages(k, e)
             /\ e.pending = k.pending /\ e.jobs = k.jobs /\ e.message = k.message
             /\ e.pushed = k.pushed /\ e.lastStatus = k.lastStatus /\ e.lost = lost
             /\ e.call = Null /\ e.worker = "lap"
<1> DEFINE a == Answered(k)
           l == Losing(a, lost)
           zero == 0
           d == Dispatched(l, k.call.job, zero)
<1>1. k.call \in Calls /\ (k.call.t = "hud" => k.call.job \in Jobs)
  BY CallTypes DEF Queues
<1>2. zero \in Ages
  BY Bounds DEF Ages
<1>3. Done(k, lost) = IF k.call.t = "hud" THEN d ELSE l
  BY DEF Done, Losing, Dispatched
<1>4. /\ a \in Queues /\ a.call = Null /\ a.worker = "lap"
      /\ SameMode(k, a) /\ SameImages(k, a) /\ SameTexts(k, a)
  BY AnsweredFacts
<1> HIDE DEF a, zero
<1>5. /\ l \in Queues /\ SameMode(a, l) /\ SameImages(a, l)
      /\ l.pending = a.pending /\ l.jobs = a.jobs /\ l.message = a.message
      /\ l.pushed = a.pushed /\ l.lastStatus = a.lastStatus /\ l.lost = lost
      /\ SameCall(a, l) /\ l.worker = a.worker
  BY <1>4, LosingFacts
<1> HIDE DEF l
<1>6. /\ SameMode(k, l) /\ SameImages(k, l)
      /\ l.pending = k.pending /\ l.jobs = k.jobs /\ l.message = k.message
      /\ l.pushed = k.pushed /\ l.lastStatus = k.lastStatus
      /\ l.call = Null /\ l.worker = "lap"
  BY <1>4, <1>5 DEF SameMode, SameImages, SameTexts, SameCall
<1>7. CASE k.call.t # "hud"
  BY <1>3, <1>5, <1>6, <1>7
<1>8. CASE k.call.t = "hud"
  <2>1. d \in Queues /\ Same(l, d) /\ d.worker = l.worker
    BY <1>1, <1>2, <1>5, <1>8, DispatchedFacts
  <2> HIDE DEF d
  <2>2. Done(k, lost) = d
    BY <1>3, <1>8
  <2> QED
    BY <1>5, <1>6, <2>1, <2>2 DEF Same, SameMode, SameImages, SameTexts, SameCall
<1> QED
  BY <1>7, <1>8

\* A text call leaves on the glasses what it was to leave there, or is lost.
LEMMA DoneSound ==
  ASSUME NEW k, NEW g, NEW h \in Screens, NEW lost \in SUBSET TextKeys,
         Core(k, g), k.call # Null, k.call.t # "image", h.image = g.image,
         \A text : HudShown(k, g, text) => h.hud = text \/ "hud" \in lost,
         \A text : MsgShown(k, g, text) => h.msg = text \/ "msg" \in lost,
         \A text : StatusShown(k, g, text) => h.status = text \/ "status" \in lost
  PROVE  Core(Done(k, lost), h) /\ IdleSound(Done(k, lost))
<1> DEFINE e == Done(k, lost)
<1>1. k \in Queues
  BY DEF Core
<1>2. /\ e \in Queues /\ SameMode(k, e) /\ SameImages(k, e)
      /\ e.pending = k.pending /\ e.jobs = k.jobs /\ e.message = k.message
      /\ e.pushed = k.pushed /\ e.lastStatus = k.lastStatus /\ e.lost = lost
      /\ e.call = Null /\ e.worker = "lap"
  BY <1>1, DoneFacts
<1> HIDE DEF e
<1>3. CallSound(e) /\ ModeSound(e)
  BY <1>2 DEF Core, CallSound, ModeSound, InFlight, SameMode
<1>4. ImageSound(e, h)
  <2>1. \A c : ~Sends(k, c)
    BY DEF Sends, InFlight
  <2> QED
    BY <1>2, <2>1 DEF Core, ImageSound, Known, SameMode, SameImages
<1>5. HudSound(e, h)
  BY <1>2 DEF Core, HudSound, HudShown, InFlight, SameMode
<1>6. MsgSound(e, h)
  <2>1. \A text : MsgShown(k, g, text) => MsgShown(e, h, text)
    BY <1>2 DEF MsgShown, Writes, InFlight
  <2> QED
    BY <1>2, <2>1 DEF Core, MsgSound, SameMode
<1>7. StatusSound(e, h)
  <2>1. \A text : StatusShown(k, g, text) => StatusShown(e, h, text)
    BY <1>2 DEF StatusShown, Writes, InFlight
  <2> QED
    BY <1>2, <2>1 DEF Core, StatusSound
<1>8. IdleSound(e)
  BY <1>2 DEF IdleSound, Resting
<1> QED
  BY <1>2, <1>3, <1>4, <1>5, <1>6, <1>7, <1>8 DEF Core, e

LEMMA TextShownStep == QueueInv /\ TextShown => QueueInv'
<1> SUFFICES ASSUME QueueInv, TextShown PROVE QueueInv'
  OBVIOUS
<1> DEFINE call == q.call
           lost == q.lost \ Slots(call)
           h == glasses'
<1>1. Core(q, glasses) /\ q \in Queues /\ glasses \in Screens /\ call # Null
  BY DEF QueueInv, Core, TextShown
<1>2. call \in Calls /\ q.lost \subseteq TextKeys
  BY <1>1 DEF Queues, TextKeys
<1>3. lost \in SUBSET TextKeys
  BY <1>2
<1>4. q' = Done(q, lost)
  BY DEF TextShown
<1>5. CASE call.t = "hud"
  <2> DEFINE text == Text(call.job)
  <2>1. call.job \in Jobs
    BY <1>2, <1>5, CallTypes
  <2>2. text \in {Text(job) : job \in Jobs} \union {Null}
    BY <2>1
  <2>3. h = [glasses EXCEPT !.hud = text]
    BY <1>5 DEF TextShown
  <2> HIDE DEF text
  <2>4. /\ h \in Screens /\ h.image = glasses.image /\ h.hud = text
        /\ h.msg = glasses.msg /\ h.status = glasses.status
    BY <1>1, <2>2, <2>3 DEF Screens
  <2> HIDE DEF h
  <2>5. lost = q.lost \ {"hud"}
    BY <1>5 DEF Slots
  <2>6. \A x : HudShown(q, glasses, x) => h.hud = x \/ "hud" \in lost
    BY <1>1, <1>5, <2>4 DEF HudShown, InFlight, text
  <2>7. \A x : MsgShown(q, glasses, x) => h.msg = x \/ "msg" \in lost
    BY <1>5, <2>4, <2>5 DEF MsgShown, Writes, InFlight
  <2>8. \A x : StatusShown(q, glasses, x) => h.status = x \/ "status" \in lost
    BY <1>5, <2>4, <2>5 DEF StatusShown, Writes, InFlight
  <2> HIDE DEF lost
  <2>9. Core(Done(q, lost), h) /\ IdleSound(Done(q, lost))
    BY <1>1, <1>3, <1>5, <2>4, <2>6, <2>7, <2>8, DoneSound
  <2> QED
    BY <1>4, <2>9 DEF QueueInv, h
<1>6. CASE call.t = "text"
  <2> DEFINE text == call.job.text
             kind == call.job.kind
  <2>1. text \in Texts /\ kind \in {"msg", "status"}
    BY <1>2, <1>6, CallTypes DEF TextJobs, TextKinds
  <2>2. h = IF kind = "msg" THEN [glasses EXCEPT !.msg = text] ELSE [glasses EXCEPT !.status = text]
    BY <1>6 DEF TextShown
  <2>3. lost = q.lost \ {kind}
    BY <1>6 DEF Slots
  <2>4. \A x : Writes(q, x) <=> kind = x
    BY <1>1, <1>6 DEF Writes, InFlight
  <2>5. ~InFlight(q, "hud") /\ ~InFlight(q, "page")
    BY <1>6 DEF InFlight
  <2>6. \A x : HudShown(q, glasses, x) => glasses.hud = x \/ "hud" \in lost
    BY <2>1, <2>3, <2>5 DEF HudShown
  <2> HIDE DEF text, kind
  <2>7. /\ h \in Screens /\ h.image = glasses.image /\ h.hud = glasses.hud
        /\ h.msg = IF kind = "msg" THEN text ELSE glasses.msg
        /\ h.status = IF kind = "msg" THEN glasses.status ELSE text
    BY <1>1, <2>1, <2>2 DEF Screens
  <2> HIDE DEF h
  <2>8. \A x : MsgShown(q, glasses, x) => h.msg = x \/ "msg" \in lost
    BY <2>1, <2>3, <2>4, <2>5, <2>7 DEF MsgShown, text
  <2>9. \A x : StatusShown(q, glasses, x) => h.status = x \/ "status" \in lost
    BY <2>1, <2>3, <2>4, <2>5, <2>7 DEF StatusShown, text
  <2> HIDE DEF lost
  <2>10. Core(Done(q, lost), h) /\ IdleSound(Done(q, lost))
    BY <1>1, <1>3, <1>6, <2>6, <2>7, <2>8, <2>9, DoneSound
  <2> QED
    BY <1>4, <2>10 DEF QueueInv, h
<1> QED
  BY <1>5, <1>6 DEF TextShown

LEMMA TextFailsStep == QueueInv /\ TextFails => QueueInv'
<1> SUFFICES ASSUME QueueInv, TextFails PROVE QueueInv'
  OBVIOUS
<1> DEFINE lost == q.lost \union Slots(q.call)
<1>1. /\ Core(q, glasses) /\ q \in Queues /\ glasses \in Screens /\ q.call # Null
      /\ q.call.t \in {"hud", "text", "page"} /\ glasses' = glasses /\ q' = Done(q, lost)
  BY DEF QueueInv, Core, TextFails
<1>2. q.call \in Calls /\ q.lost \subseteq TextKeys
  BY <1>1 DEF Queues, TextKeys
<1>3. /\ q.call.t = "page" => Slots(q.call) = TextKeys
      /\ q.call.t = "hud"  => Slots(q.call) = {"hud"}
      /\ q.call.t = "text" => Slots(q.call) = {q.call.job.kind}
  BY DEF Slots, TextKeys
<1>4. q.call.t = "text" => q.call.job.kind \in {"msg", "status"}
  BY <1>2, CallTypes DEF TextJobs, TextKinds
<1>5. lost \in SUBSET TextKeys
  BY <1>1, <1>2, <1>3, <1>4 DEF TextKeys
<1>6. \A x : HudShown(q, glasses, x) => glasses.hud = x \/ "hud" \in lost
  BY <1>1, <1>3 DEF HudShown, InFlight, TextKeys
<1>7. \A x : MsgShown(q, glasses, x) => glasses.msg = x \/ "msg" \in lost
  BY <1>1, <1>3 DEF MsgShown, Writes, InFlight, TextKeys
<1>8. \A x : StatusShown(q, glasses, x) => glasses.status = x \/ "status" \in lost
  BY <1>1, <1>3 DEF StatusShown, Writes, InFlight, TextKeys
<1> HIDE DEF lost
<1>9. q.call.t # "image"
  BY <1>1
<1>10. Core(Done(q, lost), glasses) /\ IdleSound(Done(q, lost))
  BY <1>1, <1>5, <1>6, <1>7, <1>8, <1>9, DoneSound
<1> QED
  BY <1>1, <1>10 DEF QueueInv

PagePut(g, page, hud, msg, status) ==
  [g EXCEPT !.page = page, !.hud = hud, !.msg = msg, !.status = status]

LEMMA PageShown ==
  ASSUME NEW g \in Screens, NEW page \in {"image", "text"},
         NEW hud \in {Text(job) : job \in Jobs} \union {Null}, NEW msg \in Texts, NEW status \in Texts,
         NEW h, h = PagePut(g, page, hud, msg, status)
  PROVE  h \in Screens /\ h.image = g.image /\ h.hud = hud /\ h.msg = msg /\ h.status = status
BY DEF PagePut, Screens

LEMMA PageRebuiltStep == QueueInv /\ PageRebuilt => QueueInv'
<1> SUFFICES ASSUME QueueInv, PageRebuilt PROVE QueueInv'
  OBVIOUS
<1> DEFINE h == glasses'
           none == {}
           page == "text"
           call == q.call
<1>1. /\ Core(q, glasses) /\ q \in Queues /\ glasses \in Screens /\ call # Null
      /\ call.t = "page" /\ q' = Done(q, none)
      /\ h = PagePut(glasses, page, call.hud, call.msg, call.status)
  BY DEF QueueInv, Core, PageRebuilt, PagePut
<1>2. call \in Calls /\ page \in {"image", "text"} /\ none \in SUBSET TextKeys
  BY <1>1 DEF Queues
<1>3. /\ call.hud \in {Text(job) : job \in Jobs} \union {Null}
      /\ call.msg \in Texts /\ call.status \in Texts
  BY <1>1, <1>2, CallTypes
<1> HIDE DEF none, page
<1>4. /\ h \in Screens /\ h.image = glasses.image
      /\ h.hud = call.hud /\ h.msg = call.msg /\ h.status = call.status
  BY <1>1, <1>2, <1>3, PageShown
<1> HIDE DEF h
<1>5. /\ \A x : HudShown(q, glasses, x) => h.hud = x
      /\ \A x : MsgShown(q, glasses, x) => h.msg = x
      /\ \A x : StatusShown(q, glasses, x) => h.status = x
  BY <1>1, <1>4 DEF HudShown, MsgShown, StatusShown, Writes, InFlight
<1>6. call.t # "image"
  BY <1>1
<1>7. Core(Done(q, none), h) /\ IdleSound(Done(q, none))
  BY <1>1, <1>2, <1>4, <1>5, <1>6, DoneSound
<1> QED
  BY <1>1, <1>7 DEF QueueInv, h

--------------------------------------------------------------------------------
(* Time, and the theorems.                                                     *)

Disarmed(k) == [k EXCEPT !.timer = Null]

LEMMA DisarmedFacts ==
  ASSUME NEW k \in Queues, NEW e, e = Disarmed(k)
  PROVE  e \in Queues /\ Same(k, e) /\ e.worker = k.worker
BY ZenonT(60) DEF Disarmed, Queues, Same, SameMode, SameImages, SameTexts, SameCall

LEMMA TimerFiresStep == QueueInv /\ TimerFires => QueueInv'
<1> SUFFICES ASSUME QueueInv, TimerFires PROVE QueueInv'
  OBVIOUS
<1> DEFINE e == Disarmed(q)
<1>1. /\ Core(q, glasses) /\ q \in Queues /\ glasses' = glasses
      /\ q' = Schedule(e)
  BY DEF QueueInv, Core, TimerFires, Disarmed
<1>2. e \in Queues /\ Same(q, e) /\ e.worker = q.worker
  BY <1>1, DisarmedFacts
<1> HIDE DEF e
<1>3. Core(e, glasses)
  BY <1>1, <1>2, SameCore
<1>4. Core(Schedule(e), glasses) /\ IdleSound(Schedule(e))
  BY <1>3, Woken
<1> QED
  BY <1>1, <1>4 DEF QueueInv

Aged(k, timer, bottom, text) ==
  [k EXCEPT !.timer = timer, !.sinceBottom = bottom, !.sinceText = text]

SameEnd(k, e) == e.wake = k.wake /\ e.immediate = k.immediate

LEMMA AgedFacts ==
  ASSUME NEW k \in Queues, NEW a \in Ages \union {Null}, NEW b \in Ages, NEW c \in Ages,
         NEW e, e = Aged(k, a, b, c)
  PROVE  /\ e \in Queues /\ Same(k, e) /\ e.worker = k.worker /\ SameEnd(k, e)
         /\ a # Null => e.timer # Null
<1>1. e \in Queues
  BY ZenonT(60) DEF Aged, Queues
<1>2. /\ Same(k, e) /\ e.worker = k.worker /\ SameEnd(k, e)
      /\ a # Null => e.timer # Null
  BY DEF Aged, Queues, Same, SameMode, SameImages, SameTexts, SameCall, SameEnd
<1> QED
  BY <1>1, <1>2

Later(k) ==
  Aged(k, IF k.timer = Null THEN Null ELSE k.timer - 1, Older(k.sinceBottom), Older(k.sinceText))

LEMMA OlderAges == ASSUME NEW age \in Ages PROVE Older(age) \in Ages
BY Bounds DEF Older, Ages

LEMMA TimerLater ==
  ASSUME NEW timer \in Ages \union {Null}, timer # 0, NEW next,
         next = IF timer = Null THEN Null ELSE timer - 1
  PROVE  next \in Ages \union {Null} /\ (timer # Null => next # Null)
<1>1. timer # Null => timer - 1 \in Ages
  BY Bounds DEF Ages
<1>2. Null \notin Ages
  BY NullAssumption
<1> QED
  BY <1>1, <1>2

LEMMA LaterFacts ==
  ASSUME NEW k \in Queues, k.timer # 0, NEW e, e = Later(k)
  PROVE  /\ e \in Queues /\ Same(k, e) /\ e.worker = k.worker
         /\ SameEnd(k, e) /\ (k.timer # Null => e.timer # Null)
<1> DEFINE timer == IF k.timer = Null THEN Null ELSE k.timer - 1
           bottom == Older(k.sinceBottom)
           text == Older(k.sinceText)
<1>1. k.sinceBottom \in Ages /\ k.sinceText \in Ages /\ k.timer \in Ages \union {Null}
  BY DEF Queues
<1>2. bottom \in Ages /\ text \in Ages
  BY <1>1, OlderAges
<1>3. timer \in Ages \union {Null} /\ (k.timer # Null => timer # Null)
  BY <1>1, TimerLater
<1>4. \E a \in Ages \union {Null}, b \in Ages, c \in Ages :
        e = Aged(k, a, b, c) /\ (k.timer # Null => a # Null)
  BY <1>2, <1>3 DEF Later
<1>5. PICK a \in Ages \union {Null}, b \in Ages, c \in Ages :
        e = Aged(k, a, b, c) /\ (k.timer # Null => a # Null)
  BY <1>4
<1> HIDE DEF timer, bottom, text
<1>6. /\ e \in Queues /\ Same(k, e) /\ e.worker = k.worker /\ SameEnd(k, e)
      /\ a # Null => e.timer # Null
  BY <1>5, AgedFacts
<1> QED
  BY <1>5, <1>6

LEMMA TickStep == QueueInv /\ Tick => QueueInv'
<1> SUFFICES ASSUME QueueInv, Tick PROVE QueueInv'
  OBVIOUS
<1> DEFINE e == Later(q)
<1>1. /\ Core(q, glasses) /\ IdleSound(q) /\ q \in Queues /\ q.timer # 0 /\ glasses' = glasses
      /\ q' = e
  BY DEF QueueInv, Core, Tick, Aged, Later
<1>2. /\ e \in Queues /\ Same(q, e) /\ e.worker = q.worker /\ SameEnd(q, e)
      /\ q.timer # Null => e.timer # Null
  BY <1>1, LaterFacts
<1> HIDE DEF e
<1>3. Core(e, glasses)
  BY <1>1, <1>2, SameCore
<1>4. IdleSound(e)
  BY <1>1, <1>2 DEF IdleSound, Resting, Same, SameMode, SameImages, SameTexts, SameEnd
<1> QED
  BY <1>1, <1>3, <1>4 DEF QueueInv

Empty(mode, status, line, blank, none, list, no, zero, idle, age) ==
  [mode |-> mode, latest |-> Null, message |-> line, lastStatus |-> line,
   pushed |-> status, desired |-> blank, lastSent |-> blank,
   dirty |-> none, retried |-> none, flush |-> list, immediate |-> no,
   basis |-> Null, sinceBottom |-> age, pending |-> Null,
   dispatched |-> Null, sinceText |-> age, jobs |-> list,
   failures |-> zero, timer |-> Null, worker |-> idle, wake |-> no,
   call |-> Null, lost |-> none]

Page(mode, status, line, blank) ==
  [page |-> mode, image |-> blank, hud |-> Null, msg |-> line, status |-> status]

LEMMA EmptyType ==
  ASSUME NEW mode \in {"image", "text"}, NEW status \in Statuses, NEW line \in Texts,
         NEW blank \in [Containers -> AllImages \union {Null}],
         NEW none, none \in SUBSET Containers, none \in SUBSET {"hud", "msg", "status"},
         NEW list, list \in Seq(Ids(Bottoms)), list \in Seq(TextJobs),
         NEW no \in BOOLEAN, NEW zero \in 0 .. SEND_FAILED_LIMIT - 1,
         NEW idle \in Workers, NEW age \in Ages
  PROVE  Empty(mode, status, line, blank, none, list, no, zero, idle, age) \in Queues
BY DEF Empty, Queues

LEMMA PageType ==
  ASSUME NEW mode \in {"image", "text"}, NEW status \in Texts, NEW line \in Texts,
         NEW blank \in [Containers -> AllImages \union {Null}]
  PROVE  Page(mode, status, line, blank) \in Screens
BY DEF Page, Screens

StartQueue(mode, status) ==
  Empty(mode, status, "", [c \in Containers |-> Null], {}, <<>>, FALSE, 0,
        "idle", HUD_GAP_FLUSH_MS)

StartPage(mode, status) == Page(mode, status, "", [c \in Containers |-> Null])

LEMMA StartTypes ==
  ASSUME NEW mode \in {"image", "text"}, NEW status \in Statuses
  PROVE  StartQueue(mode, status) \in Queues /\ StartPage(mode, status) \in Screens
<1> DEFINE blank == [c \in Containers |-> Null]
           none == {}
           empty == <<>>
           line == ""
           no == FALSE
           zero == 0
           idle == "idle"
           age == HUD_GAP_FLUSH_MS
<1>1. line \in Texts /\ status \in Texts
  BY DEF Texts
<1>2. /\ blank \in [Containers -> AllImages \union {Null}]
      /\ none \in SUBSET Containers /\ none \in SUBSET {"hud", "msg", "status"}
      /\ no \in BOOLEAN /\ idle \in Workers
  BY DEF Workers
<1>3. age \in Ages /\ zero \in 0 .. SEND_FAILED_LIMIT - 1
  BY Bounds DEF Ages
<1>4. empty \in Seq(Ids(Bottoms)) /\ empty \in Seq(TextJobs)
  OBVIOUS
<1> HIDE DEF blank, none, empty, line, no, zero, idle, age
<1>5. Empty(mode, status, line, blank, none, empty, no, zero, idle, age) \in Queues
  BY <1>1, <1>2, <1>3, <1>4, EmptyType
<1>6. Page(mode, status, line, blank) \in Screens
  BY <1>1, <1>2, PageType
<1> QED
  BY <1>5, <1>6 DEF StartQueue, StartPage, blank, none, empty, line, no, zero, idle, age

LEMMA NoJobs == \A kind, text : NoJob(<<>>, kind) /\ LastIs(<<>>, kind, text)
<1>1. \A i : i \notin DOMAIN <<>>
  BY EmptySeq
<1> QED
  BY <1>1 DEF NoJob, LastIs

LEMMA QueueInitSound == QueueInit => QueueInv
<1> SUFFICES ASSUME NEW mode \in {"image", "text"}, NEW status \in Statuses,
               q = StartQueue(mode, status), glasses = StartPage(mode, status)
             PROVE  QueueInv
  BY ZenonT(60) DEF QueueInit, StartQueue, StartPage, Empty, Page
<1>1. /\ q.mode = mode /\ q.latest = Null /\ q.message = "" /\ q.lastStatus = ""
      /\ q.pushed = status /\ q.dirty = {} /\ q.retried = {} /\ q.pending = Null
      /\ q.jobs = <<>> /\ q.worker = "idle" /\ q.call = Null /\ q.lost = {}
      /\ q.lastSent = glasses.image
      /\ glasses.msg = "" /\ glasses.status = status
  BY DEF StartQueue, StartPage, Empty, Page
<1>2. q \in Queues /\ glasses \in Screens
  BY StartTypes
<1>3. \A kind, text : NoJob(q.jobs, kind) /\ LastIs(q.jobs, kind, text)
  BY <1>1, NoJobs
<1>5. \A t : ~InFlight(q, t)
  BY <1>1 DEF InFlight
<1>6. CallSound(q) /\ ModeSound(q)
  BY <1>1, <1>3, <1>5 DEF CallSound, ModeSound
<1>7. ImageSound(q, glasses) /\ HudSound(q, glasses)
  BY <1>1 DEF ImageSound, HudSound
<1>8. MsgSound(q, glasses)
  BY <1>1, <1>3, <1>5 DEF MsgSound, MsgShown, Writes
<1>9. StatusSound(q, glasses)
  BY <1>1, <1>3 DEF StatusSound
<1>10. IdleSound(q)
  BY <1>1 DEF IdleSound
<1> QED
  BY <1>2, <1>6, <1>7, <1>8, <1>9, <1>10 DEF QueueInv, Core

LEMMA QueueStep == QueueInv /\ [QueueNext]_queueVars => QueueInv'
<1>1. QueueInv /\ UNCHANGED queueVars => QueueInv'
  BY DEF queueVars, QueueInv
<1> QED
  BY <1>1, PushHudStep, PushStatusStep, LapStep, RunEndsStep, ImageAcceptedStep, ImageFailsStep,
     TextShownStep, TextFailsStep, PageRebuiltStep, TimerFiresStep, TickStep DEF QueueNext

\* Every push, lap, answer and timer keeps the invariant the two properties
\* follow from.
THEOREM QueueInvariant == QueueSpec => []QueueInv
<1> QED
  BY QueueInitSound, QueueStep, PTL DEF QueueSpec

\* The queue keeps what queue.ts can hold, for any jobs, messages and statuses
\* and any number of pushes and failures.
THEOREM QueueTypeCorrect == QueueSpec => []QueueTypeOK
<1>1. QueueInv => QueueTypeOK
  BY DEF QueueInv, Core, QueueTypeOK
<1> QED
  BY <1>1, QueueInvariant, PTL

\* When the worker of queue.ts ends, the glasses show what was pushed last, or
\* what they owe comes with the debounce timer, failed its one retry, or was a
\* text whose call failed.
THEOREM NothingForgotten == QueueSpec => []NothingIsForgotten
<1>1. QueueInv => NothingIsForgotten
  <2> SUFFICES ASSUME QueueInv, q.worker = "idle"
               PROVE  /\ q.latest # Null /\ q.mode = "image" =>
                           \A c \in Containers :
                             \/ glasses.image[c] = Bytes(c, q.latest)
                             \/ c \in q.retried
                             \/ c \in Ids(Bottoms) /\ c \in q.dirty /\ ~q.immediate /\ q.timer # Null
                      /\ q.latest # Null /\ q.mode = "text" =>
                           /\ \/ glasses.hud = Text(q.latest)
                              \/ "hud" \in q.lost
                              \/ /\ q.pending # Null /\ Text(q.pending.job) = Text(q.latest)
                                 /\ ~q.pending.immediate /\ q.timer # Null
                           /\ glasses.msg = OneLine[q.latest.message] \/ "msg" \in q.lost
                      /\ glasses.status = q.pushed \/ "status" \in q.lost \/ q.lastStatus = ""
    BY DEF NothingIsForgotten
  <2>1. Core(q, glasses) /\ IdleSound(q)
    BY DEF QueueInv
  <2>2. q.call = Null /\ q.jobs = <<>>
    BY <2>1 DEF Core, CallSound, IdleSound, Resting
  <2>3. \A t : ~InFlight(q, t)
    BY <2>2 DEF InFlight
  <2>4. \A kind : NoJob(q.jobs, kind)
    BY <2>2 DEF NoJob
  <2>5. ASSUME q.latest # Null, q.mode = "image", NEW c \in Containers
        PROVE  \/ glasses.image[c] = Bytes(c, q.latest)
               \/ c \in q.retried
               \/ c \in Ids(Bottoms) /\ c \in q.dirty /\ ~q.immediate /\ q.timer # Null
    <3>1. /\ q.desired[c] = Bytes(c, q.latest) /\ Known(q, c) /\ q.lastSent = glasses.image
      BY <2>1, <2>5 DEF Core, ImageSound
    <3>2. ~Sends(q, c)
      BY <2>3 DEF Sends
    <3>3. c \in q.dirty => c \in Ids(Bottoms) /\ ~q.immediate /\ q.timer # Null
      BY <2>1, <2>5 DEF IdleSound, Resting, Containers
    <3> QED
      BY <3>1, <3>2, <3>3 DEF Known
  <2>6. ASSUME q.latest # Null, q.mode = "text"
        PROVE  /\ \/ glasses.hud = Text(q.latest)
                  \/ "hud" \in q.lost
                  \/ /\ q.pending # Null /\ Text(q.pending.job) = Text(q.latest)
                     /\ ~q.pending.immediate /\ q.timer # Null
               /\ glasses.msg = OneLine[q.latest.message] \/ "msg" \in q.lost
    <3>1. \/ glasses.hud = Text(q.latest)
          \/ "hud" \in q.lost
          \/ /\ q.pending # Null /\ Text(q.pending.job) = Text(q.latest)
             /\ ~q.pending.immediate /\ q.timer # Null
      BY <2>1, <2>3, <2>6 DEF Core, HudSound, HudShown, IdleSound, Resting
    <3>2. MsgShown(q, glasses, q.message) /\ q.message = OneLine[q.latest.message]
      BY <2>1, <2>4, <2>6 DEF Core, MsgSound
    <3>3. glasses.msg = q.message \/ "msg" \in q.lost
      BY <2>3, <3>2 DEF MsgShown, Writes
    <3> QED
      BY <3>1, <3>2, <3>3
  <2>7. glasses.status = q.pushed \/ "status" \in q.lost \/ q.lastStatus = ""
    BY <2>1, <2>3, <2>4 DEF Core, StatusSound, StatusShown, Writes
  <2> QED
    BY <2>5, <2>6, <2>7
<1> QED
  BY <1>1, QueueInvariant, PTL

================================================================================

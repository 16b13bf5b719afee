--------------------------- MODULE GlassesStartProofs ---------------------------
(* For any number of saves: the last one is in force, and no save that the     *)
(* host has taken whole is lost, whatever overlaps, fails or is killed.        *)
EXTENDS GlassesStart, SequenceTheorems, TLAPS

--------------------------------------------------------------------------------
(* The inductive invariant.                                                    *)

Values == Rooms \union Pins \union Names \union RenderModes \union {None}
Calls  == [id : 1 .. MaxSaves, key : Fields, value : Values]

\* A write on its way is one its save still waits for, and carries its value;
\* writes leave in the order of the saves, each once; and while a save before it
\* has writes on their way, none of a save's own has been taken.
QueueOK ==
  /\ calls \in Seq(Calls)
  /\ \A i \in 1 .. Len(calls) :
       /\ saves[calls[i].id] # Null
       /\ calls[i].key \in saves[calls[i].id].waits
       /\ calls[i].value = saves[calls[i].id].next[calls[i].key]
  /\ \A i, j \in 1 .. Len(calls) :
       i < j => /\ calls[i].id <= calls[j].id
                /\ calls[i].id = calls[j].id => calls[i].key # calls[j].key
  /\ \A id \in 1 .. MaxSaves : \A i \in 1 .. Len(calls) :
       saves[id] # Null /\ calls[i].id < id => saves[id].waits = Fields

\* What a save waits for is on its way; the save is remembered for as long.
SavesOK ==
  /\ saves \in [1 .. MaxSaves -> Saves \union {Null}]
  /\ \A id \in 1 .. MaxSaves :
       saves[id] # Null =>
         /\ id <= count
         /\ saves[id].next.room \in Rooms
         /\ \A key \in saves[id].waits :
              \E i \in 1 .. Len(calls) : calls[i].id = id /\ calls[i].key = key
         /\ saves[id].waits # {} => [id |-> id, next |-> saves[id].next] \in kept

\* What is stored comes from the remembered saves, and, where a save the host has
\* taken so far has written, from that save or a later one.
StoredOK ==
  /\ kept \subseteq [id : Nat, next : Settings]
  /\ stored \in Settings
  /\ \A key \in Fields : \E save \in kept : stored[key] = save.next[key]
  /\ \A id \in 1 .. MaxSaves :
       saves[id] # Null /\ saves[id].whole =>
         \A key \in Fields \ saves[id].waits :
           \E save \in kept : save.id >= id /\ stored[key] = save.next[key]

\* Between launches nothing is pending; without a client there is no URL; a save
\* that is pending left a valid room, and so does a stored one.
AppOK ==
  /\ phase \in {"off", "paging", "running", "dead"}
  /\ launch \in Launches \union {Null} /\ (launch = Null <=> phase = "off")
  /\ settings \in Settings
  /\ mode \in RenderModes /\ helloName \in Names \union {None} /\ hasRoom \in BOOLEAN
  /\ count \in 0 .. MaxSaves
  /\ phase = "off" => \A id \in 1 .. MaxSaves : saves[id] = Null
  /\ phase # "running" => url = Null
  /\ url # Null => url.room \in Rooms /\ url.pin \in Pins \union {None}
  /\ \A id \in 1 .. MaxSaves : saves[id] # Null => settings.room \in Rooms
  /\ phase # "off" /\ stored.room \in Rooms => settings.room \in Rooms

GlassesInv ==
  /\ QueueOK
  /\ SavesOK
  /\ StoredOK
  /\ AppOK
  /\ LastSaveWins

--------------------------------------------------------------------------------
(* Settings and writes.                                                        *)

LEMMA SettingsUpdate ==
  ASSUME NEW s \in Settings, NEW n \in Settings, NEW key \in Fields
  PROVE  [s EXCEPT ![key] = n[key]] \in Settings
<1>1. CASE key = "room"
  BY <1>1 DEF Settings
<1>2. CASE key = "pin"
  BY <1>2 DEF Settings
<1>3. CASE key = "name"
  BY <1>3 DEF Settings
<1>4. CASE key = "render"
  BY <1>4 DEF Settings
<1> QED
  BY <1>1, <1>2, <1>3, <1>4 DEF Fields

LEMMA SettingsField ==
  ASSUME NEW s \in Settings, NEW key \in Fields
  PROVE  s[key] \in Values /\ key \in DOMAIN s
BY DEF Settings, Fields, Values

\* A form that is sent is a setting with a valid room.
LEMMA FormIsSettings ==
  ASSUME NEW next \in Forms, IsValidRoom(next.room), IsValidPin(next.pin)
  PROVE  next \in Settings /\ next.room \in Rooms
BY FormsAssumption DEF Settings, IsValidRoom, IsValidPin

\* The four writes of a save.
LEMMA WritesOfSave ==
  ASSUME NEW next \in Settings, count \in 0 .. MaxSaves, count < MaxSaves
  PROVE  /\ Writes(next) \in Seq(Calls) /\ Len(Writes(next)) = 4
         /\ \A i \in 1 .. 4 : /\ Writes(next)[i].id = count + 1
                              /\ Writes(next)[i].value = next[Writes(next)[i].key]
         /\ \A i, j \in 1 .. 4 : i # j => Writes(next)[i].key # Writes(next)[j].key
         /\ \A key \in Fields : \E i \in 1 .. 4 : Writes(next)[i].key = key
         /\ Keys(Writes(next)) = Fields
<1>1. count + 1 \in 1 .. MaxSaves
  BY GlassesAssumption
<1>2. /\ next.room \in Values /\ next.pin \in Values
      /\ next.name \in Values /\ next.render \in Values
  BY DEF Settings, Values
<1>3. /\ Writes(next)[1] = [id |-> count + 1, key |-> "room", value |-> next.room]
      /\ Writes(next)[2] = [id |-> count + 1, key |-> "pin", value |-> next.pin]
      /\ Writes(next)[3] = [id |-> count + 1, key |-> "name", value |-> next.name]
      /\ Writes(next)[4] = [id |-> count + 1, key |-> "render", value |-> next.render]
      /\ Len(Writes(next)) = 4
      /\ DOMAIN Writes(next) = 1 .. 4
  BY DEF Writes
<1>4. Writes(next) \in Seq(Calls)
  BY <1>1, <1>2 DEF Writes, Calls, Fields
<1>5. \A i \in 1 .. 4 : i = 1 \/ i = 2 \/ i = 3 \/ i = 4
  OBVIOUS
<1>6. \A key \in Fields : \E i \in 1 .. 4 : Writes(next)[i].key = key
  BY <1>3 DEF Fields
<1>7. \A i \in 1 .. 4 : Writes(next)[i].key \in Fields
  BY <1>3, <1>5 DEF Fields
<1>8. Keys(Writes(next)) = Fields
  BY <1>3, <1>6, <1>7 DEF Keys
<1>9. \A i \in 1 .. 4 : /\ Writes(next)[i].id = count + 1
                        /\ Writes(next)[i].value = next[Writes(next)[i].key]
  BY <1>3, <1>5
<1>10. \A i, j \in 1 .. 4 : i # j => Writes(next)[i].key # Writes(next)[j].key
  BY <1>3, <1>5
<1> QED
  BY <1>3, <1>4, <1>6, <1>8, <1>9, <1>10

--------------------------------------------------------------------------------
(* The initial state.                                                          *)

LEMMA InitGlassesInv == GlassesInit => GlassesInv
<1> SUFFICES ASSUME GlassesInit PROVE GlassesInv
  OBVIOUS
<1>1. EmptySettings \in Settings /\ EmptySettings.room \notin Rooms
  BY GlassesAssumption DEF EmptySettings, Settings
<1>2. QueueOK
  BY DEF GlassesInit, QueueOK
<1>3. SavesOK
  BY DEF GlassesInit, SavesOK
<1>4. StoredOK
  BY <1>1 DEF GlassesInit, StoredOK
<1>5. AppOK
  <2>1. settings \in Settings /\ stored.room \notin Rooms
    BY <1>1 DEF GlassesInit
  <2>2. launch \in Launches \union {Null} /\ (launch = Null <=> phase = "off")
    BY DEF GlassesInit
  <2>3. mode \in RenderModes /\ helloName \in Names \union {None} /\ count \in 0 .. MaxSaves
    BY GlassesAssumption DEF GlassesInit, RenderModes
  <2>4. hasRoom \in BOOLEAN
    BY DEF GlassesInit
  <2> QED
    BY <2>1, <2>2, <2>3, <2>4 DEF GlassesInit, AppOK
<1>6. LastSaveWins
  BY DEF GlassesInit, LastSaveWins
<1> QED
  BY <1>2, <1>3, <1>4, <1>5, <1>6 DEF GlassesInv

--------------------------------------------------------------------------------
(* A new save.                                                                 *)

LEMMA SubmitInv ==
  ASSUME GlassesInv, NEW next \in Forms, Submit(next)
  PROVE  GlassesInv'
<1> DEFINE new == [next |-> next, waits |-> Keys(Writes(next)), whole |-> TRUE,
                   failed |-> FALSE]
           n == Len(calls)
<1>1. /\ next \in Settings /\ next.room \in Rooms
      /\ count \in 0 .. MaxSaves /\ count < MaxSaves /\ count + 1 \in 1 .. MaxSaves
  BY FormIsSettings, GlassesAssumption DEF Submit, GlassesInv, AppOK
<1>2. new \in Saves /\ new # Null /\ new.waits = Fields /\ new.next = next /\ new.whole
  <2>1. Keys(Writes(next)) = Fields
    BY <1>1, WritesOfSave
  <2>2. new = [next |-> next, waits |-> Fields, whole |-> TRUE, failed |-> FALSE]
    BY <2>1
  <2>3. new \in Saves
    BY <1>1, <2>2 DEF Saves
  <2> QED
    BY <2>2, <2>3, NullAssumption
<1>3. /\ saves' = [saves EXCEPT ![count + 1] = new]
      /\ calls' = calls \o Writes(next)
      /\ count' = count + 1 /\ settings' = next
      /\ kept' = kept \union {[id |-> count + 1, next |-> next]}
      /\ UNCHANGED <<stored, phase, launch, mode, helloName, hasRoom, url>>
      /\ phase # "off"
  BY DEF Submit
<1>4. /\ saves \in [1 .. MaxSaves -> Saves \union {Null}]
      /\ saves[count + 1] = Null
  <2>1. saves[count + 1] # Null => count + 1 <= count
    BY <1>1 DEF GlassesInv, SavesOK
  <2>2. ~(count + 1 <= count)
    BY <1>1
  <2> QED
    BY <2>1, <2>2 DEF GlassesInv, SavesOK
<1>5. /\ saves' \in [1 .. MaxSaves -> Saves \union {Null}]
      /\ saves'[count + 1] = new
      /\ \A id \in 1 .. MaxSaves : id # count + 1 => saves'[id] = saves[id]
  BY <1>1, <1>2, <1>3, <1>4
<1>6. calls \in Seq(Calls) /\ n \in Nat
  BY DEF GlassesInv, QueueOK
<1>7. /\ calls' \in Seq(Calls)
      /\ Len(calls') = n + 4
      /\ \A i \in 1 .. n : calls'[i] = calls[i]
      /\ \A i \in 1 .. 4 : calls'[n + i] = Writes(next)[i]
  <2>1. Writes(next) \in Seq(Calls) /\ Len(Writes(next)) = 4
    BY <1>1, WritesOfSave
  <2>2. /\ calls' \in Seq(Calls) /\ Len(calls') = n + Len(Writes(next))
        /\ \A i \in 1 .. n + Len(Writes(next)) :
             calls'[i] = IF i <= n THEN calls[i] ELSE Writes(next)[i - n]
    BY <1>3, <1>6, <2>1, ConcatProperties
  <2>3. \A i \in 1 .. 4 : n + i \in 1 .. n + 4 /\ ~(n + i <= n) /\ (n + i) - n = i
    BY <1>6
  <2>4. \A i \in 1 .. n : i \in 1 .. n + 4 /\ i <= n
    BY <1>6
  <2> QED
    BY <2>1, <2>2, <2>3, <2>4
<1>8. \A i \in 1 .. n : calls[i].id \in 1 .. MaxSaves /\ calls[i].id <= count
  <2> SUFFICES ASSUME NEW i \in 1 .. n
               PROVE  calls[i].id \in 1 .. MaxSaves /\ calls[i].id <= count
    OBVIOUS
  <2>0. calls[i] \in Calls
    BY <1>6, ElementOfSeq
  <2>1. calls[i].id \in 1 .. MaxSaves
    BY <2>0 DEF Calls
  <2>2. saves[calls[i].id] # Null
    BY DEF GlassesInv, QueueOK
  <2> QED
    BY <2>1, <2>2 DEF GlassesInv, SavesOK
<1>9. \A i \in 1 .. n + 4 : i \in 1 .. n \/ \E k \in 1 .. 4 : i = n + k
  <2> SUFFICES ASSUME NEW i \in 1 .. n + 4, i \notin 1 .. n PROVE \E k \in 1 .. 4 : i = n + k
    OBVIOUS
  <2>1. i - n \in 1 .. 4 /\ i = n + (i - n)
    BY <1>6
  <2> QED
    BY <2>1
<1>10. \A k \in 1 .. 4 :
         /\ calls'[n + k].id = count + 1
         /\ calls'[n + k].value = next[calls'[n + k].key]
         /\ calls'[n + k].key \in Fields
  <2> SUFFICES ASSUME NEW k \in 1 .. 4
               PROVE  /\ Writes(next)[k].id = count + 1
                      /\ Writes(next)[k].value = next[Writes(next)[k].key]
                      /\ Writes(next)[k].key \in Fields
    BY <1>7
  <2>1. Writes(next) \in Seq(Calls) /\ Len(Writes(next)) = 4
    BY <1>1, WritesOfSave
  <2>2. Writes(next)[k] \in Calls
    BY <2>1, ElementOfSeq
  <2> QED
    BY <1>1, <2>2, WritesOfSave DEF Calls
<1>11. QueueOK'
  <2>1. ASSUME NEW i \in 1 .. n + 4
        PROVE  /\ saves'[calls'[i].id] # Null
               /\ calls'[i].key \in saves'[calls'[i].id].waits
               /\ calls'[i].value = saves'[calls'[i].id].next[calls'[i].key]
    <3>1. CASE i \in 1 .. n
      <4>1. calls'[i] = calls[i] /\ saves'[calls[i].id] = saves[calls[i].id]
        BY <1>1, <1>5, <1>7, <1>8, <3>1
      <4> QED
        BY <3>1, <4>1 DEF GlassesInv, QueueOK
    <3>2. CASE \E k \in 1 .. 4 : i = n + k
      BY <1>2, <1>5, <1>10, <3>2
    <3> QED
      BY <1>9, <3>1, <3>2
  <2>2. ASSUME NEW i \in 1 .. n + 4, NEW j \in 1 .. n + 4, i < j
        PROVE  /\ calls'[i].id <= calls'[j].id
               /\ calls'[i].id = calls'[j].id => calls'[i].key # calls'[j].key
    <3>1. CASE j \in 1 .. n
      <4>1. i \in 1 .. n
        BY <2>2, <3>1
      <4> QED
        BY <1>7, <2>2, <3>1, <4>1 DEF GlassesInv, QueueOK
    <3>2. CASE i \in 1 .. n /\ \E k \in 1 .. 4 : j = n + k
      <4>1. calls'[i].id \in 1 .. MaxSaves /\ calls'[i].id <= count /\ calls'[j].id = count + 1
        BY <1>7, <1>8, <1>10, <3>2
      <4> QED
        BY <1>1, <4>1
    <3>3. CASE \E k, l \in 1 .. 4 : i = n + k /\ j = n + l
      <4>1. PICK k \in 1 .. 4, l \in 1 .. 4 : i = n + k /\ j = n + l
        BY <3>3
      <4>2. k # l
        BY <2>2, <4>1
      <4>3. Writes(next)[k].key # Writes(next)[l].key
        BY <1>1, <4>2, WritesOfSave
      <4>4. calls'[i].id = count + 1 /\ calls'[j].id = count + 1
        BY <1>10, <4>1
      <4>5. calls'[i].key # calls'[j].key
        BY <1>7, <4>1, <4>3
      <4> QED
        BY <1>1, <4>4, <4>5
    <3> QED
      BY <1>9, <3>1, <3>2, <3>3
  <2>3. ASSUME NEW id \in 1 .. MaxSaves, NEW i \in 1 .. n + 4,
               saves'[id] # Null, calls'[i].id < id
        PROVE  saves'[id].waits = Fields
    <3>1. CASE id = count + 1
      BY <1>2, <1>5, <3>1
    <3>2. CASE id # count + 1
      <4>1. saves[id] = saves'[id] /\ id <= count
        BY <1>5, <2>3, <3>2 DEF GlassesInv, SavesOK
      <4>2. i \in 1 .. n
        BY <1>1, <1>9, <1>10, <2>3, <4>1
      <4> QED
        BY <1>7, <2>3, <4>1, <4>2 DEF GlassesInv, QueueOK
    <3> QED
      BY <3>1, <3>2
  <2> QED
    BY <1>7, <2>1, <2>2, <2>3 DEF QueueOK
<1>12. SavesOK'
  <2>1. ASSUME NEW id \in 1 .. MaxSaves, saves'[id] # Null
        PROVE  /\ id <= count'
               /\ saves'[id].next.room \in Rooms
               /\ \A key \in saves'[id].waits :
                    \E i \in 1 .. Len(calls') : calls'[i].id = id /\ calls'[i].key = key
               /\ saves'[id].waits # {} => [id |-> id, next |-> saves'[id].next] \in kept'
    <3>1. CASE id = count + 1
      <4>1. \A key \in Fields :
              \E i \in 1 .. Len(calls') : calls'[i].id = id /\ calls'[i].key = key
        <5> SUFFICES ASSUME NEW key \in Fields
                     PROVE  \E i \in 1 .. Len(calls') : calls'[i].id = id /\ calls'[i].key = key
          OBVIOUS
        <5>1. PICK k \in 1 .. 4 : Writes(next)[k].key = key
          BY <1>1, WritesOfSave
        <5>2. n + k \in 1 .. Len(calls')
          BY <1>6, <1>7
        <5> QED
          BY <1>7, <1>10, <3>1, <5>1, <5>2
      <4> QED
        BY <1>1, <1>2, <1>3, <1>5, <3>1, <4>1
    <3>2. CASE id # count + 1
      <4>1. saves[id] = saves'[id] /\ saves[id] # Null
        BY <1>5, <2>1, <3>2
      <4>2. \A key \in saves'[id].waits :
              \E i \in 1 .. Len(calls') : calls'[i].id = id /\ calls'[i].key = key
        <5>1. 1 .. n \subseteq 1 .. Len(calls')
          BY <1>6, <1>7
        <5>2. \A key \in saves[id].waits :
                \E i \in 1 .. n : calls[i].id = id /\ calls[i].key = key
          BY <4>1 DEF GlassesInv, SavesOK
        <5> QED
          BY <1>7, <4>1, <5>1, <5>2
      <4> QED
        BY <1>1, <1>3, <4>1, <4>2 DEF GlassesInv, SavesOK
    <3> QED
      BY <3>1, <3>2
  <2> QED
    BY <1>5, <2>1 DEF SavesOK
<1>13. StoredOK'
  <2>1. kept' \subseteq [id : Nat, next : Settings]
    BY <1>1, <1>3 DEF GlassesInv, StoredOK
  <2>2. ASSUME NEW id \in 1 .. MaxSaves, saves'[id] # Null, saves'[id].whole,
               NEW key \in Fields \ saves'[id].waits
        PROVE  \E save \in kept' : save.id >= id /\ stored'[key] = save.next[key]
    BY <1>2, <1>3, <1>5, <2>2 DEF GlassesInv, StoredOK
  <2> QED
    BY <1>3, <2>1, <2>2 DEF GlassesInv, StoredOK
<1>14. AppOK'
  BY <1>1, <1>3 DEF GlassesInv, AppOK
<1>15. LastSaveWins'
  BY <1>1, <1>2, <1>3, <1>5 DEF LastSaveWins
<1> QED
  BY <1>11, <1>12, <1>13, <1>14, <1>15 DEF GlassesInv

--------------------------------------------------------------------------------
(* The host's answers.                                                         *)

\* The write at the head: its save waits for it, every later save for everything.
LEMMA HeadFacts ==
  ASSUME GlassesInv, calls # << >>
  PROVE  LET h == Head(calls)
         IN /\ Len(calls) \in Nat \ {0} /\ h = calls[1]
            /\ Tail(calls) \in Seq(Calls) /\ Len(Tail(calls)) = Len(calls) - 1
            /\ \A i \in 1 .. Len(calls) - 1 : Tail(calls)[i] = calls[i + 1]
            /\ \A i \in 1 .. Len(calls) : calls[i].id \in 1 .. MaxSaves
            /\ \A i \in 1 .. Len(calls) : h.id <= calls[i].id
            /\ h.id \in 1 .. MaxSaves /\ h.key \in Fields
            /\ saves[h.id] \in Saves /\ saves[h.id] # Null
            /\ h.value = saves[h.id].next[h.key]
            /\ \A id \in 1 .. MaxSaves :
                 saves[id] # Null /\ h.id < id => saves[id].waits = Fields
<1> DEFINE h == Head(calls)
<1>1. calls \in Seq(Calls)
  BY DEF GlassesInv, QueueOK
<1>2. Len(calls) \in Nat \ {0} /\ 1 \in 1 .. Len(calls) /\ h = calls[1]
  BY <1>1, EmptySeq
<1>3. /\ Tail(calls) \in Seq(Calls) /\ Len(Tail(calls)) = Len(calls) - 1
      /\ \A i \in 1 .. Len(calls) - 1 : Tail(calls)[i] = calls[i + 1]
  BY <1>1, HeadTailProperties
<1>4. \A i \in 1 .. Len(calls) : calls[i] \in Calls
  BY <1>1, ElementOfSeq
<1>5. \A i \in 1 .. Len(calls) : calls[i].id \in 1 .. MaxSaves
  BY <1>4 DEF Calls
<1>6. h.id \in 1 .. MaxSaves /\ h.key \in Fields
  BY <1>2, <1>4 DEF Calls
<1>7. saves[h.id] # Null /\ h.value = saves[h.id].next[h.key]
  BY <1>2 DEF GlassesInv, QueueOK
<1>8. saves[h.id] \in Saves
  BY <1>6, <1>7 DEF GlassesInv, SavesOK
<1>9. \A i \in 1 .. Len(calls) : h.id <= calls[i].id
  <2> SUFFICES ASSUME NEW i \in 1 .. Len(calls) PROVE h.id <= calls[i].id
    OBVIOUS
  <2>1. CASE i = 1
    BY <1>2, <1>6, <2>1
  <2>2. CASE i # 1
    <3>1. 1 < i
      BY <1>2, <2>2
    <3> QED
      BY <1>2, <3>1 DEF GlassesInv, QueueOK
  <2> QED
    BY <2>1, <2>2
<1>10. \A id \in 1 .. MaxSaves : saves[id] # Null /\ h.id < id => saves[id].waits = Fields
  BY <1>2 DEF GlassesInv, QueueOK
<1> QED
  BY <1>2, <1>3, <1>5, <1>6, <1>7, <1>8, <1>9, <1>10

\* What an answer leaves of the queue, whatever it was.
LEMMA HeadTaken ==
  ASSUME GlassesInv, calls # << >>, NEW s \in Saves,
         calls' = Tail(calls), saves' = [saves EXCEPT ![Head(calls).id] = s],
         s.waits = saves[Head(calls).id].waits \ {Head(calls).key},
         s.next = saves[Head(calls).id].next
  PROVE  /\ QueueOK'
         /\ saves' \in [1 .. MaxSaves -> Saves \union {Null}]
         /\ saves'[Head(calls).id] = s /\ s # Null
         /\ \A id \in 1 .. MaxSaves : id # Head(calls).id => saves'[id] = saves[id]
         /\ \A id \in 1 .. MaxSaves : saves'[id] # Null =>
              /\ saves[id] # Null
              /\ saves'[id].next = saves[id].next
              /\ \A key \in saves'[id].waits :
                   \E i \in 1 .. Len(calls') : calls'[i].id = id /\ calls'[i].key = key
              /\ saves'[id].waits # {} =>
                   saves[id].waits # {} /\ Head(calls).id <= id
<1> DEFINE h == Head(calls)
           n == Len(calls)
<1>1. /\ n \in Nat \ {0} /\ h = calls[1]
      /\ Tail(calls) \in Seq(Calls) /\ Len(Tail(calls)) = n - 1
      /\ \A i \in 1 .. n - 1 : Tail(calls)[i] = calls[i + 1]
      /\ \A i \in 1 .. n : calls[i].id \in 1 .. MaxSaves
      /\ \A i \in 1 .. n : h.id <= calls[i].id
      /\ h.id \in 1 .. MaxSaves /\ h.key \in Fields
      /\ saves[h.id] \in Saves /\ saves[h.id] # Null
      /\ \A id \in 1 .. MaxSaves : saves[id] # Null /\ h.id < id => saves[id].waits = Fields
  BY HeadFacts
<1>2. s # Null
  BY NullAssumption
<1>3. /\ saves' \in [1 .. MaxSaves -> Saves \union {Null}]
      /\ saves'[h.id] = s
      /\ \A id \in 1 .. MaxSaves : id # h.id => saves'[id] = saves[id]
  BY <1>1 DEF GlassesInv, SavesOK
<1>4. \A i \in 1 .. n - 1 : i + 1 \in 1 .. n /\ 1 < i + 1 /\ 1 \in 1 .. n
  BY <1>1
<1>5. Len(calls') = n - 1 /\ \A i \in 1 .. n - 1 : calls'[i] = calls[i + 1]
  BY <1>1
<1>6. \A i \in 1 .. n - 1 : calls[i + 1].id = h.id => calls[i + 1].key # h.key
  BY <1>1, <1>4 DEF GlassesInv, QueueOK
<1>7. QueueOK'
  <2>1. ASSUME NEW i \in 1 .. n - 1
        PROVE  /\ saves'[calls'[i].id] # Null
               /\ calls'[i].key \in saves'[calls'[i].id].waits
               /\ calls'[i].value = saves'[calls'[i].id].next[calls'[i].key]
    <3> DEFINE c == calls[i + 1]
    <3>1. /\ c.id \in 1 .. MaxSaves /\ saves[c.id] # Null
          /\ c.key \in saves[c.id].waits /\ c.value = saves[c.id].next[c.key]
      BY <1>1, <1>4 DEF GlassesInv, QueueOK
    <3>2. CASE c.id = h.id
      BY <1>2, <1>3, <1>5, <1>6, <3>1, <3>2
    <3>3. CASE c.id # h.id
      BY <1>3, <1>5, <3>1, <3>3
    <3> QED
      BY <3>2, <3>3
  <2>2. ASSUME NEW i \in 1 .. n - 1, NEW j \in 1 .. n - 1, i < j
        PROVE  /\ calls'[i].id <= calls'[j].id
               /\ calls'[i].id = calls'[j].id => calls'[i].key # calls'[j].key
    <3>1. i + 1 < j + 1
      BY <2>2
    <3> QED
      BY <1>4, <1>5, <3>1 DEF GlassesInv, QueueOK
  <2>3. ASSUME NEW id \in 1 .. MaxSaves, NEW i \in 1 .. n - 1,
               saves'[id] # Null, calls'[i].id < id
        PROVE  saves'[id].waits = Fields
    <3>1. h.id <= calls[i + 1].id /\ calls[i + 1].id < id /\ calls[i + 1].id \in 1 .. MaxSaves
      BY <1>1, <1>4, <1>5, <2>3
    <3>2. h.id < id
      BY <1>1, <3>1
    <3> QED
      BY <1>1, <1>3, <2>3, <3>2
  <2> QED
    BY <1>1, <1>5, <2>1, <2>2, <2>3 DEF QueueOK
<1>8. ASSUME NEW id \in 1 .. MaxSaves, saves'[id] # Null
      PROVE  /\ saves[id] # Null
             /\ saves'[id].next = saves[id].next
             /\ saves'[id].waits \subseteq saves[id].waits
             /\ id = h.id => h.key \notin saves'[id].waits
  BY <1>1, <1>3, <1>8
<1>9. ASSUME NEW id \in 1 .. MaxSaves, saves'[id] # Null, NEW key \in saves'[id].waits
      PROVE  \E i \in 1 .. Len(calls') : calls'[i].id = id /\ calls'[i].key = key
  <2>1. key \in saves[id].waits /\ saves[id] # Null
    BY <1>8, <1>9
  <2>2. PICK j \in 1 .. n : calls[j].id = id /\ calls[j].key = key
    BY <2>1 DEF GlassesInv, SavesOK
  <2>3. j # 1
    BY <1>1, <1>8, <1>9, <2>2
  <2>4. j - 1 \in 1 .. n - 1 /\ (j - 1) + 1 = j
    BY <1>1, <2>3
  <2> QED
    BY <1>5, <2>2, <2>4
<1>10. ASSUME NEW id \in 1 .. MaxSaves, saves'[id] # Null, saves'[id].waits # {}
       PROVE  saves[id].waits # {} /\ h.id <= id
  <2>1. PICK key : key \in saves'[id].waits
    BY <1>10
  <2>2. PICK i \in 1 .. n - 1 : calls'[i].id = id
    BY <1>5, <1>9, <1>10, <2>1
  <2>3. h.id <= id
    BY <1>1, <1>4, <1>5, <2>2
  <2> QED
    BY <1>8, <1>10, <2>1, <2>3
<1> QED
  BY <1>2, <1>3, <1>7, <1>8, <1>9, <1>10

\* The rest of what an answer leaves, when the stored settings stay or take the
\* value of the write.
LEMMA AnswerKeeps ==
  ASSUME GlassesInv, calls # << >>, NEW s \in Saves,
         calls' = Tail(calls), saves' = [saves EXCEPT ![Head(calls).id] = s],
         s.waits = saves[Head(calls).id].waits \ {Head(calls).key},
         s.next = saves[Head(calls).id].next,
         stored' \in Settings,
         UNCHANGED <<phase, launch, settings, mode, helloName, hasRoom, url, count>>
  PROVE  AppOK' /\ LastSaveWins'
<1>1. /\ saves' \in [1 .. MaxSaves -> Saves \union {Null}]
      /\ saves'[Head(calls).id] = s /\ s # Null
      /\ \A id \in 1 .. MaxSaves : id # Head(calls).id => saves'[id] = saves[id]
      /\ \A id \in 1 .. MaxSaves : saves'[id] # Null => saves[id] # Null
  BY HeadTaken
<1>2. Head(calls).id \in 1 .. MaxSaves /\ saves[Head(calls).id] # Null
  BY HeadFacts
<1>3. settings.room \in Rooms
  BY <1>2 DEF GlassesInv, AppOK
<1>4. AppOK'
  BY <1>1, <1>3 DEF GlassesInv, AppOK
<1>5. count \in 0 .. MaxSaves
  BY DEF GlassesInv, AppOK
<1>6. LastSaveWins'
  <2>1. count > 0 /\ saves'[count] = Null => saves[count] = Null
    BY <1>1, <1>2, <1>5
  <2>2. phase = "running" /\ (count > 0 => saves'[count] = Null) =>
          /\ url \in {Null, DriverUrl(settings)}
          /\ hasRoom = IsValidRoom(settings.room)
    BY <2>1 DEF GlassesInv, LastSaveWins
  <2>3. DriverUrl(settings)' = DriverUrl(settings)
    BY DEF DriverUrl
  <2>4. IsValidRoom(settings.room)' = IsValidRoom(settings.room)
    BY DEF IsValidRoom
  <2> QED
    BY <2>2, <2>3, <2>4 DEF LastSaveWins
<1> QED
  BY <1>4, <1>6

LEMMA HostFailsInv ==
  ASSUME GlassesInv, HostFails
  PROVE  GlassesInv'
<1> DEFINE h == Head(calls)
           s == [saves[h.id] EXCEPT !.waits = @ \ {h.key}, !.whole = FALSE, !.failed = TRUE]
<1>1. h.id \in 1 .. MaxSaves /\ h.key \in Fields /\ saves[h.id] \in Saves
  BY HeadFacts DEF HostFails
<1>2. /\ s \in Saves /\ s.waits = saves[h.id].waits \ {h.key} /\ s.next = saves[h.id].next
      /\ ~s.whole
  BY <1>1 DEF Saves
<1>3. /\ calls # << >> /\ calls' = Tail(calls) /\ saves' = [saves EXCEPT ![h.id] = s]
      /\ UNCHANGED <<stored, phase, launch, settings, mode, helloName, hasRoom, url,
                     count, kept>>
  BY DEF HostFails
<1>4. /\ QueueOK'
      /\ saves' \in [1 .. MaxSaves -> Saves \union {Null}]
      /\ saves'[h.id] = s /\ s # Null
      /\ \A id \in 1 .. MaxSaves : id # h.id => saves'[id] = saves[id]
      /\ \A id \in 1 .. MaxSaves : saves'[id] # Null =>
           /\ saves[id] # Null
           /\ saves'[id].next = saves[id].next
           /\ \A key \in saves'[id].waits :
                \E i \in 1 .. Len(calls') : calls'[i].id = id /\ calls'[i].key = key
           /\ saves'[id].waits # {} => saves[id].waits # {} /\ h.id <= id
  <2> HIDE DEF s
  <2> QED
    BY <1>2, <1>3, HeadTaken
<1>5. SavesOK'
  <2> HIDE DEF s
  <2> QED
    BY <1>3, <1>4 DEF GlassesInv, SavesOK
<1>6. StoredOK'
  <2> HIDE DEF s
  <2>1. ASSUME NEW id \in 1 .. MaxSaves, saves'[id] # Null, saves'[id].whole
        PROVE  saves'[id] = saves[id]
    BY <1>2, <1>4, <2>1
  <2> QED
    BY <1>3, <2>1 DEF GlassesInv, StoredOK
<1>7. AppOK' /\ LastSaveWins'
  <2> HIDE DEF s
  <2>1. stored' \in Settings
    BY <1>3 DEF GlassesInv, StoredOK
  <2> QED
    BY <1>2, <1>3, <2>1, AnswerKeeps
<1> QED
  BY <1>4, <1>5, <1>6, <1>7 DEF GlassesInv

\* Once a save is whole, every field is of that save or of a later one, so the
\* ones before it can be forgotten.
LEMMA HostAnswersInv ==
  ASSUME GlassesInv, HostAnswers
  PROVE  GlassesInv'
<1> DEFINE h == Head(calls)
<1>1. PICK taken \in BOOLEAN :
        LET save == [saves[h.id] EXCEPT !.waits = @ \ {h.key}, !.whole = @ /\ taken]
        IN /\ stored' = IF taken THEN [stored EXCEPT ![h.key] = h.value] ELSE stored
           /\ saves' = [saves EXCEPT ![h.id] = save]
           /\ kept' = IF save.waits = {} /\ save.whole
                      THEN {known \in kept : known.id >= h.id} ELSE kept
  BY DEF HostAnswers
<1> DEFINE s == [saves[h.id] EXCEPT !.waits = @ \ {h.key}, !.whole = @ /\ taken]
<1>2. /\ h.id \in 1 .. MaxSaves /\ h.key \in Fields
      /\ saves[h.id] \in Saves /\ saves[h.id] # Null
      /\ h.value = saves[h.id].next[h.key]
      /\ \A id \in 1 .. MaxSaves :
           saves[id] # Null /\ h.id < id => saves[id].waits = Fields
  BY HeadFacts DEF HostAnswers
<1>3. /\ s \in Saves /\ s.waits = saves[h.id].waits \ {h.key} /\ s.next = saves[h.id].next
      /\ s.whole => saves[h.id].whole /\ taken
  BY <1>2 DEF Saves
<1>4. /\ calls # << >> /\ calls' = Tail(calls) /\ saves' = [saves EXCEPT ![h.id] = s]
      /\ stored' = IF taken THEN [stored EXCEPT ![h.key] = h.value] ELSE stored
      /\ kept' = IF s.waits = {} /\ s.whole
                 THEN {known \in kept : known.id >= h.id} ELSE kept
      /\ UNCHANGED <<phase, launch, settings, mode, helloName, hasRoom, url, count>>
  BY <1>1 DEF HostAnswers
<1> HIDE DEF s
<1>5. /\ QueueOK'
      /\ saves' \in [1 .. MaxSaves -> Saves \union {Null}]
      /\ saves'[h.id] = s /\ s # Null
      /\ \A id \in 1 .. MaxSaves : id # h.id => saves'[id] = saves[id]
      /\ \A id \in 1 .. MaxSaves : saves'[id] # Null =>
           /\ saves[id] # Null
           /\ saves'[id].next = saves[id].next
           /\ \A key \in saves'[id].waits :
                \E i \in 1 .. Len(calls') : calls'[i].id = id /\ calls'[i].key = key
           /\ saves'[id].waits # {} => saves[id].waits # {} /\ h.id <= id
  BY <1>3, <1>4, HeadTaken
<1>6. saves[h.id].next \in Settings /\ stored \in Settings
  BY <1>2 DEF Saves, GlassesInv, StoredOK
<1>7. /\ stored' \in Settings
      /\ \A key \in Fields :
           stored'[key] = IF taken /\ key = h.key THEN h.value ELSE stored[key]
  <2>1. h.key \in DOMAIN stored
    BY <1>2, <1>6, SettingsField
  <2>2. [stored EXCEPT ![h.key] = saves[h.id].next[h.key]] \in Settings
    BY <1>2, <1>6, SettingsUpdate
  <2>3. \A key \in Fields : key \in DOMAIN stored
    BY <1>6, SettingsField
  <2> QED
    BY <1>2, <1>4, <1>6, <2>1, <2>2, <2>3
<1>8. [id |-> h.id, next |-> saves[h.id].next] \in kept
  <2>1. h.key \in saves[h.id].waits
    BY HeadFacts, <1>4 DEF GlassesInv, QueueOK
  <2> QED
    BY <1>2, <2>1 DEF GlassesInv, SavesOK
<1>9. kept \subseteq [id : Nat, next : Settings] /\ kept' \subseteq kept
  BY <1>4 DEF GlassesInv, StoredOK
\* What a save so far whole has written is of that save or of a later one, before
\* anything is forgotten.
<1>10. ASSUME NEW id \in 1 .. MaxSaves, saves'[id] # Null, saves'[id].whole,
              NEW key \in Fields \ saves'[id].waits
       PROVE  \E save \in kept : save.id >= id /\ stored'[key] = save.next[key]
  <2>1. saves[id] # Null /\ saves[id].whole
    BY <1>3, <1>5, <1>10
  <2>2. id <= h.id \/ (saves[id].waits = Fields /\ saves'[id] = saves[id])
    <3>1. id \in Int /\ h.id \in Int
      BY <1>2, GlassesAssumption
    <3>2. CASE id <= h.id
      BY <3>2
    <3>3. CASE ~(id <= h.id)
      <4>1. h.id < id /\ id # h.id
        BY <3>1, <3>3
      <4> QED
        BY <1>2, <1>5, <2>1, <4>1
    <3> QED
      BY <3>2, <3>3
  <2>3. id <= h.id
    BY <1>10, <2>2
  <2>4. CASE taken /\ key = h.key
    <3>1. stored'[key] = saves[h.id].next[key]
      BY <1>2, <1>7, <2>4
    <3> QED
      BY <1>8, <2>3, <3>1
  <2>5. CASE ~(taken /\ key = h.key)
    <3>1. stored'[key] = stored[key]
      BY <1>7, <1>10, <2>5
    <3>2. key \notin saves[id].waits
      BY <1>3, <1>5, <1>10, <2>5
    <3> QED
      BY <1>10, <2>1, <3>1, <3>2 DEF GlassesInv, StoredOK
  <2> QED
    BY <2>4, <2>5
<1>11. ASSUME s.waits = {} /\ s.whole, NEW key \in Fields
       PROVE  \E save \in kept' : save.id >= h.id /\ stored'[key] = save.next[key]
  <2>1. PICK save \in kept : save.id >= h.id /\ stored'[key] = save.next[key]
    BY <1>2, <1>5, <1>10, <1>11
  <2> QED
    BY <1>4, <1>11, <2>1
<1>12. StoredOK'
  <2>1. ASSUME NEW key \in Fields
        PROVE  \E save \in kept' : stored'[key] = save.next[key]
    <3>1. CASE s.waits = {} /\ s.whole
      BY <1>11, <3>1
    <3>2. CASE ~(s.waits = {} /\ s.whole)
      <4>1. kept' = kept
        BY <1>4, <3>2
      <4>2. CASE taken /\ key = h.key
        BY <1>2, <1>7, <1>8, <4>1, <4>2
      <4>3. CASE ~(taken /\ key = h.key)
        BY <1>7, <4>1, <4>3 DEF GlassesInv, StoredOK
      <4> QED
        BY <4>2, <4>3
    <3> QED
      BY <3>1, <3>2
  <2>2. ASSUME NEW id \in 1 .. MaxSaves, saves'[id] # Null, saves'[id].whole,
               NEW key \in Fields \ saves'[id].waits
        PROVE  \E save \in kept' : save.id >= id /\ stored'[key] = save.next[key]
    <3>1. CASE s.waits = {} /\ s.whole
      <4>1. PICK save \in kept' : save.id >= h.id /\ stored'[key] = save.next[key]
        BY <1>11, <3>1
      <4>2. id <= h.id
        BY <1>2, <1>5, <2>2
      <4> QED
        BY <1>2, <1>9, <4>1, <4>2
    <3>2. CASE ~(s.waits = {} /\ s.whole)
      <4>1. kept' = kept
        BY <1>4, <3>2
      <4> QED
        BY <1>10, <2>2, <4>1
    <3> QED
      BY <3>1, <3>2
  <2> QED
    BY <1>7, <1>9, <2>1, <2>2 DEF StoredOK
<1>13. SavesOK'
  <2>1. ASSUME NEW id \in 1 .. MaxSaves, saves'[id] # Null, saves'[id].waits # {}
        PROVE  [id |-> id, next |-> saves'[id].next] \in kept'
    <3>1. [id |-> id, next |-> saves'[id].next] \in kept /\ h.id <= id
      BY <1>5, <2>1 DEF GlassesInv, SavesOK
    <3> QED
      BY <1>2, <1>4, <3>1
  <2> QED
    BY <1>4, <1>5, <2>1 DEF GlassesInv, SavesOK
<1>14. AppOK' /\ LastSaveWins'
  BY <1>3, <1>4, <1>7, AnswerKeeps
<1> QED
  BY <1>5, <1>12, <1>13, <1>14 DEF GlassesInv

--------------------------------------------------------------------------------
(* The other steps.                                                            *)

\* connect() leaves the URL it had or the one of the settings.
LEMMA ConnectsTo ==
  ASSUME NEW s, Connects(s)
  PROVE  /\ s.room \in Rooms => url' = DriverUrl(s)
         /\ s.room \notin Rooms => url' = url
BY DEF Connects, IsValidRoom

LEMMA UrlOfSettings ==
  ASSUME NEW s \in Settings, s.room \in Rooms
  PROVE  DriverUrl(s).room \in Rooms /\ DriverUrl(s).pin \in Pins \union {None}
BY DEF DriverUrl, Settings

LEMMA AppliedInv ==
  ASSUME GlassesInv, NEW id \in 1 .. MaxSaves, Applied(id)
  PROVE  GlassesInv'
<1>1. /\ saves[id] # Null /\ saves[id].waits = {}
      /\ saves' = [saves EXCEPT ![id] = Null]
      /\ UNCHANGED <<stored, phase, launch, settings, mode, helloName, calls, count, kept>>
      /\ saves \in [1 .. MaxSaves -> Saves \union {Null}]
  BY DEF Applied, GlassesInv, SavesOK
<1>2. /\ saves' \in [1 .. MaxSaves -> Saves \union {Null}]
      /\ saves'[id] = Null
      /\ \A other \in 1 .. MaxSaves : other # id => saves'[other] = saves[other]
  BY <1>1
<1>3. settings.room \in Rooms /\ saves[id].next.room \in Rooms
  BY <1>1 DEF GlassesInv, AppOK, SavesOK
<1>4. phase = "running" => url' = DriverUrl(settings) /\ hasRoom' = TRUE
  BY <1>3, ConnectsTo DEF Applied, IsValidRoom
<1>5. phase # "running" => UNCHANGED <<url, hasRoom>>
  BY DEF Applied
<1>6. QueueOK'
  <2>1. \A i \in 1 .. Len(calls) : calls[i].id # id
    BY <1>1 DEF GlassesInv, QueueOK
  <2>2. \A i \in 1 .. Len(calls) : calls[i].id \in 1 .. MaxSaves
    <3> SUFFICES ASSUME NEW i \in 1 .. Len(calls) PROVE calls[i].id \in 1 .. MaxSaves
      OBVIOUS
    <3>1. calls[i] \in Calls
      BY ElementOfSeq DEF GlassesInv, QueueOK
    <3> QED
      BY <3>1 DEF Calls
  <2>3. \A i \in 1 .. Len(calls) : saves'[calls[i].id] = saves[calls[i].id]
    BY <1>2, <2>1, <2>2
  <2> QED
    BY <1>1, <1>2, <2>3 DEF GlassesInv, QueueOK
<1>7. SavesOK'
  BY <1>1, <1>2 DEF GlassesInv, SavesOK
<1>8. StoredOK'
  BY <1>1, <1>2 DEF GlassesInv, StoredOK
<1>9. AppOK'
  <2>1. settings \in Settings
    BY DEF GlassesInv, AppOK
  <2>2. url' # Null => url'.room \in Rooms /\ url'.pin \in Pins \union {None}
    BY <1>3, <1>4, <1>5, <2>1, UrlOfSettings DEF GlassesInv, AppOK
  <2>3. hasRoom' \in BOOLEAN
    BY <1>4, <1>5 DEF GlassesInv, AppOK
  <2> QED
    BY <1>1, <1>2, <1>5, <2>2, <2>3 DEF GlassesInv, AppOK
<1>10. LastSaveWins'
  <2>1. DriverUrl(settings)' = DriverUrl(settings)
    BY <1>1 DEF DriverUrl
  <2>2. IsValidRoom(settings.room)' = TRUE
    BY <1>1, <1>3 DEF IsValidRoom
  <2> QED
    BY <1>1, <1>4, <2>1, <2>2 DEF LastSaveWins
<1> QED
  BY <1>6, <1>7, <1>8, <1>9, <1>10 DEF GlassesInv

\* The steps that touch neither the store nor the queue.
LEMMA QuietQueue ==
  ASSUME GlassesInv, UNCHANGED <<stored, calls, saves, count, kept>>
  PROVE  QueueOK' /\ SavesOK' /\ StoredOK'
<1>1. QueueOK'
  BY DEF GlassesInv, QueueOK
<1>2. SavesOK'
  BY DEF GlassesInv, SavesOK
<1>3. StoredOK'
  BY DEF GlassesInv, StoredOK
<1> QED
  BY <1>1, <1>2, <1>3

LEMMA LaunchInv ==
  ASSUME GlassesInv, NEW by \in Launches, Launch(by)
  PROVE  GlassesInv'
<1>1. QueueOK' /\ SavesOK' /\ StoredOK'
  BY QuietQueue DEF Launch
<1>2. stored \in Settings
  BY DEF GlassesInv, StoredOK
<1>3. /\ settings' \in Settings
      /\ stored.room \in Rooms => settings'.room \in Rooms
  BY <1>2 DEF Launch, SeedFromSearch, Settings, IsValidRoom, IsValidPin
<1>4. mode' \in RenderModes
  BY DEF Launch, ResolveRenderMode, RenderModes
<1>5. by # Null /\ launch' = by /\ phase' = "paging" /\ phase = "off"
      /\ UNCHANGED <<stored, helloName, hasRoom, url, saves, count>>
  BY NullAssumption DEF Launch
<1>6. AppOK'
  BY <1>3, <1>4, <1>5 DEF GlassesInv, AppOK
<1>7. LastSaveWins'
  BY <1>5 DEF LastSaveWins
<1> QED
  BY <1>1, <1>6, <1>7 DEF GlassesInv

LEMMA PageAnsweredInv ==
  ASSUME GlassesInv, PageAnswered
  PROVE  GlassesInv'
<1>1. QueueOK' /\ SavesOK' /\ StoredOK'
  BY QuietQueue DEF PageAnswered
<1>2. /\ phase = "paging" /\ phase' = "running" /\ helloName' = settings.name
      /\ hasRoom' = IsValidRoom(settings.room)
      /\ UNCHANGED <<stored, launch, settings, mode, saves, count>>
      /\ settings \in Settings /\ url = Null
  BY DEF PageAnswered, GlassesInv, AppOK
<1>3. url' = Null \/ (settings.room \in Rooms /\ url' = DriverUrl(settings))
  BY <1>2 DEF PageAnswered, Connects, IsValidRoom
<1>4. helloName' \in Names \union {None}
  BY <1>2 DEF Settings
<1>5. hasRoom' \in BOOLEAN
  BY <1>2 DEF IsValidRoom
<1>6. AppOK'
  BY <1>2, <1>3, <1>4, <1>5, UrlOfSettings DEF GlassesInv, AppOK
<1>7. DriverUrl(settings)' = DriverUrl(settings)
  BY <1>2 DEF DriverUrl
<1>8. IsValidRoom(settings.room)' = IsValidRoom(settings.room)
  BY <1>2 DEF IsValidRoom
<1>9. LastSaveWins'
  BY <1>2, <1>3, <1>7, <1>8 DEF LastSaveWins
<1> QED
  BY <1>1, <1>6, <1>9 DEF GlassesInv

LEMMA PageRejectedInv ==
  ASSUME GlassesInv, PageRejected
  PROVE  GlassesInv'
<1>1. QueueOK' /\ SavesOK' /\ StoredOK'
  BY QuietQueue DEF PageRejected
<1>2. AppOK'
  BY DEF PageRejected, GlassesInv, AppOK
<1>3. LastSaveWins'
  BY DEF PageRejected, LastSaveWins
<1> QED
  BY <1>1, <1>2, <1>3 DEF GlassesInv

\* Foreground and exit.
LEMMA HostEventsInv ==
  ASSUME GlassesInv, Foreground \/ Exit
  PROVE  GlassesInv'
<1>1. QueueOK' /\ SavesOK' /\ StoredOK'
  BY QuietQueue DEF Foreground, Exit
<1>2. /\ phase = "running" /\ settings \in Settings
      /\ UNCHANGED <<stored, phase, launch, settings, mode, helloName, hasRoom, saves, count>>
  BY DEF Foreground, Exit, GlassesInv, AppOK
<1>3. url' \in {Null, url} \/ (settings.room \in Rooms /\ url' = DriverUrl(settings))
  BY DEF Foreground, Exit, Connects, IsValidRoom
<1>4. AppOK'
  BY <1>2, <1>3, UrlOfSettings DEF GlassesInv, AppOK
<1>5. DriverUrl(settings)' = DriverUrl(settings)
  BY <1>2 DEF DriverUrl
<1>6. IsValidRoom(settings.room)' = IsValidRoom(settings.room)
  BY <1>2 DEF IsValidRoom
<1>7. LastSaveWins'
  BY <1>2, <1>3, <1>5, <1>6 DEF GlassesInv, LastSaveWins
<1> QED
  BY <1>1, <1>4, <1>7 DEF GlassesInv

LEMMA KillInv ==
  ASSUME GlassesInv, Kill
  PROVE  GlassesInv'
<1>1. /\ phase' = "off" /\ launch' = Null /\ settings' = EmptySettings /\ mode' = "image"
      /\ helloName' = None /\ hasRoom' = FALSE /\ url' = Null
      /\ calls' = << >> /\ saves' = [id \in 1 .. MaxSaves |-> Null]
      /\ UNCHANGED <<stored, count, kept>>
  BY DEF Kill
<1>2. EmptySettings \in Settings
  BY DEF EmptySettings, Settings
<1>3. QueueOK'
  BY <1>1 DEF QueueOK
<1>4. SavesOK'
  BY <1>1 DEF SavesOK
<1>5. StoredOK'
  BY <1>1 DEF GlassesInv, StoredOK
<1>6. hasRoom' \in BOOLEAN /\ mode' \in RenderModes
  BY <1>1 DEF RenderModes
<1>7. AppOK'
  BY <1>1, <1>2, <1>6 DEF GlassesInv, AppOK
<1>8. LastSaveWins'
  BY <1>1 DEF LastSaveWins
<1> QED
  BY <1>3, <1>4, <1>5, <1>7, <1>8 DEF GlassesInv

LEMMA StutterInv ==
  ASSUME GlassesInv, UNCHANGED glassesVars
  PROVE  GlassesInv'
<1>1. QueueOK' /\ SavesOK' /\ StoredOK'
  BY QuietQueue DEF glassesVars
<1>2. AppOK'
  BY DEF glassesVars, GlassesInv, AppOK
<1>3. LastSaveWins'
  BY DEF glassesVars, GlassesInv, LastSaveWins, DriverUrl, IsValidRoom
<1> QED
  BY <1>1, <1>2, <1>3 DEF GlassesInv

\* Every reachable state satisfies the inductive invariant.
THEOREM GlassesInvHolds == GlassesSpec => []GlassesInv
<1>1. GlassesInv /\ [GlassesNext]_glassesVars => GlassesInv'
  BY LaunchInv, PageAnsweredInv, PageRejectedInv, SubmitInv, HostAnswersInv, HostFailsInv,
     AppliedInv, HostEventsInv, KillInv, StutterInv DEF GlassesNext
<1> QED
  BY InitGlassesInv, <1>1, PTL DEF GlassesSpec

--------------------------------------------------------------------------------
(* The properties.                                                             *)

\* Type correctness: a text that is typed, seeded or half written stays in its kind.
THEOREM GlassesTypeCorrect == GlassesSpec => []GlassesTypeOK
<1>1. GlassesInv => GlassesTypeOK
  BY DEF GlassesInv, StoredOK, SavesOK, AppOK, GlassesTypeOK
<1> QED
  BY <1>1, GlassesInvHolds, PTL

\* However many saves overlap, the client and the screen follow the last one.
THEOREM TheLastSaveWins == GlassesSpec => []LastSaveWins
<1>1. GlassesInv => LastSaveWins
  BY DEF GlassesInv
<1> QED
  BY <1>1, GlassesInvHolds, PTL

\* However many saves are refused, fail or are killed, a whole one is not lost.
THEOREM SettingsAlwaysSurvive == GlassesSpec => []SavedSettingsSurvive
<1>1. GlassesInv => SavedSettingsSurvive
  BY DEF GlassesInv, StoredOK, AppOK, SavedSettingsSurvive, IsValidRoom
<1> QED
  BY <1>1, GlassesInvHolds, PTL
================================================================================

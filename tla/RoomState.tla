------------------------------- MODULE RoomState -------------------------------
(* The room state every client renders and the pure reducer the relay applies *)
(* to it (packages/protocol/src/reduce.ts, with the state type and isHudEmpty *)
(* of index.ts).  Texts are abstract values; they are the trimmed texts of    *)
(* 1..80 characters the frame guards let through, so the reducer's own trim   *)
(* does nothing to them.  A message keeps its id and whether it is acked: its *)
(* text and timestamps are only ever drawn.  The preset list never holds a    *)
(* text twice and its order is only ever drawn, so it is a set.               *)
EXTENDS Integers, FiniteSets

CONSTANTS Lanes,          \* the lanes a spotter can call
          Texts,          \* the texts a preset can hold
          Null,           \* no lane, no message
          CAR_LEVEL_MAX,  \* the highest closeness level
          PRESETS_MAX     \* most texts a room keeps

ASSUME ReducerAssumption ==
  /\ CAR_LEVEL_MAX \in Nat
  /\ PRESETS_MAX \in Nat
  /\ Null \notin Lanes

Roles == {"spotter", "driver"}
Sides == {"left", "mid", "right"}

Cars   == [Sides -> 0 .. CAR_LEVEL_MAX]
NoCars == [side \in Sides |-> 0]

Messages == [id : Nat, acked : BOOLEAN]

ASSUME NoMessageAssumption == Null \notin Messages

RoomStates ==
  [seq       : Nat,
   lane      : Lanes \union {Null},
   cars      : Cars,
   msg       : Messages \union {Null},
   online    : [Roles -> BOOLEAN],
   updatedAt : Nat,
   calledAt  : Nat,
   presets   : SUBSET Texts]

InitialState ==
  [seq |-> 0, lane |-> Null, cars |-> NoCars, msg |-> Null,
   online |-> [role \in Roles |-> FALSE],
   updatedAt |-> 0, calledAt |-> 0, presets |-> {}]

\* Nothing the driver's HUD would show: the presets do not count.
HudEmpty(state) ==
  /\ state.lane = Null
  /\ state.cars = NoCars
  /\ state.msg = Null

--------------------------------------------------------------------------------
(* How every change is stamped.                                               *)

Later(a, b) == IF a < b THEN b ELSE a

\* Stamp a state whose content has just been replaced.
Changed(state, now) ==
  [state EXCEPT !.seq = @ + 1, !.updatedAt = Later(@, now)]

\* A spotter call also restarts the stale-clear window.
Called(state, now) ==
  [Changed(state, now) EXCEPT !.calledAt = Later(@, now)]

--------------------------------------------------------------------------------
(* One operator per event.  An event that changes nothing returns the state   *)
(* itself, which is how the relay knows that there is nothing to broadcast.   *)

ReduceLane(state, lane, now) ==
  IF lane = state.lane THEN state
  ELSE Called([state EXCEPT !.lane = lane], now)

\* Seeded fault: a report is rounded but not clamped.
CarLevelRounded(halves) == (halves + 1) \div 2

\* Math.round then clamp.  A report is in half levels, so that the rounding of
\* halves (upwards, as JavaScript does) is visible: 3 stands for 1.5.
CarLevel(halves) ==
  LET rounded == (halves + 1) \div 2
  IN  IF rounded < 0 THEN 0
      ELSE IF rounded > CAR_LEVEL_MAX THEN CAR_LEVEL_MAX ELSE rounded

ReduceCars(state, report, now) ==
  LET cars == [side \in Sides |-> CarLevel(report[side])]
  IN  IF cars = state.cars THEN state
      ELSE Called([state EXCEPT !.cars = cars], now)

\* Every message gets an id of its own, the same words sent twice included.
ReduceMessage(state, newId, now) ==
  Called([state EXCEPT !.msg = [id |-> newId, acked |-> FALSE]], now)

ReduceClear(state, now) ==
  IF state.msg = Null THEN state
  ELSE Called([state EXCEPT !.msg = Null], now)

\* Seeded fault: an ack is for whatever message there is.
ReduceAckOfAny(state, msgId, now) ==
  IF state.msg # Null /\ ~state.msg.acked
  THEN Changed([state EXCEPT !.msg.acked = TRUE], now)
  ELSE state

\* Not a call: the driver's ack never restarts the stale-clear window.
ReduceAck(state, msgId, now) ==
  IF state.msg # Null /\ state.msg.id = msgId /\ ~state.msg.acked
  THEN Changed([state EXCEPT !.msg.acked = TRUE], now)
  ELSE state

ReducePresetAdd(state, text, now) ==
  IF text \in state.presets \/ Cardinality(state.presets) >= PRESETS_MAX
  THEN state
  ELSE Changed([state EXCEPT !.presets = @ \union {text}], now)

ReducePresetRemove(state, text, now) ==
  IF text \notin state.presets THEN state
  ELSE Changed([state EXCEPT !.presets = @ \ {text}], now)

ReducePeer(state, role, online, now) ==
  IF state.online[role] = online THEN state
  ELSE Changed([state EXCEPT !.online[role] = online], now)

\* A fresh lifetime: presets and presence go with everything else.
ReduceExpire(state) == InitialState

\* Blanks what the HUD shows; presence and presets stay.
ReduceStale(state, now) ==
  IF HudEmpty(state) THEN state
  ELSE Changed([state EXCEPT !.lane = Null, !.cars = NoCars,
                             !.msg = Null, !.calledAt = 0], now)
================================================================================

----------------------- MODULE WaterProtection_proofs -----------------------
(***************************************************************************)
(* Proofs about the valve node and about the automations that share it,    *)
(* for every set of sensors, every delay and every set of commands.        *)
(*                                                                         *)
(* The node alone comes first, in layers: the types, the guarded motor     *)
(* (any command), the single movement (relays switched on by the buttons   *)
(* only), the true position (buttons and restarts only), the actuator.     *)
(* Then the node under the automations: whatever a step of the flat does   *)
(* to it is a NodeStep, which keeps the same layers; the true position     *)
(* needs an invariant of its own, because the automations switch the       *)
(* relays off before the chains end.                                       *)
(***************************************************************************)
EXTENDS WaterProtection, TLAPS

(* A turn-on keeps the types.                                              *)
LEMMA TurnOnType ==
  ASSUME TypeOK, NEW d \in Dir, TurnOn(d)
  PROVE  TypeOK'
<1>1. RunTime \in 0 .. RunTime
  BY TimesAssumption
<1>2. relay' \in [Dir -> BOOLEAN]
  BY DEF TurnOn
<1>3. chains' \in [Dir -> SUBSET (0 .. RunTime)]
  BY <1>1 DEF TurnOn, TypeOK
<1>4. valve_active' \in BOOLEAN
  BY DEF TurnOn, TypeOK
<1>5. QED
  BY <1>2, <1>3, <1>4 DEF TurnOn, TypeOK

(* A boot from a well-typed image keeps the types.                         *)
LEMMA BootType ==
  ASSUME TypeOK, NEW image \in Image, Boot(image)
  PROVE  TypeOK'
<1>1. RunTime \in 0 .. RunTime
  BY TimesAssumption
<1>2. chains' \in [Dir -> SUBSET (0 .. RunTime)]
  BY <1>1 DEF Boot
<1>3. QED
  BY <1>2 DEF Boot, TypeOK, Image

LEMMA ImagesTyped ==
  ASSUME TypeOK
  PROVE  Current \in Image /\ stored \in Image
BY DEF TypeOK, Current, Image

(* Time keeps the types: only a chain that is not due counts down, and the *)
(* motor stays between its ends.                                           *)
LEMMA TickType ==
  ASSUME TypeOK, ValveTick
  PROVE  TypeOK'
<1>1. \A d \in Dir : {t - 1 : t \in chains[d]} \subseteq 0 .. RunTime
  <2> SUFFICES ASSUME NEW d \in Dir, NEW t \in chains[d]
               PROVE  t - 1 \in 0 .. RunTime
    OBVIOUS
  <2>1. t \in 0 .. RunTime /\ t # 0
    BY DEF TypeOK, ValveTick, Settled
  <2>2. QED
    BY <2>1, TimesAssumption
<1>2. chains' \in [Dir -> SUBSET (0 .. RunTime)]
  BY <1>1 DEF ValveTick
<1>3. pos' \in 0 .. Travel
  BY TimesAssumption DEF ValveTick, Moved, TypeOK
<1>4. QED
  BY <1>2, <1>3 DEF ValveTick, TypeOK

LEMMA StepType ==
  ASSUME TypeOK, [ValveNext]_valveVars
  PROVE  TypeOK'
<1>1. ASSUME NEW d \in Dir, Command(d)
      PROVE  TypeOK'
  <2>1. CASE Press(d)
    BY <2>1, TurnOnType DEF Press, TypeOK, valveVars
  <2>2. CASE SwitchOn(d)
    BY <2>2, TurnOnType DEF SwitchOn
  <2>3. CASE SwitchOff(d)
    BY <2>3 DEF SwitchOff, TurnOff, TypeOK
  <2>4. QED
    BY <1>1, <2>1, <2>2, <2>3 DEF Command
<1>2. ASSUME NEW d \in Dir, ChainEnd(d)
      PROVE  TypeOK'
  BY <1>2 DEF ChainEnd, TypeOK
<1>3. CASE Publish
  BY <1>3 DEF Publish, TypeOK
<1>4. CASE Sync
  BY <1>4, ImagesTyped DEF Sync, FlashSync, TypeOK
<1>5. CASE Reboot
  BY <1>5, ImagesTyped, BootType DEF Reboot, Restart, PowerLoss
<1>6. CASE ValveTick
  BY <1>6, TickType
<1>7. CASE UNCHANGED valveVars
  BY <1>7 DEF valveVars, TypeOK
<1>8. QED
  BY <1>1, <1>2, <1>3, <1>4, <1>5, <1>6, <1>7 DEF ValveNext

LEMMA InitType ==
  ASSUME ValveInit
  PROVE  TypeOK
<1>1. NoneOn \in [Dir -> BOOLEAN]
  BY DEF NoneOn
<1>2. relay \in [Dir -> BOOLEAN] /\ stored \in Image
  BY <1>1 DEF ValveInit, Image
<1>3. chains \in [Dir -> SUBSET (0 .. RunTime)]
  BY DEF ValveInit
<1>4. pos \in 0 .. Travel
  BY TimesAssumption DEF ValveInit
<1>5. QED
  BY <1>2, <1>3, <1>4 DEF ValveInit, TypeOK

(* Every variable of the node keeps its type, whatever reaches it.         *)
THEOREM TypeCorrect == ValveSpec => []TypeOK
<1>1. ValveInit => TypeOK
  BY InitType
<1>2. TypeOK /\ [ValveNext]_valveVars => TypeOK'
  BY StepType
<1>3. QED
  BY <1>1, <1>2, PTL DEF ValveSpec

-----------------------------------------------------------------------------
(* The guarded motor.  The flash must never hold an image with both relays *)
(* on, or a boot would switch both on: that is the strengthening.          *)

OneRelay(r) == ~ (r["close"] /\ r["open"])

MotorInv == TypeOK /\ MotorGuarded /\ OneRelay(stored.relay)

LEMMA TurnOnGuarded ==
  ASSUME MotorInv, NEW d \in Dir, TurnOn(d)
  PROVE  MotorInv'
<1>1. TypeOK'
  BY TurnOnType DEF MotorInv
<1>2. \A x \in Dir : relay'[x] => x = d
  BY DEF TurnOn
<1>3. chains'[d] # {}
  <2>1. CASE relay[d]
    BY <2>1 DEF TurnOn, MotorInv, MotorGuarded
  <2>2. CASE ~ relay[d]
    BY <2>2 DEF TurnOn, MotorInv, TypeOK
  <2>3. QED
    BY <2>1, <2>2
<1>4. MotorGuarded'
  BY <1>2, <1>3 DEF MotorGuarded, Dir
<1>5. QED
  BY <1>1, <1>4 DEF MotorInv, TurnOn, OneRelay

LEMMA BootGuarded ==
  ASSUME MotorInv, NEW image \in Image, OneRelay(image.relay), Boot(image)
  PROVE  MotorInv'
<1>1. TypeOK'
  BY BootType DEF MotorInv
<1>2. MotorGuarded'
  BY DEF Boot, MotorGuarded, OneRelay, Dir
<1>3. QED
  BY <1>1, <1>2 DEF MotorInv, Boot

LEMMA StepGuarded ==
  ASSUME MotorInv, [ValveNext]_valveVars
  PROVE  MotorInv'
<1>1. TypeOK'
  BY StepType DEF MotorInv
<1>2. ASSUME NEW d \in Dir, Command(d)
      PROVE  MotorInv'
  <2>1. CASE Press(d)
    BY <1>1, <2>1, TurnOnGuarded DEF Press, MotorInv, MotorGuarded, valveVars
  <2>2. CASE SwitchOn(d)
    BY <2>2, TurnOnGuarded DEF SwitchOn
  <2>3. CASE SwitchOff(d)
    BY <1>1, <2>3 DEF SwitchOff, TurnOff, MotorInv, MotorGuarded, TypeOK, Dir
  <2>4. QED
    BY <1>2, <2>1, <2>2, <2>3 DEF Command
<1>3. ASSUME NEW d \in Dir, ChainEnd(d)
      PROVE  MotorInv'
  BY <1>1, <1>3 DEF ChainEnd, MotorInv, MotorGuarded, TypeOK, Dir
<1>4. CASE Publish
  BY <1>1, <1>4 DEF Publish, MotorInv, MotorGuarded
<1>5. CASE Sync
  BY <1>1, <1>5 DEF Sync, FlashSync, Current, MotorInv, MotorGuarded, OneRelay
<1>6. CASE Reboot
  <2>1. OneRelay(Current.relay) /\ OneRelay(stored.relay)
    BY DEF Current, MotorInv, MotorGuarded, OneRelay
  <2>2. QED
    BY <1>6, <2>1, ImagesTyped, BootGuarded DEF Reboot, Restart, PowerLoss, MotorInv
<1>7. CASE ValveTick
  <2>1. \A d \in Dir : chains[d] # {} => chains'[d] # {}
    BY <1>7 DEF ValveTick
  <2>2. QED
    BY <1>1, <1>7, <2>1 DEF ValveTick, MotorInv, MotorGuarded
<1>8. CASE UNCHANGED valveVars
  BY <1>1, <1>8 DEF valveVars, MotorInv, MotorGuarded
<1>9. QED
  BY <1>2, <1>3, <1>4, <1>5, <1>6, <1>7, <1>8 DEF ValveNext

LEMMA InitGuarded ==
  ASSUME ValveInit
  PROVE  MotorInv
<1>1. TypeOK
  BY InitType
<1>2. MotorGuarded /\ OneRelay(stored.relay)
  BY DEF ValveInit, MotorGuarded, OneRelay, NoneOn, Dir
<1>3. QED
  BY <1>1, <1>2 DEF MotorInv

(* Whatever reaches the node, the relays exclude each other and no relay   *)
(* is on without a chain that will switch it off: a motor is never left    *)
(* running, not by overlapping chains, not by a restart and not by a power *)
(* loss that brings back an old image.                                     *)
THEOREM MotorIsGuarded == ValveSpec => []MotorGuarded
<1>1. ValveInit => MotorInv
  BY InitGuarded
<1>2. MotorInv /\ [ValveNext]_valveVars => MotorInv'
  BY StepGuarded
<1>3. MotorInv => MotorGuarded
  BY DEF MotorInv
<1>4. QED
  BY <1>1, <1>2, <1>3, PTL DEF ValveSpec

-----------------------------------------------------------------------------
(* The single movement.  A button is refused while "Valve Active" is on;   *)
(* with one message a pass the published sensor is the global itself, and  *)
(* while the relays are switched on by the buttons only the global is on   *)
(* exactly while one chain is pending.                                     *)

ButtonsOnly == "switch_on" \notin Commands /\ OnePerPass

MovementInv == MotorInv /\ OneMovement /\ ActiveOnlyMoving

LEMMA BootSingle ==
  ASSUME MovementInv, NEW image \in Image, OneRelay(image.relay), Boot(image)
  PROVE  MovementInv'
<1>1. MotorInv'
  BY BootGuarded DEF MovementInv
<1>2. image.relay # NoneOn <=> \E d \in Dir : image.relay[d]
  BY DEF Image, NoneOn, Dir
<1>3. RunTime \in 0 .. RunTime
  BY TimesAssumption
<1>4. ActiveOnlyMoving'
  BY <1>2 DEF Boot, ActiveOnlyMoving
<1>5. OneMovement'
  BY <1>2, <1>3 DEF Boot, OneMovement, OneRelay, Dir, Other
<1>6. QED
  BY <1>1, <1>4, <1>5 DEF MovementInv

LEMMA PressSingle ==
  ASSUME MovementInv, ButtonsOnly, NEW d \in Dir, Listening, Press(d)
  PROVE  MovementInv'
<1>1. CASE id_valve_active
  BY <1>1 DEF Press, valveVars, MovementInv, MotorInv, TypeOK, MotorGuarded,
              OneMovement, ActiveOnlyMoving
<1>2. CASE ~ id_valve_active
  <2>1. TurnOn(d)
    BY <1>2 DEF Press
  <2>2. MotorInv'
    BY <2>1, TurnOnGuarded DEF MovementInv
  <2>3. ~ valve_active
    BY <1>2 DEF Listening, Published, ButtonsOnly
  <2>4. \A x \in Dir : chains[x] = {}
    BY <2>3 DEF MovementInv, OneMovement
  <2>5. ~ relay[d]
    BY <2>4 DEF MovementInv, MotorInv, MotorGuarded
  <2>6. chains' = [chains EXCEPT ![d] = {RunTime}] /\ valve_active'
    BY <2>1, <2>4, <2>5 DEF TurnOn, MovementInv, MotorInv, TypeOK
  <2>7. RunTime \in 0 .. RunTime
    BY TimesAssumption
  <2>8. OneMovement' /\ ActiveOnlyMoving'
    BY <2>4, <2>6, <2>7 DEF MovementInv, MotorInv, TypeOK, OneMovement,
                            ActiveOnlyMoving, Dir, Other
  <2>9. QED
    BY <2>2, <2>8 DEF MovementInv
<1>3. QED
  BY <1>1, <1>2

LEMMA StepSingle ==
  ASSUME MovementInv, ButtonsOnly, [ValveNext]_valveVars
  PROVE  MovementInv'
<1>1. MotorInv'
  BY StepGuarded DEF MovementInv
<1>2. ASSUME NEW d \in Dir, Command(d)
      PROVE  MovementInv'
  <2>1. CASE Press(d)
    BY <1>2, <2>1, PressSingle DEF Command
  <2>2. CASE SwitchOff(d)
    BY <1>1, <2>2 DEF SwitchOff, TurnOff, MovementInv, OneMovement, ActiveOnlyMoving
  <2>3. QED
    BY <1>2, <2>1, <2>2 DEF Command, ButtonsOnly
<1>3. ASSUME NEW d \in Dir, ChainEnd(d)
      PROVE  MovementInv'
  <2>1. \A x \in Dir : chains'[x] = {}
    BY <1>3 DEF ChainEnd, MovementInv, MotorInv, TypeOK, OneMovement, Dir, Other
  <2>2. QED
    BY <1>1, <1>3, <2>1 DEF ChainEnd, MovementInv, OneMovement, ActiveOnlyMoving
<1>4. CASE Publish
  BY <1>1, <1>4 DEF Publish, MovementInv, OneMovement, ActiveOnlyMoving
<1>5. CASE Sync
  BY <1>1, <1>5 DEF Sync, FlashSync, MovementInv, OneMovement, ActiveOnlyMoving
<1>6. CASE Reboot
  <2>1. OneRelay(Current.relay) /\ OneRelay(stored.relay)
    BY DEF Current, MovementInv, MotorInv, MotorGuarded, OneRelay
  <2>2. QED
    BY <1>6, <2>1, ImagesTyped, BootSingle
       DEF Reboot, Restart, PowerLoss, MovementInv, MotorInv
<1>7. CASE ValveTick
  <2>1. \A d \in Dir : chains'[d] = {t - 1 : t \in chains[d]}
    BY <1>7 DEF ValveTick
  <2>2. \A d \in Dir : chains[d] = {} <=> chains'[d] = {}
    BY <2>1
  <2>3. ASSUME NEW d \in Dir, chains'[d] # {}
        PROVE  \E t \in 0 .. RunTime : chains'[d] = {t}
    <3>1. PICK u \in 0 .. RunTime : chains[d] = {u}
      BY <2>2, <2>3 DEF MovementInv, OneMovement
    <3>2. chains'[d] = {u - 1}
      BY <2>1, <3>1
    <3>3. u - 1 \in 0 .. RunTime
      BY <1>1, <3>2, <2>3 DEF MotorInv, TypeOK
    <3>4. QED
      BY <3>2, <3>3
  <2>4. QED
    BY <1>1, <1>7, <2>2, <2>3
       DEF ValveTick, MovementInv, OneMovement, ActiveOnlyMoving, Dir, Other
<1>8. CASE UNCHANGED valveVars
  BY <1>1, <1>8 DEF valveVars, MovementInv, OneMovement, ActiveOnlyMoving
<1>9. QED
  BY <1>2, <1>3, <1>4, <1>5, <1>6, <1>7, <1>8 DEF ValveNext

LEMMA InitSingle ==
  ASSUME ValveInit
  PROVE  MovementInv
BY InitGuarded DEF MovementInv, ValveInit, OneMovement, ActiveOnlyMoving

(* While the relays are switched on by the buttons only, "Valve Active" is *)
(* on exactly while one movement runs, through switch-offs, restarts and   *)
(* power losses.                                                           *)
THEOREM OneMovementAtATime ==
  ButtonsOnly => (ValveSpec => []BusyIsTrue)
<1> SUFFICES ASSUME ButtonsOnly
             PROVE  ValveSpec => []BusyIsTrue
  OBVIOUS
<1>1. ValveInit => MovementInv
  BY InitSingle
<1>2. MovementInv /\ [ValveNext]_valveVars => MovementInv'
  BY StepSingle
<1>3. MovementInv => BusyIsTrue
  BY DEF MovementInv, BusyIsTrue
<1>4. QED
  BY <1>1, <1>2, <1>3, PTL DEF ValveSpec

-----------------------------------------------------------------------------
(* The true position.  Used through its buttons, with restarts that sync   *)
(* first and a chain long enough for the whole travel, the node keeps      *)
(* exact books: a pending chain has its relay on, and its remaining time   *)
(* covers what the motor still has to travel.                              *)

WellUsed ==
  /\ Commands \subseteq {"press", "sync", "restart"}
  /\ OnePerPass
  /\ Travel <= RunTime

Driving == \A d \in Dir : chains[d] # {} => relay[d]

Covered ==
  /\ \A t \in chains["open"] : pos + t >= Travel
  /\ \A t \in chains["close"] : pos <= t

PositionInv == MovementInv /\ Driving /\ Covered /\ ReportedPosition

LEMMA PressPosition ==
  ASSUME PositionInv, WellUsed, NEW d \in Dir, Listening, Press(d)
  PROVE  PositionInv'
<1>1. MovementInv'
  BY PressSingle DEF PositionInv, WellUsed, ButtonsOnly
<1>2. CASE id_valve_active
  BY <1>1, <1>2 DEF Press, valveVars, PositionInv, Driving, Covered, ReportedPosition
<1>3. CASE ~ id_valve_active
  <2>1. TurnOn(d)
    BY <1>3 DEF Press
  <2>2. ~ valve_active
    BY <1>3 DEF Listening, Published, WellUsed
  <2>3. \A x \in Dir : chains[x] = {}
    BY <2>2 DEF PositionInv, MovementInv, OneMovement
  <2>4. ~ relay[d]
    BY <2>3 DEF PositionInv, MovementInv, MotorInv, MotorGuarded
  <2>5. /\ chains' = [chains EXCEPT ![d] = {RunTime}]
        /\ valve_active' = TRUE
        /\ relay' = [x \in Dir |-> x = d]
        /\ pos' = pos
    BY <2>1, <2>3, <2>4 DEF TurnOn, PositionInv, MovementInv, MotorInv, TypeOK
  <2>6. Driving'
    BY <2>3, <2>5 DEF Driving, PositionInv, MovementInv, MotorInv, TypeOK
  <2>7. pos \in 0 .. Travel /\ Travel <= RunTime /\ RunTime \in Nat /\ Travel \in Nat
    BY TimesAssumption DEF PositionInv, MovementInv, MotorInv, TypeOK, WellUsed
  <2>8. \A x \in Dir : \A t \in chains'[x] : t = RunTime
    BY <2>3, <2>5 DEF PositionInv, MovementInv, MotorInv, TypeOK
  <2>9. Covered'
    BY <2>5, <2>7, <2>8 DEF Covered, Dir
  <2>10. QED
    BY <1>1, <2>5, <2>6, <2>9 DEF PositionInv, ReportedPosition
<1>4. QED
  BY <1>2, <1>3

LEMMA RestartPosition ==
  ASSUME PositionInv, Restart
  PROVE  PositionInv'
<1>1. OneRelay(Current.relay) /\ Current \in Image /\ TypeOK
  BY ImagesTyped DEF Current, PositionInv, MovementInv, MotorInv, MotorGuarded, OneRelay
<1>2. MovementInv'
  BY <1>1, BootSingle DEF Restart, PositionInv
<1>3. /\ relay' = relay
      /\ chains' = [d \in Dir |-> IF relay[d] THEN {RunTime} ELSE {}]
      /\ valve_bool' = valve_bool
      /\ valve_active' = (relay # NoneOn)
      /\ pos' = pos
  BY DEF Restart, Boot, Current
<1>4. Driving'
  BY <1>3 DEF Driving
<1>5. CASE \E d \in Dir : chains[d] # {}
  <2>1. \E d \in Dir : relay[d]
    BY <1>5 DEF PositionInv, Driving
  <2>2. relay # NoneOn
    BY <2>1 DEF NoneOn
  <2>3. ReportedPosition'
    BY <1>3, <2>2 DEF ReportedPosition
  <2>4. ASSUME NEW d \in Dir, relay[d]
        PROVE  \E t \in chains[d] : t <= RunTime
    BY <2>4 DEF PositionInv, MovementInv, MotorInv, MotorGuarded, TypeOK
  <2>5. \A t \in chains'["open"] : pos' + t >= Travel
    BY <1>1, <1>3, <2>4, TimesAssumption DEF PositionInv, Covered, TypeOK, Dir
  <2>6. \A t \in chains'["close"] : pos' <= t
    BY <1>1, <1>3, <2>4, TimesAssumption DEF PositionInv, Covered, TypeOK, Dir
  <2>7. QED
    BY <1>2, <1>4, <2>3, <2>5, <2>6 DEF PositionInv, Covered
<1>6. CASE \A d \in Dir : chains[d] = {}
  <2>1. \A d \in Dir : ~ relay[d]
    BY <1>6 DEF PositionInv, MovementInv, MotorInv, MotorGuarded
  <2>2. relay = NoneOn
    BY <1>1, <2>1 DEF NoneOn, TypeOK
  <2>3. ~ valve_active
    BY <1>6 DEF PositionInv, MovementInv, ActiveOnlyMoving
  <2>4. QED
    BY <1>2, <1>3, <1>4, <2>1, <2>2, <2>3
       DEF PositionInv, Covered, ReportedPosition, Dir
<1>7. QED
  BY <1>5, <1>6

LEMMA ChainEndPosition ==
  ASSUME PositionInv, ButtonsOnly, NEW d \in Dir, ChainEnd(d)
  PROVE  PositionInv'
<1>1. MovementInv'
  BY StepSingle DEF PositionInv, ValveNext
<1>2. \A x \in Dir : chains'[x] = {}
  BY DEF ChainEnd, PositionInv, MovementInv, MotorInv, TypeOK, OneMovement, Dir, Other
<1>3. pos \in 0 .. Travel /\ Travel \in Nat /\ pos' = pos /\ 0 \in chains[d]
  BY TimesAssumption DEF ChainEnd, PositionInv, MovementInv, MotorInv, TypeOK
<1>4. CASE d = "open"
  <2>1. pos = Travel
    <3>1. 0 \in chains["open"] /\ pos + 0 >= Travel
      BY <1>3, <1>4 DEF PositionInv, Covered
    <3>2. QED
      BY <1>3, <3>1
  <2>2. valve_bool' = TRUE
    BY <1>4, Zenon DEF ChainEnd
  <2>3. QED
    BY <1>1, <1>2, <1>3, <2>1, <2>2 DEF PositionInv, Driving, Covered, ReportedPosition, Dir
<1>5. CASE d = "close"
  <2>1. pos = 0
    <3>1. 0 \in chains["close"] /\ pos <= 0
      BY <1>3, <1>5 DEF PositionInv, Covered
    <3>2. QED
      BY <1>3, <3>1
  <2>2. valve_bool' = FALSE
    BY <1>5 DEF ChainEnd
  <2>3. QED
    BY <1>1, <1>2, <1>3, <2>1, <2>2 DEF PositionInv, Driving, Covered, ReportedPosition, Dir
<1>6. QED
  BY <1>4, <1>5 DEF Dir

LEMMA TickPosition ==
  ASSUME PositionInv, ButtonsOnly, ValveTick
  PROVE  PositionInv'
<1>1. MovementInv'
  BY StepSingle DEF PositionInv, ValveNext
<1>2. TypeOK
  BY DEF PositionInv, MovementInv, MotorInv
<1>3. \A d \in Dir : chains'[d] = {t - 1 : t \in chains[d]}
  BY DEF ValveTick
<1>4. Driving'
  BY <1>3 DEF PositionInv, Driving, ValveTick
<1>5. ASSUME NEW u \in chains'["open"]
      PROVE  pos' + u >= Travel
  <2>1. PICK t \in chains["open"] : u = t - 1
    BY <1>3, <1>5 DEF Dir
  <2>2. relay["open"] /\ t \in Nat /\ pos + t >= Travel
    BY <1>2, <2>1 DEF PositionInv, Driving, Covered, TypeOK, Dir
  <2>3. pos' = IF pos < Travel THEN pos + 1 ELSE pos
    BY <2>2 DEF PositionInv, MovementInv, MotorInv, MotorGuarded, ValveTick, Moved
  <2>4. t # 0
    BY <2>1 DEF ValveTick, Settled, Dir
  <2>5. QED
    BY <1>2, <2>1, <2>2, <2>3, <2>4, TimesAssumption DEF TypeOK
<1>6. ASSUME NEW u \in chains'["close"]
      PROVE  pos' <= u
  <2>1. PICK t \in chains["close"] : u = t - 1
    BY <1>3, <1>6 DEF Dir
  <2>2. relay["close"] /\ t \in Nat /\ pos <= t
    BY <1>2, <2>1 DEF PositionInv, Driving, Covered, TypeOK, Dir
  <2>3. pos' = IF pos > 0 THEN pos - 1 ELSE pos
    BY <2>2 DEF PositionInv, MovementInv, MotorInv, MotorGuarded, ValveTick, Moved
  <2>4. t # 0
    BY <2>1 DEF ValveTick, Settled, Dir
  <2>5. QED
    BY <1>2, <2>1, <2>2, <2>3, <2>4, TimesAssumption DEF TypeOK
<1>7. ReportedPosition'
  <2>1. CASE valve_active
    BY <2>1 DEF ValveTick, ReportedPosition
  <2>2. CASE ~ valve_active
    <3>1. ~ relay["open"] /\ ~ relay["close"]
      BY <2>2 DEF PositionInv, MovementInv, OneMovement, MotorInv, MotorGuarded, Dir
    <3>2. pos' = pos
      BY <3>1 DEF ValveTick, Moved
    <3>3. QED
      BY <2>2, <3>2 DEF ValveTick, PositionInv, ReportedPosition
  <2>3. QED
    BY <2>1, <2>2
<1>8. QED
  BY <1>1, <1>4, <1>5, <1>6, <1>7 DEF PositionInv, Covered

LEMMA StepPosition ==
  ASSUME PositionInv, WellUsed, [ValveNext]_valveVars
  PROVE  PositionInv'
<1>1. ButtonsOnly
  BY DEF WellUsed, ButtonsOnly
<1>2. MovementInv'
  BY <1>1, StepSingle DEF PositionInv
<1>3. ASSUME NEW d \in Dir, Command(d)
      PROVE  PositionInv'
  BY <1>3, PressPosition DEF Command, WellUsed
<1>4. ASSUME NEW d \in Dir, ChainEnd(d)
      PROVE  PositionInv'
  BY <1>1, <1>4, ChainEndPosition
<1>5. CASE Publish
  BY <1>2, <1>5 DEF Publish, PositionInv, Driving, Covered, ReportedPosition
<1>6. CASE Sync
  BY <1>2, <1>6 DEF Sync, FlashSync, PositionInv, Driving, Covered, ReportedPosition
<1>7. CASE Reboot
  BY <1>7, RestartPosition DEF Reboot, WellUsed
<1>8. CASE ValveTick
  BY <1>1, <1>8, TickPosition
<1>9. CASE UNCHANGED valveVars
  BY <1>2, <1>9 DEF valveVars, PositionInv, Driving, Covered, ReportedPosition
<1>10. QED
  BY <1>3, <1>4, <1>5, <1>6, <1>7, <1>8, <1>9 DEF ValveNext

LEMMA InitPosition ==
  ASSUME ValveInit
  PROVE  PositionInv
<1>1. MovementInv
  BY InitSingle
<1>2. QED
  BY <1>1 DEF ValveInit, PositionInv, Driving, Covered, ReportedPosition, Dir

(* Well used, the node knows the position of a valve it cannot see:        *)
(* whenever no movement runs, the recorded position is the real one.       *)
THEOREM PositionIsReported == WellUsed => (ValveSpec => []ReportedPosition)
<1> SUFFICES ASSUME WellUsed
             PROVE  ValveSpec => []ReportedPosition
  OBVIOUS
<1>1. ValveInit => PositionInv
  BY InitPosition
<1>2. PositionInv /\ [ValveNext]_valveVars => PositionInv'
  BY StepPosition
<1>3. PositionInv => ReportedPosition
  BY DEF PositionInv
<1>4. QED
  BY <1>1, <1>2, <1>3, PTL DEF ValveSpec

-----------------------------------------------------------------------------
(* What the buttons never do, and what they implement.                     *)

LEMMA PressFromRest ==
  ASSUME MovementInv, ButtonsOnly, NEW d \in Dir, Listening, Press(d)
  PROVE  \/ UNCHANGED valveVars
         \/ /\ \A x \in Dir : chains[x] = {} /\ ~ relay[x]
            /\ chains' = [chains EXCEPT ![d] = {RunTime}]
            /\ valve_bool' = valve_bool
<1>1. CASE id_valve_active
  BY <1>1 DEF Press
<1>2. CASE ~ id_valve_active
  <2>1. TurnOn(d)
    BY <1>2 DEF Press
  <2>2. ~ valve_active
    BY <1>2 DEF Listening, Published, ButtonsOnly
  <2>3. \A x \in Dir : chains[x] = {} /\ ~ relay[x]
    BY <2>2 DEF MovementInv, OneMovement, MotorInv, MotorGuarded
  <2>4. QED
    BY <2>1, <2>3 DEF TurnOn, MovementInv, MotorInv, TypeOK
<1>3. QED
  BY <1>1, <1>2

(* A press acts only at rest, and no image but the current one is booted:  *)
(* then no step of the node reverses the motor.                            *)
Gentle == ButtonsOnly /\ "power_loss" \notin Commands

LEMMA StepNoReversal ==
  ASSUME MovementInv, Gentle, [ValveNext]_valveVars, NEW d \in Dir, relay[d]
  PROVE  ~ relay'[Other(d)]
<1>1. /\ Other(d) \in Dir /\ Other(d) # d /\ ~ relay[Other(d)]
      /\ ButtonsOnly /\ TypeOK
  BY DEF Other, Dir, MovementInv, MotorInv, MotorGuarded, Gentle
<1>2. ASSUME NEW x \in Dir, Command(x)
      PROVE  ~ relay'[Other(d)]
  <2>1. CASE Listening /\ Press(x)
    BY <1>1, <2>1, PressFromRest DEF valveVars
  <2>2. CASE SwitchOff(x)
    BY <1>1, <2>2 DEF SwitchOff, TurnOff, TypeOK
  <2>3. QED
    BY <1>1, <1>2, <2>1, <2>2 DEF Command, ButtonsOnly
<1>3. ASSUME NEW x \in Dir, ChainEnd(x)
      PROVE  ~ relay'[Other(d)]
  BY <1>1, <1>3 DEF ChainEnd, TypeOK
<1>4. CASE Reboot
  BY <1>1, <1>4 DEF Reboot, Restart, Boot, Current, Gentle
<1>5. CASE Publish \/ Sync \/ ValveTick \/ UNCHANGED valveVars
  BY <1>1, <1>5 DEF Publish, Sync, FlashSync, ValveTick, valveVars
<1>6. QED
  BY <1>2, <1>3, <1>4, <1>5 DEF ValveNext

(* Used through its buttons and relay-offs, with restarts by its button,   *)
(* the node never switches the motor straight from one direction to the    *)
(* other.  A power loss may: it boots the relay of an old image.           *)
THEOREM MotorNeverReverses == Gentle => (ValveSpec => NoReversal)
<1> SUFFICES ASSUME Gentle
             PROVE  ValveSpec => NoReversal
  OBVIOUS
<1>1. ValveInit => MovementInv
  BY InitSingle
<1>2. MovementInv /\ [ValveNext]_valveVars => MovementInv'
  BY StepSingle DEF Gentle
<1>3. MovementInv /\ [ValveNext]_valveVars
      => [\A d \in Dir : relay[d] => ~ relay'[Other(d)]]_valveVars
  BY StepNoReversal
<1>4. QED
  BY <1>1, <1>2, <1>3, PTL DEF ValveSpec, NoReversal

(* What the refinement mapping makes of one pending chain.                 *)
LEMMA LeftOfOne ==
  ASSUME NEW d \in Dir, NEW t, chains[d] = {t}, chains[Other(d)] = {}
  PROVE  Mode = d /\ Left = t
<1>1. Mode = d /\ d # "idle"
  BY DEF Mode, Dir, Other
<1>2. QED
  BY <1>1 DEF Left

LEMMA LeftOfNone ==
  ASSUME \A d \in Dir : chains[d] = {}
  PROVE  Mode = "idle" /\ Left = 0
BY DEF Mode, Left, Dir

LEMMA SameMovement ==
  ASSUME chains' = chains, valve_bool' = valve_bool
  PROVE  UNCHANGED Actuator!actuatorVars
BY DEF Mode, Left, Actuator!actuatorVars

LEMMA PressActsAsBegin ==
  ASSUME MovementInv, ButtonsOnly, NEW d \in Dir, Listening, Press(d)
  PROVE  [Actuator!Next]_(Actuator!actuatorVars)
<1> USE DEF Actuator!actuatorVars
<1>1. CASE UNCHANGED valveVars
  BY <1>1, SameMovement DEF valveVars
<1>2. CASE /\ \A x \in Dir : chains[x] = {}
           /\ chains' = [chains EXCEPT ![d] = {RunTime}]
           /\ valve_bool' = valve_bool
  <2>1. Mode = "idle"
    BY <1>2, LeftOfNone
  <2>2. chains'[d] = {RunTime} /\ chains'[Other(d)] = {}
    BY <1>2 DEF MovementInv, MotorInv, TypeOK, Dir, Other
  <2>3. Mode' = d /\ d # "idle"
    BY <2>2 DEF Mode, Dir, Other
  <2>4. Left' = RunTime
    BY <2>2, <2>3 DEF Left
  <2>5. QED
    BY <1>2, <2>1, <2>3, <2>4 DEF Actuator!Next, Actuator!Begin, Dir
<1>3. QED
  BY <1>1, <1>2, PressFromRest

(* Without a restart every step of the node, relay-offs included, is one   *)
(* of the actuator's: a relay-off changes neither the movement nor its     *)
(* remaining time.                                                         *)
LEMMA UnbrokenActs ==
  ASSUME MovementInv, ButtonsOnly, [ValveNext]_valveVars, ~ Reboot
  PROVE  [Actuator!Next]_(Actuator!actuatorVars)
<1> USE DEF Actuator!actuatorVars
<1>1. TypeOK
  BY DEF MovementInv, MotorInv
<1>2. ASSUME NEW d \in Dir, chains[d] # {}
      PROVE  /\ chains[Other(d)] = {}
             /\ \E t \in 0 .. RunTime : chains[d] = {t} /\ Mode = d /\ Left = t
  <2>1. PICK t \in 0 .. RunTime : chains[d] = {t} /\ chains[Other(d)] = {}
    BY <1>1, <1>2 DEF MovementInv, OneMovement
  <2>2. QED
    BY <1>2, <2>1, LeftOfOne
<1>3. ASSUME NEW d \in Dir, Command(d)
      PROVE  [Actuator!Next]_(Actuator!actuatorVars)
  <2>1. CASE Listening /\ Press(d)
    BY <2>1, PressActsAsBegin
  <2>2. CASE SwitchOff(d)
    <3>1. chains' = chains /\ valve_bool' = valve_bool
      BY <2>2 DEF SwitchOff, TurnOff
    <3>2. QED
      BY SameMovement, <3>1
  <2>3. QED
    BY <1>3, <2>1, <2>2 DEF Command, ButtonsOnly
<1>4. ASSUME NEW d \in Dir, ChainEnd(d)
      PROVE  [Actuator!Next]_(Actuator!actuatorVars)
  <2>1. 0 \in chains[d] /\ chains[d] # {}
    BY <1>4 DEF ChainEnd
  <2>2. chains[d] = {0} /\ chains[Other(d)] = {} /\ Mode = d /\ Left = 0
    BY <1>2, <2>1
  <2>3. \A x \in Dir : chains'[x] = {}
    BY <1>1, <1>4, <2>2 DEF ChainEnd, TypeOK, Dir, Other
  <2>4. Mode' = "idle" /\ Left' = 0
    BY <2>3 DEF Mode, Left, Dir
  <2>5. valve_bool' = (Mode = "open")
    BY <1>4, <2>2, Zenon DEF ChainEnd
  <2>6. Mode # "idle"
    BY <2>2 DEF Dir
  <2>7. Actuator!Finish
    BY <2>2, <2>4, <2>5, <2>6, Zenon DEF Actuator!Finish
  <2>8. QED
    BY <2>7 DEF Actuator!Next
<1>5. CASE Publish \/ Sync \/ UNCHANGED valveVars
  BY SameMovement, <1>5 DEF Publish, Sync, FlashSync, valveVars
<1>6. CASE ValveTick
  <2>1. valve_bool' = valve_bool /\ \A d \in Dir : chains'[d] = {t - 1 : t \in chains[d]}
    BY <1>6 DEF ValveTick
  <2>2. CASE \A d \in Dir : chains[d] = {}
    <3>1. \A d \in Dir : chains'[d] = {}
      BY <2>1, <2>2
    <3>2. Mode' = "idle" /\ Left' = 0
      BY <3>1 DEF Mode, Left, Dir
    <3>3. QED
      BY <2>1, <2>2, <3>2, LeftOfNone
  <2>3. ASSUME NEW d \in Dir, chains[d] # {}
        PROVE  Actuator!Drive
    <3>1. PICK t \in 0 .. RunTime : chains[d] = {t} /\ Mode = d /\ Left = t
      BY <1>2, <2>3
    <3>2. chains[Other(d)] = {} /\ Other(d) \in Dir
      BY <1>2, <2>3 DEF Other, Dir
    <3>3. t # 0
      BY <1>6, <3>1 DEF ValveTick, Settled
    <3>4. chains'[d] = {t - 1} /\ chains'[Other(d)] = {}
      BY <2>1, <3>1, <3>2
    <3>5. Mode' = d /\ d # "idle"
      BY <3>4 DEF Mode, Dir, Other
    <3>6. Left' = t - 1
      BY <3>4, <3>5 DEF Left
    <3>7. Left > 0
      BY <3>1, <3>3, TimesAssumption
    <3>8. QED
      BY <2>1, <3>1, <3>5, <3>6, <3>7 DEF Actuator!Drive
  <2>4. QED
    BY <2>2, <2>3 DEF Actuator!Next
<1>7. QED
  BY <1>3, <1>4, <1>5, <1>6 DEF ValveNext

(* A restart in the middle of a movement drives it again from its start.   *)
LEMMA RestartActs ==
  ASSUME PositionInv, Restart
  PROVE  [Actuator!Next]_(Actuator!actuatorVars)
<1> USE DEF Actuator!actuatorVars
<1>1. MovementInv /\ TypeOK
  BY DEF PositionInv, MovementInv, MotorInv
<1>2. /\ chains' = [d \in Dir |-> IF relay[d] THEN {RunTime} ELSE {}]
      /\ valve_bool' = valve_bool
  BY DEF Restart, Boot, Current
<1>3. CASE \A d \in Dir : chains[d] = {}
  <2>1. chains' = chains /\ valve_bool' = valve_bool
    BY <1>1, <1>2, <1>3 DEF MovementInv, MotorInv, MotorGuarded, TypeOK
  <2>2. QED
    BY <2>1, SameMovement
<1>4. ASSUME NEW d \in Dir, chains[d] # {}
      PROVE  Actuator!DriveAgain
  <2>1. relay[d] /\ ~ relay[Other(d)] /\ Mode = d /\ d # "idle"
    <3>1. PICK t \in 0 .. RunTime : chains[d] = {t} /\ chains[Other(d)] = {}
      BY <1>1, <1>4 DEF MovementInv, OneMovement
    <3>2. Mode = d
      BY <3>1, LeftOfOne
    <3>3. QED
      BY <1>1, <1>4, <3>2
         DEF PositionInv, Driving, MovementInv, MotorInv, MotorGuarded, Dir, Other
  <2>2. chains'[d] = {RunTime} /\ chains'[Other(d)] = {}
    BY <1>2, <2>1 DEF Dir, Other
  <2>3. Mode' = d
    BY <2>2 DEF Mode, Dir, Other
  <2>4. Left' = RunTime
    BY <2>1, <2>2, <2>3 DEF Left
  <2>5. QED
    BY <1>2, <2>1, <2>3, <2>4 DEF Actuator!DriveAgain
<1>5. QED
  BY <1>3, <1>4 DEF Actuator!Next

LEMMA StepActs ==
  ASSUME PositionInv, WellUsed, [ValveNext]_valveVars
  PROVE  [Actuator!Next]_(Actuator!actuatorVars)
<1>1. CASE Reboot
  BY <1>1, RestartActs DEF Reboot, WellUsed
<1>2. CASE ~ Reboot
  BY <1>2, UnbrokenActs DEF WellUsed, ButtonsOnly, PositionInv
<1>3. QED
  BY <1>1, <1>2

(* Well used, the node is the timed actuator: every step of it is a step   *)
(* of ValveActuator under the mapping, or changes nothing there.           *)
THEOREM NodeIsActuator == WellUsed => (ValveSpec => ImplementsActuator)
<1> SUFFICES ASSUME WellUsed
             PROVE  ValveSpec => ImplementsActuator
  OBVIOUS
<1>1. ValveInit => PositionInv
  BY InitPosition
<1>2. PositionInv /\ [ValveNext]_valveVars => PositionInv'
  BY StepPosition
<1>3. ValveInit => Actuator!Init
  BY LeftOfNone DEF ValveInit, Actuator!Init
<1>4. PositionInv /\ [ValveNext]_valveVars => [Actuator!Next]_(Actuator!actuatorVars)
  BY StepActs
<1>5. QED
  BY <1>1, <1>2, <1>3, <1>4, PTL DEF ValveSpec, ImplementsActuator, Actuator!Spec

-----------------------------------------------------------------------------
(* The automations and the node together.  Types first: those of the node  *)
(* follow from what a step of the composition can do to it, those of the   *)
(* automations from their own steps.                                       *)

(* All that a step of the flat or of an automation does to the node.       *)
BothOff ==
  /\ relay' = NoneOn
  /\ UNCHANGED <<chains, valve_bool, valve_active, id_valve_status,
                 id_valve_active, stored, pos>>

NodeStep ==
  \/ [ValveNext]_valveVars
  \/ \E d \in Dir : Listening /\ (Press(d) \/ SwitchOff(d))
  \/ BothOff

LEMMA AutomationsOnNode ==
  ASSUME LeakRun \/ TestRun \/ \E a \in {"off", "on", "force"} : MoveRun(a)
  PROVE  NodeStep
<1> USE DEF NodeStep, CallPress, CallSwitchOff, Call
<1>1. "close" \in Dir /\ "open" \in Dir /\ \A a : Target(a) \in Dir
  BY DEF Dir, Target
<1>2. CASE LeakRun
  BY <1>1, <1>2 DEF LeakRun, LeakStart, LeakRelayOff, LeakAwaited, LeakConfirm
<1>3. CASE TestRun
  BY <1>1, <1>3 DEF TestRun, TestStart, TestRelayOff, TestConfirm, TestRecheck, TestFinish
<1>4. ASSUME NEW a \in {"off", "on", "force"}, MoveRun(a)
      PROVE  NodeStep
  BY <1>1, <1>4 DEF MoveRun, MoveStart, MoveEnd
<1>5. QED
  BY <1>2, <1>3, <1>4

LEMMA FlatOnNode ==
  ASSUME Flat
  PROVE  NodeStep
<1> USE DEF NodeStep
<1>1. ASSUME NEW s \in Sensors, BecomeWet(s) \/ BecomeDry(s)
      PROVE  NodeStep
  BY <1>1 DEF BecomeWet, BecomeDry
<1>2. CASE AwayMode
  BY <1>2 DEF AwayMode, Call, BothOff
<1>3. CASE LinkLost \/ LinkBack
  BY <1>3 DEF LinkLost, LinkBack
<1>4. ASSUME NEW d \in Dir, Dashboard(d)
      PROVE  NodeStep
  BY <1>4 DEF Dashboard, ValveNext
<1>5. CASE NodeReboot
  BY <1>5 DEF NodeReboot, ValveNext
<1>6. QED
  BY <1>1, <1>2, <1>3, <1>4, <1>5 DEF Flat

LEMMA StepOnNode ==
  ASSUME [Next]_vars
  PROVE  NodeStep
<1>1. CASE LeakRun \/ TestRun \/ \E a \in {"off", "on", "force"} : MoveRun(a)
  BY <1>1, AutomationsOnNode
<1>2. CASE Flat
  BY <1>2, FlatOnNode
<1>3. CASE Clicks
  BY <1>3 DEF Clicks, SingleClick, DoubleClick, LongPress, TestTrigger, NodeStep
<1>4. ASSUME NEW s \in Sensors, LeakTrigger(s)
      PROVE  NodeStep
  BY <1>4 DEF LeakTrigger, NodeStep
<1>5. CASE NodeSync \/ NodePublish \/ Tick
  BY <1>5 DEF NodeSync, NodePublish, Tick, ValveNext, NodeStep
<1>6. ASSUME NEW d \in Dir, NodeChainEnd(d)
      PROVE  NodeStep
  BY <1>6 DEF NodeChainEnd, ValveNext, NodeStep
<1>7. CASE UNCHANGED vars
  BY <1>7 DEF vars, NodeStep
<1>8. QED
  BY <1>1, <1>2, <1>3, <1>4, <1>5, <1>6, <1>7 DEF Next

LEMMA NodeStepType ==
  ASSUME TypeOK, NodeStep
  PROVE  TypeOK'
<1>1. CASE [ValveNext]_valveVars
  BY <1>1, StepType
<1>2. ASSUME NEW d \in Dir, Press(d)
      PROVE  TypeOK'
  BY <1>2, TurnOnType DEF Press, TypeOK, valveVars
<1>3. ASSUME NEW d \in Dir, SwitchOff(d)
      PROVE  TypeOK'
  BY <1>3 DEF SwitchOff, TurnOff, TypeOK
<1>4. CASE BothOff
  BY <1>4 DEF BothOff, NoneOn, TypeOK
<1>5. QED
  BY <1>1, <1>2, <1>3, <1>4 DEF NodeStep

LEMMA NodeStepGuarded ==
  ASSUME MotorInv, NodeStep
  PROVE  MotorInv'
<1>1. CASE [ValveNext]_valveVars
  BY <1>1, StepGuarded
<1>2. ASSUME NEW d \in Dir, Press(d)
      PROVE  MotorInv'
  BY <1>2, TurnOnGuarded DEF Press, MotorInv, MotorGuarded, TypeOK, valveVars
<1>3. CASE BothOff \/ \E d \in Dir : SwitchOff(d)
  <2>1. TypeOK'
    BY NodeStepType DEF MotorInv
  <2>2. QED
    BY <1>3, <2>1 DEF BothOff, NoneOn, SwitchOff, TurnOff, MotorInv, MotorGuarded, TypeOK, Dir
<1>4. QED
  BY <1>1, <1>2, <1>3 DEF NodeStep

LEMMA NodeStepSingle ==
  ASSUME MovementInv, ButtonsOnly, NodeStep
  PROVE  MovementInv'
<1>1. CASE [ValveNext]_valveVars
  BY <1>1, StepSingle
<1>2. ASSUME NEW d \in Dir, Listening, Press(d)
      PROVE  MovementInv'
  BY <1>2, PressSingle
<1>3. CASE BothOff \/ \E d \in Dir : SwitchOff(d)
  <2>1. MotorInv'
    BY NodeStepGuarded DEF MovementInv
  <2>2. QED
    BY <1>3, <2>1
       DEF BothOff, SwitchOff, TurnOff, MovementInv, OneMovement, ActiveOnlyMoving
<1>4. QED
  BY <1>1, <1>2, <1>3 DEF NodeStep

-----------------------------------------------------------------------------
(* The types of the automations' own state.                                *)

HaTypeOK ==
  /\ pc \in [Automations -> Steps]
  /\ timer \in [Automations -> 0 .. Horizon]
  /\ queued \in 0 .. MaxRuns
  /\ armed \subseteq wet /\ wet \subseteq Sensors
  /\ hold \in [Sensors -> 0 .. HoldTime]
  /\ closeCalled \in BOOLEAN
  /\ online \in BOOLEAN
  /\ said \in Messages
  /\ spent \in [InputKinds -> Nat]

LEMMA DelaysFit ==
  /\ Horizon \in Nat
  /\ 0 \in 0 .. Horizon
  /\ DriveTime \in 0 .. Horizon
  /\ WaitTime \in 0 .. Horizon
  /\ AnnounceTime \in 0 .. Horizon
BY ProtectionAssumption DEF Horizon

LEMMA GotoType ==
  ASSUME HaTypeOK, NEW a \in Automations, NEW step \in Steps,
         NEW delay \in {0, DriveTime, WaitTime, AnnounceTime}, Goto(a, step, delay)
  PROVE  pc' \in [Automations -> Steps] /\ timer' \in [Automations -> 0 .. Horizon]
BY DelaysFit DEF HaTypeOK, Goto

LEMMA SpendType ==
  ASSUME HaTypeOK, NEW kind \in InputKinds, Spend(kind)
  PROVE  spent' \in [InputKinds -> Nat]
BY DEF HaTypeOK, Spend

LEMMA LeakType ==
  ASSUME HaTypeOK, LeakRun
  PROVE  HaTypeOK'
<1> USE DEF HaTypeOK
<1>1. "leak" \in Automations /\ {"drive", "await", "again", "confirm", "idle"} \subseteq Steps
      /\ {"nothing", "leak_closed", "leak_no_report"} \subseteq Messages
  BY DEF Automations, Steps, Messages
<1>2. CASE LeakStart
  <2>1. queued - 1 \in 0 .. MaxRuns
    BY <1>2, ProtectionAssumption DEF LeakStart
  <2>2. QED
    BY <1>1, <1>2, <2>1, GotoType DEF LeakStart
<1>3. CASE LeakRelayOff
  BY <1>1, <1>3, GotoType DEF LeakRelayOff
<1>4. CASE LeakAwaited
  BY <1>1, <1>4, GotoType DEF LeakAwaited
<1>5. CASE LeakConfirm
  BY <1>1, <1>5, GotoType DEF LeakConfirm
<1>6. QED
  BY <1>2, <1>3, <1>4, <1>5 DEF LeakRun

LEMMA TestType ==
  ASSUME HaTypeOK, TestRun
  PROVE  HaTypeOK'
<1> USE DEF HaTypeOK
<1>1. "test" \in Automations /\ {"drive", "confirm", "recheck", "opening", "finish", "idle"} \subseteq Steps
      /\ {"nothing", "test_no_report", "test_stopped", "test_done"} \subseteq Messages
  BY DEF Automations, Steps, Messages
<1>2. CASE TestStart
  BY <1>1, <1>2, GotoType DEF TestStart
<1>3. CASE TestRelayOff
  BY <1>1, <1>3, GotoType DEF TestRelayOff
<1>4. CASE TestConfirm
  BY <1>1, <1>4, GotoType DEF TestConfirm
<1>5. CASE TestRecheck
  BY <1>1, <1>5, GotoType DEF TestRecheck
<1>6. CASE TestFinish
  BY <1>1, <1>6, GotoType DEF TestFinish
<1>7. QED
  BY <1>2, <1>3, <1>4, <1>5, <1>6 DEF TestRun

LEMMA MoveType ==
  ASSUME HaTypeOK, NEW a \in {"off", "on", "force"}, MoveRun(a)
  PROVE  HaTypeOK'
<1>1. a \in Automations /\ {"drive", "idle"} \subseteq Steps
      /\ {"nothing", "water_off", "water_on"} \subseteq Messages
  BY DEF Automations, Steps, Messages
<1>2. CASE MoveStart(a)
  BY <1>1, <1>2, GotoType DEF MoveStart, HaTypeOK
<1>3. CASE MoveEnd(a)
  BY <1>1, <1>3, GotoType DEF MoveEnd, HaTypeOK
<1>4. QED
  BY <1>2, <1>3 DEF MoveRun

LEMMA ClickType ==
  ASSUME HaTypeOK, Clicks
  PROVE  HaTypeOK'
<1>1. {"off", "on", "force", "test"} \subseteq Automations /\ "announce" \in Steps
      /\ {"nothing", "already_closed", "already_open", "refused"} \subseteq Messages
      /\ {"single", "double", "hold", "test"} \subseteq InputKinds
  BY DEF Automations, Steps, Messages, InputKinds
<1>2. CASE SingleClick
  BY <1>1, <1>2, GotoType, SpendType DEF SingleClick, Decide, HaTypeOK
<1>3. CASE DoubleClick
  BY <1>1, <1>3, GotoType, SpendType DEF DoubleClick, Decide, HaTypeOK
<1>4. CASE LongPress
  BY <1>1, <1>4, GotoType, SpendType DEF LongPress, Decide, HaTypeOK
<1>5. CASE TestTrigger
  BY <1>1, <1>5, GotoType, SpendType DEF TestTrigger, HaTypeOK
<1>6. QED
  BY <1>2, <1>3, <1>4, <1>5 DEF Clicks

LEMMA FlatType ==
  ASSUME HaTypeOK, Flat
  PROVE  HaTypeOK'
<1>1. {"wet", "away", "link", "node"} \subseteq InputKinds /\ "nothing" \in Messages
      /\ 0 \in 0 .. HoldTime /\ HoldTime \in 0 .. HoldTime
  BY ProtectionAssumption DEF Messages, InputKinds
<1>2. ASSUME NEW s \in Sensors, BecomeWet(s)
      PROVE  HaTypeOK'
  BY <1>1, <1>2, SpendType DEF BecomeWet, HaTypeOK
<1>3. ASSUME NEW s \in Sensors, BecomeDry(s)
      PROVE  HaTypeOK'
  BY <1>1, <1>3 DEF BecomeDry, HaTypeOK
<1>4. CASE AwayMode \/ LinkLost \/ LinkBack
  BY <1>1, <1>4, SpendType DEF AwayMode, LinkLost, LinkBack, HaTypeOK
<1>5. ASSUME NEW d \in Dir, Dashboard(d)
      PROVE  HaTypeOK'
  BY <1>1, <1>5, SpendType DEF Dashboard, HaTypeOK
<1>6. CASE NodeReboot
  BY <1>1, <1>6, SpendType DEF NodeReboot, HaTypeOK
<1>7. QED
  BY <1>2, <1>3, <1>4, <1>5, <1>6 DEF Flat

LEMMA HaStepType ==
  ASSUME HaTypeOK, [Next]_vars
  PROVE  HaTypeOK'
<1>1. CASE LeakRun \/ TestRun \/ Clicks \/ Flat
  BY <1>1, LeakType, TestType, ClickType, FlatType
<1>2. CASE \E a \in {"off", "on", "force"} : MoveRun(a)
  BY <1>2, MoveType
<1>3. ASSUME NEW s \in Sensors, LeakTrigger(s)
      PROVE  HaTypeOK'
  <2>1. queued + 1 \in 0 .. MaxRuns \/ Runs >= MaxRuns
    BY ProtectionAssumption DEF HaTypeOK, Runs
  <2>2. ~ (Runs < MaxRuns) \/ queued + 1 \in 0 .. MaxRuns
    BY ProtectionAssumption DEF HaTypeOK, Runs
  <2>3. "nothing" \in Messages
    BY DEF Messages
  <2>4. QED
    BY <1>3, <2>2, <2>3 DEF LeakTrigger, HaTypeOK
<1>4. CASE NodeSync \/ \E d \in Dir : NodeChainEnd(d)
  BY <1>4 DEF NodeSync, NodeChainEnd, HaTypeOK, Messages
<1>5. CASE NodePublish
  <2>1. \A s, b : MoveMessage(s, b) \in Messages
    BY DEF MoveMessage, Messages
  <2>2. said' \in Messages
    BY <1>5, <2>1 DEF NodePublish, Messages
  <2>3. QED
    BY <1>5, <2>2 DEF NodePublish, HaTypeOK
<1>6. CASE Tick
  <2>1. timer' \in [Automations -> 0 .. Horizon]
    BY <1>6, DelaysFit DEF Tick, HaTypeOK
  <2>2. hold' \in [Sensors -> 0 .. HoldTime]
    BY <1>6, ProtectionAssumption DEF Tick, HaTypeOK
  <2>3. QED
    BY <1>6, <2>1, <2>2 DEF Tick, HaTypeOK, Messages
<1>7. CASE UNCHANGED vars
  BY <1>7 DEF vars, haVars, HaTypeOK
<1>8. QED
  BY <1>1, <1>2, <1>3, <1>4, <1>5, <1>6, <1>7 DEF Next

LEMMA InitHaType ==
  ASSUME Init
  PROVE  HaTypeOK
<1>1. 0 \in 0 .. Horizon /\ 0 \in 0 .. HoldTime /\ 0 \in 0 .. MaxRuns
  BY DelaysFit, ProtectionAssumption
<1>2. "idle" \in Steps /\ "nothing" \in Messages
  BY DEF Steps, Messages
<1>3. QED
  BY <1>1, <1>2 DEF Init, HaTypeOK

(* The composed system keeps its types, whatever happens in the flat.      *)
THEOREM ProtectionTypeCorrect == Spec => []ProtectionTypeOK
<1>1. Init => TypeOK /\ HaTypeOK
  BY InitType, InitHaType DEF Init
<1>2. TypeOK /\ HaTypeOK /\ [Next]_vars => (TypeOK /\ HaTypeOK)'
  BY StepOnNode, NodeStepType, HaStepType
<1>3. TypeOK /\ HaTypeOK => ProtectionTypeOK
  BY DEF HaTypeOK, ProtectionTypeOK
<1>4. QED
  BY <1>1, <1>2, <1>3, PTL DEF Spec

(* The motor stays guarded under the automations: whatever presses,        *)
(* relay-offs, restarts and away modes meet, no relay is on without a      *)
(* pending switch-off, and never both.                                     *)
THEOREM ProtectedMotorIsGuarded == Spec => []MotorGuarded
<1>1. Init => MotorInv
  BY InitGuarded DEF Init
<1>2. MotorInv /\ [Next]_vars => MotorInv'
  BY StepOnNode, NodeStepGuarded
<1>3. MotorInv => MotorGuarded
  BY DEF MotorInv
<1>4. QED
  BY <1>1, <1>2, <1>3, PTL DEF Spec

(* While nobody uses the relay switches to switch on, "Valve Active" is on *)
(* exactly while one movement runs, whichever automations overlap.         *)
THEOREM ProtectedOneMovement == ButtonsOnly => (Spec => []BusyIsTrue)
<1> SUFFICES ASSUME ButtonsOnly
             PROVE  Spec => []BusyIsTrue
  OBVIOUS
<1>1. Init => MovementInv
  BY InitSingle DEF Init
<1>2. MovementInv /\ [Next]_vars => MovementInv'
  BY StepOnNode, NodeStepSingle
<1>3. MovementInv => BusyIsTrue
  BY DEF MovementInv, BusyIsTrue
<1>4. QED
  BY <1>1, <1>2, <1>3, PTL DEF Spec

(* Nor does any step of the flat reverse the motor, if no power loss does. *)
THEOREM ProtectedMotorNeverReverses == Gentle => (Spec => NoReversal)
<1> SUFFICES ASSUME Gentle
             PROVE  Spec => NoReversal
  OBVIOUS
<1>1. Init => MovementInv
  BY InitSingle DEF Init
<1>2. MovementInv /\ [Next]_vars => MovementInv'
  BY StepOnNode, NodeStepSingle DEF Gentle
<1>3. ASSUME MovementInv, NodeStep, NEW d \in Dir, relay[d]
      PROVE  ~ relay'[Other(d)]
  <2>1. ~ relay[Other(d)] /\ Other(d) \in Dir /\ TypeOK
    BY <1>3 DEF MovementInv, MotorInv, MotorGuarded, Other, Dir
  <2>2. CASE [ValveNext]_valveVars
    BY <1>3, <2>2, StepNoReversal
  <2>3. ASSUME NEW x \in Dir, Listening, Press(x)
        PROVE  ~ relay'[Other(d)]
    BY <1>3, <2>1, <2>3, PressFromRest DEF Gentle, valveVars
  <2>4. CASE BothOff \/ \E x \in Dir : SwitchOff(x)
    BY <2>1, <2>4 DEF BothOff, NoneOn, SwitchOff, TurnOff, TypeOK
  <2>5. QED
    BY <1>3, <2>2, <2>3, <2>4 DEF NodeStep
<1>4. MovementInv /\ [Next]_vars
      => [\A d \in Dir : relay[d] => ~ relay'[Other(d)]]_valveVars
  BY <1>3, StepOnNode
<1>5. QED
  BY <1>1, <1>2, <1>4, PTL DEF Spec, NoReversal

(* Under all five automations, away mode, lost links and the dashboard's   *)
(* relay-offs the node is still the timed actuator of ValveActuator: it    *)
(* begins a movement only at rest and reports a position only after a full *)
(* run time.  A restart after a relay-off breaks the promise, so none may  *)
(* happen here.                                                            *)
THEOREM ProtectedNodeIsActuator ==
  ButtonsOnly /\ {"restart", "power_loss"} \cap Commands = {}
  => (Spec => ImplementsActuator)
<1> SUFFICES ASSUME ButtonsOnly, {"restart", "power_loss"} \cap Commands = {}
             PROVE  Spec => ImplementsActuator
  OBVIOUS
<1>1. Init => MovementInv
  BY InitSingle DEF Init
<1>2. MovementInv /\ [Next]_vars => MovementInv'
  BY StepOnNode, NodeStepSingle
<1>3. Init => Actuator!Init
  BY LeftOfNone DEF Init, ValveInit, Actuator!Init
<1>4. ~ Reboot
  BY DEF Reboot
<1>5. ASSUME MovementInv, NodeStep
      PROVE  [Actuator!Next]_(Actuator!actuatorVars)
  <2>1. CASE [ValveNext]_valveVars
    BY <1>4, <1>5, <2>1, UnbrokenActs
  <2>2. ASSUME NEW d \in Dir, Listening, Press(d)
        PROVE  [Actuator!Next]_(Actuator!actuatorVars)
    BY <1>5, <2>2, PressActsAsBegin
  <2>3. CASE BothOff \/ \E d \in Dir : SwitchOff(d)
    <3>1. chains' = chains /\ valve_bool' = valve_bool
      BY <2>3 DEF BothOff, SwitchOff, TurnOff
    <3>2. QED
      BY <3>1, SameMovement
  <2>4. QED
    BY <1>5, <2>1, <2>2, <2>3 DEF NodeStep
<1>6. MovementInv /\ [Next]_vars => [Actuator!Next]_(Actuator!actuatorVars)
  BY <1>5, StepOnNode
<1>7. QED
  BY <1>1, <1>2, <1>3, <1>6, PTL DEF Spec, ImplementsActuator, Actuator!Spec

-----------------------------------------------------------------------------
(* The position under the automations.  They cut every movement short by   *)
(* switching the relay off before the chain ends, so the chain's remaining *)
(* time does not say where the valve is; the books also note that a relay  *)
(* is off under a pending chain only once the end has been reached.        *)

Remaining(d) == IF d = "open" THEN Travel - pos ELSE pos

AtEnd(d) == Remaining(d) = 0

Underway ==
  \A d \in Dir : relay[d] =>
    \A t \in chains[d] : AtEnd(d) \/ Remaining(d) + RunTime <= Travel + t

EndReached ==
  \A d \in Dir : chains[d] # {} /\ ~ relay[d] => AtEnd(d)

SeenPosition ==
  ~ id_valve_active => pos = IF id_valve_status THEN Travel ELSE 0

Books ==
  MovementInv /\ Underway /\ EndReached /\ ReportedPosition /\ SeenPosition

LEMMA RemainingType ==
  ASSUME TypeOK
  PROVE  /\ pos \in Nat /\ Travel \in Nat /\ RunTime \in Nat /\ DriveTime \in Nat
         /\ \A d \in Dir : Remaining(d) \in 0 .. Travel
         /\ AtEnd("close") <=> pos = 0
         /\ AtEnd("open") <=> pos = Travel
BY TimesAssumption, ProtectionAssumption DEF TypeOK, Remaining, AtEnd, Dir

LEMMA BooksTyped ==
  ASSUME Books
  PROVE  TypeOK /\ MotorGuarded /\ OneMovement /\ ActiveOnlyMoving
BY DEF Books, MovementInv, MotorInv

(* A relay that is on has one chain, and the other direction has none.     *)
LEMMA OnlyChain ==
  ASSUME Books, NEW d \in Dir, chains[d] # {}
  PROVE  /\ valve_active /\ chains[Other(d)] = {} /\ ~ relay[Other(d)]
         /\ \E t \in 0 .. RunTime : chains[d] = {t}
BY BooksTyped DEF OneMovement, MotorGuarded, Other, Dir

(* A node that says it rests has no chain and no relay on.                 *)
LEMMA AtRest ==
  ASSUME Books, ~ valve_active
  PROVE  \A d \in Dir : chains[d] = {} /\ ~ relay[d]
BY BooksTyped DEF OneMovement, MotorGuarded

LEMMA PressActs ==
  ASSUME Books, ButtonsOnly, NEW d \in Dir, Listening, Press(d)
  PROVE  \/ id_valve_active /\ valve_active /\ UNCHANGED valveVars
         \/ /\ ~ id_valve_active
            /\ \A x \in Dir : chains[x] = {} /\ ~ relay[x]
            /\ relay' = [x \in Dir |-> x = d]
            /\ chains' = [chains EXCEPT ![d] = {RunTime}]
            /\ valve_active'
            /\ UNCHANGED <<valve_bool, id_valve_status, id_valve_active, pos>>
<1>1. id_valve_active = valve_active
  BY DEF Listening, Published, ButtonsOnly
<1>2. CASE id_valve_active
  BY <1>1, <1>2 DEF Press
<1>3. CASE ~ id_valve_active
  <2>1. \A x \in Dir : chains[x] = {} /\ ~ relay[x]
    BY <1>1, <1>3, AtRest
  <2>2. QED
    BY <1>3, <2>1, BooksTyped DEF Press, TurnOn, TypeOK
<1>4. QED
  BY <1>2, <1>3

LEMMA PressBooks ==
  ASSUME Books, ButtonsOnly, NEW d \in Dir, Listening, Press(d)
  PROVE  Books'
<1>1. MovementInv'
  BY PressSingle DEF Books
<1>2. CASE UNCHANGED valveVars
  BY <1>1, <1>2
     DEF valveVars, Books, Underway, EndReached, ReportedPosition, SeenPosition,
         AtEnd, Remaining
<1>3. CASE /\ \A x \in Dir : chains[x] = {} /\ ~ relay[x]
           /\ relay' = [x \in Dir |-> x = d]
           /\ chains' = [chains EXCEPT ![d] = {RunTime}]
           /\ valve_active'
           /\ UNCHANGED <<valve_bool, id_valve_status, id_valve_active, pos>>
  <2>1. \A x \in Dir : chains'[x] = IF x = d THEN {RunTime} ELSE {}
    BY <1>3, BooksTyped DEF TypeOK
  <2>2. \A x \in Dir : Remaining(x)' = Remaining(x) /\ Remaining(x) \in 0 .. Travel
    BY <1>3, BooksTyped, RemainingType DEF Remaining
  <2>3. Underway'
    BY <2>1, <2>2, BooksTyped, RemainingType DEF Underway
  <2>4. EndReached'
    BY <1>3, <2>1 DEF EndReached
  <2>5. QED
    BY <1>1, <1>3, <2>3, <2>4 DEF Books, ReportedPosition, SeenPosition
<1>4. QED
  BY <1>2, <1>3, PressActs

(* A relay-off keeps the books if the valve has reached the end.           *)
LEMMA SwitchOffBooks ==
  ASSUME Books, ButtonsOnly, NEW d \in Dir, SwitchOff(d), Listening,
         relay[d] => AtEnd(d)
  PROVE  Books'
<1>1. MovementInv'
  BY NodeStepSingle DEF Books, NodeStep
<1>2. /\ \A x \in Dir : relay'[x] = (relay[x] /\ x # d)
      /\ UNCHANGED <<chains, valve_bool, valve_active, id_valve_status, id_valve_active, pos>>
  BY BooksTyped DEF SwitchOff, TurnOff, TypeOK
<1>3. \A x \in Dir : Remaining(x)' = Remaining(x)
  BY <1>2 DEF Remaining
<1>4. Underway'
  BY <1>2, <1>3 DEF Books, Underway, AtEnd
<1>5. EndReached'
  BY <1>2, <1>3 DEF Books, EndReached, AtEnd
<1>6. QED
  BY <1>1, <1>2, <1>4, <1>5 DEF Books, ReportedPosition, SeenPosition

(* A chain that ends has driven the valve to its end.                      *)
LEMMA ChainEndAtEnd ==
  ASSUME Books, Timely, NEW d \in Dir, 0 \in chains[d]
  PROVE  AtEnd(d)
<1>1. CASE relay[d]
  <2>1. AtEnd(d) \/ Remaining(d) + RunTime <= Travel + 0
    BY <1>1 DEF Books, Underway
  <2>2. QED
    BY <2>1, BooksTyped, RemainingType DEF Timely, AtEnd
<1>2. CASE ~ relay[d]
  BY <1>2 DEF Books, EndReached
<1>3. QED
  BY <1>1, <1>2

LEMMA ChainEndBooks ==
  ASSUME Books, ButtonsOnly, Timely, NEW d \in Dir, ChainEnd(d)
  PROVE  Books' /\ AtEnd(d) /\ \A x \in Dir : chains'[x] = {} /\ ~ relay'[x]
<1>1. MovementInv'
  BY NodeStepSingle DEF Books, NodeStep, ValveNext
<1>2. AtEnd(d)
  BY ChainEndAtEnd DEF ChainEnd
<1>3. \A x \in Dir : chains'[x] = {}
  <2>1. chains[d] = {0} /\ chains[Other(d)] = {}
    BY OnlyChain DEF ChainEnd
  <2>2. QED
    BY <2>1, BooksTyped DEF ChainEnd, TypeOK, Dir, Other
<1>4. \A x \in Dir : ~ relay'[x]
  BY <1>1, <1>3 DEF MovementInv, MotorInv, MotorGuarded
<1>5. pos = IF d = "open" THEN Travel ELSE 0
  BY <1>2, BooksTyped, RemainingType DEF Dir
<1>6. ReportedPosition'
  <2>1. valve_bool' <=> d = "open"
    BY DEF ChainEnd
  <2>2. pos' = pos
    BY DEF ChainEnd
  <2>3. QED
    BY <1>5, <2>1, <2>2 DEF ReportedPosition
<1>7. SeenPosition'
  BY DEF ChainEnd, Books, SeenPosition
<1>8. QED
  BY <1>1, <1>2, <1>3, <1>4, <1>6, <1>7 DEF Books, Underway, EndReached

LEMMA QuietBooks ==
  ASSUME Books, ButtonsOnly, Publish \/ Sync \/ UNCHANGED valveVars
  PROVE  Books' /\ UNCHANGED <<relay, chains, pos>>
<1>1. MovementInv'
  BY NodeStepSingle DEF Books, NodeStep, ValveNext
<1>2. UNCHANGED <<relay, chains, pos, valve_bool, valve_active>>
  BY DEF Publish, Sync, FlashSync, valveVars
<1>3. Underway' /\ EndReached' /\ ReportedPosition'
  BY <1>2 DEF Books, Underway, EndReached, ReportedPosition, AtEnd, Remaining
<1>4. SeenPosition'
  BY DEF Publish, Sync, FlashSync, valveVars, Books, SeenPosition, ReportedPosition
<1>5. QED
  BY <1>1, <1>2, <1>3, <1>4 DEF Books

(* A tick brings the driven end one step nearer.                           *)
LEMMA TickRemaining ==
  ASSUME Books, ValveTick, NEW d \in Dir, relay[d]
  PROVE  Remaining(d)' = IF AtEnd(d) THEN 0 ELSE Remaining(d) - 1
<1>1. ~ relay[Other(d)]
  BY OnlyChain, BooksTyped DEF MotorGuarded
<1>2. QED
  BY <1>1, BooksTyped, RemainingType DEF ValveTick, Moved, Remaining, AtEnd, Other, Dir

LEMMA TickBooks ==
  ASSUME Books, ButtonsOnly, ValveTick
  PROVE  Books'
<1>1. MovementInv'
  BY NodeStepSingle DEF Books, NodeStep, ValveNext
<1>2. relay' = relay /\ \A d \in Dir : chains'[d] = {t - 1 : t \in chains[d]}
  BY DEF ValveTick
<1>3. Underway'
  <2> SUFFICES ASSUME NEW d \in Dir, relay'[d], NEW u \in chains'[d], ~ AtEnd(d)'
               PROVE  Remaining(d)' + RunTime <= Travel + u
    BY DEF Underway
  <2>1. PICK t \in chains[d] : u = t - 1
    BY <1>2
  <2>2. AtEnd(d) \/ Remaining(d) + RunTime <= Travel + t
    BY <1>2 DEF Books, Underway
  <2>3. t \in Nat
    BY BooksTyped DEF TypeOK
  <2>4. QED
    BY <1>2, <2>1, <2>2, <2>3, TickRemaining, BooksTyped, RemainingType DEF AtEnd
<1>4. ASSUME \A d \in Dir : ~ relay[d]
      PROVE  pos' = pos
  BY <1>4 DEF ValveTick, Moved, Dir
<1>5. EndReached'
  <2> SUFFICES ASSUME NEW d \in Dir, chains'[d] # {}, ~ relay'[d]
               PROVE  AtEnd(d)'
    BY DEF EndReached
  <2>1. chains[d] # {} /\ ~ relay[d]
    BY <1>2
  <2>2. AtEnd(d) /\ ~ relay[Other(d)]
    BY <2>1, OnlyChain DEF Books, EndReached
  <2>3. pos' = pos
    BY <1>4, <2>1, <2>2 DEF Dir, Other
  <2>4. QED
    BY <2>2, <2>3 DEF AtEnd, Remaining
<1>6. ReportedPosition' /\ SeenPosition'
  <2>1. valve_active' = valve_active /\ valve_bool' = valve_bool
        /\ id_valve_active' = id_valve_active /\ id_valve_status' = id_valve_status
        /\ id_valve_active = valve_active
    BY DEF ValveTick, Settled, Published
  <2>2. ~ valve_active => pos' = pos
    BY <1>4, AtRest
  <2>3. QED
    BY <2>1, <2>2 DEF Books, ReportedPosition, SeenPosition
<1>7. QED
  BY <1>1, <1>3, <1>5, <1>6 DEF Books

-----------------------------------------------------------------------------
(* The automations on the one node.  A run drives a direction from its     *)
(* press until its relay-off.                                              *)

DriveSteps(a, d) ==
  CASE d = "close" /\ a = "leak"            -> {"drive", "again"}
    [] d = "close" /\ a \in {"off", "test"} -> {"drive"}
    [] d = "open" /\ a \in {"on", "force"}  -> {"drive"}
    [] d = "open" /\ a = "test"             -> {"opening"}
    [] OTHER                                -> {}

Drives(a, d) == pc[a] \in DriveSteps(a, d)

(* The delay of a run did not begin before the chain that it will cut.     *)
Alone ==
  \A a \in Automations, d \in Dir :
    relay[d] /\ Drives(a, d) => \A t \in chains[d] : t + DriveTime <= timer[a] + RunTime

(* Only closings run.  Whoever pressed, the valve will be closed before    *)
(* any of the runs switches the relay off.                                 *)
Together ==
  /\ pc["test"] \notin {"opening", "finish"}
  /\ chains["open"] = {}
  /\ \A a \in Automations :
       Drives(a, "close") =>
         pos = 0 \/ (relay["close"] /\ pos + DriveTime <= Travel + timer[a])

(* The test has come to its opening, or is over.                           *)
Opened == spent["test"] = 1 /\ pc["test"] \in {"idle", "opening", "finish"}

Ordered ==
  /\ OneEach(spent) => Alone
  /\ OnlyClosings(spent) => Together \/ (Alone /\ Opened)

(* What nobody asked for does not run.                                     *)
Unasked ==
  /\ spent["link"] = 0 => online
  /\ spent["single"] = 0 => pc["off"] = "idle"
  /\ spent["double"] = 0 => pc["on"] = "idle"
  /\ spent["hold"] = 0 => pc["force"] = "idle"
  /\ spent["test"] = 0 => pc["test"] = "idle"
  /\ spent["wet"] = 0 => wet = {} /\ queued = 0 /\ pc["leak"] = "idle"

TrueReports ==
  /\ pc["test"] = "recheck" => pos = 0
  /\ said \in {"leak_closed", "test_stopped"} => pos = 0
  /\ said = "test_done" => pos = Travel

HandledInv == Books /\ Unasked /\ Ordered /\ TrueReports

-----------------------------------------------------------------------------
(* How the kinds of step leave Alone and Together.                         *)

LEMMA GotoEffect ==
  ASSUME HaTypeOK, NEW a \in Automations, NEW step, NEW delay, Goto(a, step, delay)
  PROVE  /\ pc'[a] = step /\ timer'[a] = delay
         /\ \A b \in Automations \ {a} : pc'[b] = pc[b] /\ timer'[b] = timer[b]
BY DEF HaTypeOK, Goto

(* Nothing driven, nothing promised.                                       *)
LEMMA RestIsAlone ==
  ASSUME Books, ~ valve_active
  PROVE  Alone
BY AtRest DEF Alone

(* A step that leaves the node alone.  A run may begin its delay without a *)
(* press, as one whose press is lost does.                                 *)
LEMMA StayOrdered ==
  ASSUME Books, UNCHANGED <<relay, chains, pos>>
  PROVE  /\ /\ Alone
            /\ \A a \in Automations, d \in Dir :
                 Drives(a, d)' => \/ Drives(a, d) /\ timer'[a] = timer[a]
                                  \/ timer'[a] = DriveTime
            => Alone'
         /\ /\ Together /\ pc'["test"] \notin {"opening", "finish"}
            /\ \A a \in Automations :
                 Drives(a, "close")' => Drives(a, "close") /\ timer'[a] = timer[a]
            => Together'
<1>1. ASSUME Alone,
             \A a \in Automations, d \in Dir :
               Drives(a, d)' => \/ Drives(a, d) /\ timer'[a] = timer[a]
                                \/ timer'[a] = DriveTime
      PROVE  Alone'
  <2>1. \A d \in Dir : \A t \in chains[d] : t \in Nat /\ t <= RunTime
    BY BooksTyped, RemainingType DEF TypeOK
  <2>2. \A t \in Nat : t <= RunTime => t + DriveTime <= DriveTime + RunTime
    BY BooksTyped, RemainingType
  <2>3. QED
    BY <1>1, <2>1, <2>2 DEF Alone
<1>2. ASSUME Together, pc'["test"] \notin {"opening", "finish"},
             \A a \in Automations :
               Drives(a, "close")' => Drives(a, "close") /\ timer'[a] = timer[a]
      PROVE  Together'
  BY <1>2 DEF Together, Dir
<1>3. QED
  BY <1>1, <1>2

(* A press, heard or refused, by a run that did not drive before.          *)
LEMMA PressOrdered ==
  ASSUME HaTypeOK, Books, ButtonsOnly, Timely,
         NEW a \in Automations, NEW d \in Dir, NEW step \in DriveSteps(a, d),
         \A x \in Dir : ~ Drives(a, x), Listening, Press(d), Goto(a, step, DriveTime)
  PROVE  /\ Alone /\ (\A b \in Automations \ {a} : ~ Drives(b, d)) => Alone'
         /\ Together /\ d = "close" => Together'
<1>1. /\ Drives(a, d)' /\ timer'[a] = DriveTime
      /\ \A x \in Dir : Drives(a, x)' => x = d
      /\ \A b \in Automations \ {a} : \A x \in Dir :
            (Drives(b, x)' <=> Drives(b, x)) /\ timer'[b] = timer[b]
  <2>1. /\ pc'[a] = step /\ timer'[a] = DriveTime
        /\ \A b \in Automations \ {a} : pc'[b] = pc[b] /\ timer'[b] = timer[b]
    BY GotoEffect
  <2>2. \A x \in Dir : step \in DriveSteps(a, x) => x = d
    BY DEF DriveSteps, Dir, Automations
  <2>3. QED
    BY <2>1, <2>2 DEF Drives
<1>2. CASE id_valve_active /\ valve_active /\ UNCHANGED valveVars
  <2>1. Alone => Alone'
    <3>1. UNCHANGED <<relay, chains, pos>>
      BY <1>2 DEF valveVars
    <3>2. QED
      BY <1>1, <3>1, StayOrdered
  <2>2. ASSUME Together, d = "close"
        PROVE  Together'
    <3>1. chains["close"] # {}
      BY <1>2, <2>2, BooksTyped DEF ActiveOnlyMoving, Together, Dir
    <3>2. pos = 0 \/ relay["close"]
      BY <3>1, BooksTyped, RemainingType DEF Books, EndReached, Dir
    <3>3. pos + DriveTime <= Travel + timer'[a]
      BY <1>1, BooksTyped, RemainingType DEF TypeOK
    <3>4. pc'["test"] \notin {"opening", "finish"}
      BY <2>2, GotoEffect DEF Together, DriveSteps, Automations
    <3>5. QED
      BY <1>1, <1>2, <2>2, <3>2, <3>3, <3>4 DEF Together, valveVars, Dir
  <2>3. QED
    BY <2>1, <2>2
<1>3. CASE /\ \A x \in Dir : chains[x] = {} /\ ~ relay[x]
           /\ relay' = [x \in Dir |-> x = d]
           /\ chains' = [chains EXCEPT ![d] = {RunTime}]
           /\ UNCHANGED pos
  <2>1. \A x \in Dir : chains'[x] = IF x = d THEN {RunTime} ELSE {}
    BY <1>3, BooksTyped DEF TypeOK
  <2>3. (\A b \in Automations \ {a} : ~ Drives(b, d)) => Alone'
    <3>1. \A x \in Dir : relay'[x] => x = d
      BY <1>3
    <3>2. \A t \in chains'[d] : t + DriveTime <= timer'[a] + RunTime
      BY <1>1, <2>1, BooksTyped, RemainingType
    <3>3. QED
      BY <1>1, <3>1, <3>2 DEF Alone
  <2>4. ASSUME Together, d = "close"
        PROVE  Together'
    <3>1. pos + DriveTime <= Travel + timer'[a]
      BY <1>1, BooksTyped, RemainingType DEF TypeOK
    <3>2. pc'["test"] \notin {"opening", "finish"}
      BY <2>4, GotoEffect DEF Together, DriveSteps, Automations
    <3>3. \A b \in Automations \ {a} : Drives(b, "close") => pos = 0
      BY <1>3, <2>4 DEF Together, Dir
    <3>4. relay'["close"] /\ chains'["open"] = {}
      BY <1>3, <2>1, <2>4 DEF Dir
    <3>5. QED
      BY <1>1, <1>3, <2>4, <3>1, <3>2, <3>3, <3>4 DEF Together, Dir
  <2>5. QED
    BY <2>3, <2>4
<1>4. QED
  BY <1>2, <1>3, PressActs

(* The relay-off of a run at the end of its delay.                         *)
LEMMA OffOrdered ==
  ASSUME HaTypeOK, Books, ButtonsOnly, Timely,
         NEW a \in Automations, NEW d \in Dir, NEW step, NEW delay,
         \A x \in Dir : step \notin DriveSteps(a, x), Drives(a, d), timer[a] = 0,
         Listening, SwitchOff(d), Goto(a, step, delay)
  PROVE  /\ Alone => Books' /\ Alone'
         /\ Together /\ d = "close" /\ step \notin {"opening", "finish"}
            => Books' /\ Together'
<1>1. /\ \A x \in Dir : ~ Drives(a, x)'
      /\ \A b \in Automations \ {a} : \A x \in Dir :
            (Drives(b, x)' <=> Drives(b, x)) /\ timer'[b] = timer[b]
  BY GotoEffect DEF Drives
<1>2. /\ \A x \in Dir : relay'[x] = (relay[x] /\ x # d)
      /\ chains' = chains /\ pos' = pos
  BY BooksTyped DEF SwitchOff, TurnOff, TypeOK
<1>3. ASSUME Alone
      PROVE  Books' /\ Alone'
  <2>1. ASSUME relay[d]
        PROVE  AtEnd(d)
    <3>1. PICK t \in 0 .. RunTime : chains[d] = {t}
      BY <2>1, OnlyChain, BooksTyped DEF MotorGuarded
    <3>2. t + DriveTime <= timer[a] + RunTime
      BY <1>3, <2>1, <3>1 DEF Alone
    <3>3. AtEnd(d) \/ Remaining(d) + RunTime <= Travel + t
      BY <2>1, <3>1 DEF Books, Underway
    <3>4. QED
      BY <3>2, <3>3, BooksTyped, RemainingType DEF Timely, AtEnd
  <2>2. Books'
    BY <2>1, SwitchOffBooks
  <2>3. Alone'
    BY <1>1, <1>2, <1>3 DEF Alone
  <2>4. QED
    BY <2>2, <2>3
<1>4. ASSUME Together, d = "close", step \notin {"opening", "finish"}
      PROVE  Books' /\ Together'
  <2>1. pos = 0
    BY <1>4, BooksTyped, RemainingType DEF Together, Timely, TypeOK
  <2>2. Books'
    BY <1>4, <2>1, SwitchOffBooks, BooksTyped, RemainingType
  <2>3. pc'["test"] \notin {"opening", "finish"}
    BY <1>4, GotoEffect DEF Together, Automations
  <2>4. QED
    BY <1>2, <1>4, <2>1, <2>2, <2>3 DEF Together
<1>5. QED
  BY <1>3, <1>4

LEMMA ChainEndOrdered ==
  ASSUME Books, ButtonsOnly, Timely, NEW d \in Dir, ChainEnd(d), UNCHANGED <<pc, timer>>
  PROVE  Alone' /\ (Together => Together')
<1>1. Alone'
  BY ChainEndBooks DEF Alone
<1>2. ASSUME Together
      PROVE  Together'
  <2>1. d = "close"
    BY <1>2 DEF ChainEnd, Together, Dir
  <2>2. pos' = 0
    BY <2>1, ChainEndAtEnd, BooksTyped, RemainingType DEF ChainEnd
  <2>3. chains'["open"] = {}
    BY ChainEndBooks DEF Dir
  <2>4. QED
    BY <1>2, <2>2, <2>3 DEF Together
<1>3. QED
  BY <1>1, <1>2

LEMMA TickOrdered ==
  ASSUME HaTypeOK, Books, Tick
  PROVE  (Alone => Alone') /\ (Together => Together')
<1>1. /\ relay' = relay /\ pc' = pc
      /\ \A d \in Dir : chains'[d] = {t - 1 : t \in chains[d]}
  BY DEF Tick, ValveTick
<1>2. \A a \in Automations : \A d \in Dir : Drives(a, d)' <=> Drives(a, d)
  BY <1>1 DEF Drives
<1>3. \A a \in Automations : \A d \in Dir :
         Drives(a, d) => timer[a] \in Nat /\ timer'[a] = timer[a] - 1
  <2> SUFFICES ASSUME NEW a \in Automations, NEW d \in Dir, Drives(a, d)
               PROVE  timer[a] \in Nat /\ timer'[a] = timer[a] - 1
    OBVIOUS
  <2>1. pc[a] \in {"drive", "again", "opening"}
    BY DEF Drives, DriveSteps
  <2>2. timer[a] # 0
    BY <2>1 DEF Tick, Due
  <2>3. timer[a] \in Nat
    BY DelaysFit DEF HaTypeOK
  <2>4. QED
    BY <2>2, <2>3 DEF Tick
<1>4. ASSUME Alone
      PROVE  Alone'
  <2> SUFFICES ASSUME NEW a \in Automations, NEW d \in Dir, relay'[d], Drives(a, d)',
                      NEW u \in chains'[d]
               PROVE  u + DriveTime <= timer'[a] + RunTime
    BY DEF Alone
  <2>1. PICK t \in chains[d] : u = t - 1
    BY <1>1
  <2>2. t \in Nat /\ t + DriveTime <= timer[a] + RunTime
    BY <1>1, <1>2, <1>4, BooksTyped DEF Alone, TypeOK
  <2>3. timer[a] \in Nat /\ timer'[a] = timer[a] - 1
    BY <1>2, <1>3
  <2>4. QED
    BY <2>1, <2>2, <2>3, BooksTyped, RemainingType
<1>5. ASSUME Together
      PROVE  Together'
  <2>1. chains'["open"] = {}
    BY <1>1, <1>5 DEF Together, Dir
  <2>2. ASSUME NEW a \in Automations, Drives(a, "close")
        PROVE  pos' = 0 \/ (relay'["close"] /\ pos' + DriveTime <= Travel + timer'[a])
    <3>1. CASE relay["close"]
      <4>1. pos' = IF pos = 0 THEN 0 ELSE pos - 1
        BY <3>1, TickRemaining, BooksTyped, RemainingType DEF Tick, Remaining, Dir
      <4>2. QED
        BY <1>1, <1>3, <1>5, <2>2, <3>1, <4>1, BooksTyped, RemainingType DEF Together, Dir
    <3>2. CASE ~ relay["close"]
      <4>1. pos = 0
        BY <1>5, <2>2, <3>2 DEF Together
      <4>2. ~ relay["open"]
        BY <1>5, BooksTyped DEF Together, MotorGuarded, Dir
      <4>3. QED
        BY <3>2, <4>1, <4>2 DEF Tick, ValveTick, Moved
    <3>3. QED
      BY <3>1, <3>2
  <2>3. QED
    BY <1>1, <1>2, <1>5, <2>1, <2>2 DEF Together, Dir
<1>6. QED
  BY <1>4, <1>5

-----------------------------------------------------------------------------
(* Inputs only add up: what was kept apart until now was before.           *)

LEMMA SpendGrows ==
  ASSUME HaTypeOK, NEW kind \in InputKinds, Spend(kind)
  PROVE  /\ \A k \in InputKinds : spent[k] \in Nat /\ spent[k] <= spent'[k]
         /\ spent'[kind] = spent[kind] + 1
         /\ \A k \in InputKinds \ {kind} : spent'[k] = spent[k]
BY DEF HaTypeOK, Spend

LEMMA SpentGrows ==
  ASSUME HaTypeOK, [Next]_vars
  PROVE  \A k \in InputKinds : spent[k] \in Nat /\ spent[k] <= spent'[k]
<1>1. CASE \E kind \in InputKinds : Spend(kind)
  BY <1>1, SpendGrows
<1>2. CASE UNCHANGED spent
  BY <1>2 DEF HaTypeOK
<1>3. {"wet", "single", "double", "hold", "test", "away", "link", "node"} = InputKinds
  BY DEF InputKinds
<1>4. CASE LeakRun \/ TestRun \/ \E a \in {"off", "on", "force"} : MoveRun(a)
  BY <1>2, <1>4 DEF LeakRun, LeakStart, LeakRelayOff, LeakAwaited, LeakConfirm,
     TestRun, TestStart, TestRelayOff, TestConfirm, TestRecheck, TestFinish,
     MoveRun, MoveStart, MoveEnd
<1>5. CASE Clicks
  BY <1>1, <1>3, <1>5 DEF Clicks, SingleClick, DoubleClick, LongPress, TestTrigger
<1>6. CASE Flat
  BY <1>1, <1>2, <1>3, <1>6
     DEF Flat, BecomeWet, BecomeDry, AwayMode, LinkLost, LinkBack, Dashboard, NodeReboot
<1>7. CASE \E s \in Sensors : LeakTrigger(s)
  BY <1>2, <1>7 DEF LeakTrigger
<1>8. CASE NodeSync \/ NodePublish \/ Tick \/ \E d \in Dir : NodeChainEnd(d)
  BY <1>2, <1>8 DEF NodeSync, NodePublish, Tick, NodeChainEnd
<1>9. CASE UNCHANGED vars
  BY <1>2, <1>9 DEF vars, haVars
<1>10. QED
  BY <1>4, <1>5, <1>6, <1>7, <1>8, <1>9 DEF Next

(* Fewer inputs of every kind are no harder to keep apart.                 *)
LEMMA FewerApart ==
  ASSUME NEW few, NEW many,
         \A k \in InputKinds : few[k] \in Nat /\ many[k] \in Nat /\ few[k] <= many[k]
  PROVE  /\ OneEach(many) => OneEach(few)
         /\ OnlyClosings(many) => OnlyClosings(few)
         /\ Apart(many) => Apart(few)
<1>1. \A k \in InputKinds : /\ few[k] # 0 => many[k] # 0
                            /\ many[k] <= 1 => few[k] <= 1
  OBVIOUS
<1>2. \A kinds \in {{"wet", "single", "test"}, {"double", "hold", "test"}} :
         kinds \subseteq InputKinds
  BY DEF InputKinds
<1>3. OneEach(many) => OneEach(few)
  BY <1>1, <1>2 DEF OneEach
<1>4. OnlyClosings(many) => OnlyClosings(few)
  BY <1>1 DEF OnlyClosings, InputKinds
<1>5. QED
  BY <1>1, <1>3, <1>4 DEF Apart, InputKinds

LEMMA ApartBefore ==
  ASSUME HaTypeOK, [Next]_vars, Apart(spent')
  PROVE  Apart(spent)
<1>1. \A k \in InputKinds : spent[k] \in Nat /\ spent'[k] \in Nat /\ spent[k] <= spent'[k]
  BY SpentGrows, HaStepType DEF HaTypeOK
<1>2. QED
  BY <1>1, FewerApart

-----------------------------------------------------------------------------
(* What nobody asked for still does not run.                               *)

LEMMA RunsUnasked ==
  ASSUME HaTypeOK, Unasked,
         LeakRun \/ TestRun \/ \E a \in {"off", "on", "force"} : MoveRun(a)
  PROVE  Unasked'
<1>1. CASE LeakRun
  <2>1. pc["leak"] # "idle" \/ queued # 0
    <3>1. LeakStart => queued # 0
      BY DEF LeakStart, HaTypeOK
    <3>2. LeakRelayOff \/ LeakAwaited \/ LeakConfirm => pc["leak"] # "idle"
      BY DEF LeakRelayOff, LeakAwaited, LeakConfirm
    <3>3. QED
      BY <1>1, <3>1, <3>2 DEF LeakRun
  <2>2. spent["wet"] # 0
    BY <2>1 DEF Unasked
  <2>3. /\ UNCHANGED <<spent, online>>
        /\ \A b \in Automations \ {"leak"} : pc'[b] = pc[b]
    BY <1>1 DEF LeakRun, LeakStart, LeakRelayOff, LeakAwaited, LeakConfirm, Goto, HaTypeOK
  <2>4. QED
    BY <2>2, <2>3 DEF Unasked, Automations
<1>2. CASE TestRun
  <2>1. spent["test"] # 0
    BY <1>2 DEF TestRun, TestStart, TestRelayOff, TestConfirm, TestRecheck, TestFinish, Unasked
  <2>2. /\ UNCHANGED <<spent, online, wet, queued>>
        /\ \A b \in Automations \ {"test"} : pc'[b] = pc[b]
    BY <1>2 DEF TestRun, TestStart, TestRelayOff, TestConfirm, TestRecheck,
                TestFinish, Goto, HaTypeOK
  <2>3. QED
    BY <2>1, <2>2 DEF Unasked, Automations
<1>3. ASSUME NEW a \in {"off", "on", "force"}, MoveRun(a)
      PROVE  Unasked'
  <2>1. pc[a] # "idle"
    BY <1>3 DEF MoveRun, MoveStart, MoveEnd
  <2>2. /\ UNCHANGED <<spent, online, wet, queued>>
        /\ \A b \in Automations \ {a} : pc'[b] = pc[b]
    BY <1>3 DEF MoveRun, MoveStart, MoveEnd, Goto, HaTypeOK
  <2>3. QED
    BY <1>3, <2>1, <2>2 DEF Unasked, Automations
<1>4. QED
  BY <1>1, <1>2, <1>3

LEMMA InputsUnasked ==
  ASSUME HaTypeOK, Unasked, Apart(spent'), Clicks \/ Flat
  PROVE  Unasked'
<1>1. \A k \in InputKinds : spent[k] \in Nat
  BY DEF HaTypeOK
<1> USE <1>1 DEF InputKinds
<1>2. CASE SingleClick
  <2>1. spent'["single"] # 0 /\ \A k \in InputKinds \ {"single"} : spent'[k] = spent[k]
    BY <1>2, SpendGrows DEF SingleClick
  <2>2. \A b \in Automations \ {"off"} : pc'[b] = pc[b]
    BY <1>2 DEF SingleClick, Decide, Goto, HaTypeOK
  <2>3. QED
    BY <1>2, <2>1, <2>2 DEF SingleClick, Unasked, Automations
<1>3. CASE DoubleClick
  <2>1. spent'["double"] # 0 /\ \A k \in InputKinds \ {"double"} : spent'[k] = spent[k]
    BY <1>3, SpendGrows DEF DoubleClick
  <2>2. \A b \in Automations \ {"on"} : pc'[b] = pc[b]
    BY <1>3 DEF DoubleClick, Decide, Goto, HaTypeOK
  <2>3. QED
    BY <1>3, <2>1, <2>2 DEF DoubleClick, Unasked, Automations
<1>4. CASE LongPress
  <2>1. spent'["hold"] # 0 /\ \A k \in InputKinds \ {"hold"} : spent'[k] = spent[k]
    BY <1>4, SpendGrows DEF LongPress
  <2>2. \A b \in Automations \ {"force"} : pc'[b] = pc[b]
    BY <1>4 DEF LongPress, Decide, Goto, HaTypeOK
  <2>3. QED
    BY <1>4, <2>1, <2>2 DEF LongPress, Unasked, Automations
<1>5. CASE TestTrigger
  <2>1. spent'["test"] # 0 /\ \A k \in InputKinds \ {"test"} : spent'[k] = spent[k]
    BY <1>5, SpendGrows DEF TestTrigger
  <2>2. \A b \in Automations \ {"test"} : pc'[b] = pc[b]
    BY <1>5 DEF TestTrigger, Goto, HaTypeOK
  <2>3. QED
    BY <1>5, <2>1, <2>2 DEF TestTrigger, Unasked, Automations
<1>6. ASSUME NEW s \in Sensors, BecomeWet(s)
      PROVE  Unasked'
  <2>1. spent'["wet"] # 0 /\ \A k \in InputKinds \ {"wet"} : spent'[k] = spent[k]
    BY <1>6, SpendGrows DEF BecomeWet
  <2>2. QED
    BY <1>6, <2>1 DEF BecomeWet, Unasked
<1>7. ASSUME NEW s \in Sensors, BecomeDry(s)
      PROVE  Unasked'
  BY <1>7 DEF BecomeDry, Unasked
<1>8. CASE AwayMode \/ NodeReboot \/ \E d \in Dir : Dashboard(d)
  <2>1. \E k \in {"away", "node"} : Spend(k)
    BY <1>8 DEF AwayMode, NodeReboot, Dashboard
  <2>2. PICK k \in {"away", "node"} : Spend(k)
    BY <2>1
  <2>3. spent'[k] = spent[k] + 1
    BY <2>2, SpendGrows
  <2>4. spent'[k] # 0
    BY <2>3
  <2>5. QED
    BY <2>4 DEF Apart
<1>9. CASE LinkLost
  <2>1. spent'["link"] # 0 /\ \A k \in InputKinds \ {"link"} : spent'[k] = spent[k]
    BY <1>9, SpendGrows DEF LinkLost
  <2>2. QED
    BY <1>9, <2>1 DEF LinkLost, Unasked
<1>10. CASE LinkBack
  BY <1>10 DEF LinkBack, Unasked
<1>11. QED
  BY <1>2, <1>3, <1>4, <1>5, <1>6, <1>7, <1>8, <1>9, <1>10 DEF Clicks, Flat

LEMMA StepUnasked ==
  ASSUME HaTypeOK, Unasked, Apart(spent'), [Next]_vars
  PROVE  Unasked'
<1>1. CASE LeakRun \/ TestRun \/ \E a \in {"off", "on", "force"} : MoveRun(a)
  BY <1>1, RunsUnasked
<1>2. CASE Clicks \/ Flat
  BY <1>2, InputsUnasked
<1>3. ASSUME NEW s \in Sensors, LeakTrigger(s)
      PROVE  Unasked'
  <2>1. wet # {}
    BY <1>3 DEF LeakTrigger, HaTypeOK
  <2>2. spent["wet"] # 0
    BY <2>1 DEF Unasked
  <2>3. UNCHANGED <<pc, online, spent>>
    BY <1>3 DEF LeakTrigger
  <2>4. QED
    BY <2>2, <2>3 DEF Unasked
<1>4. CASE NodeSync \/ NodePublish \/ Tick \/ \E d \in Dir : NodeChainEnd(d)
  BY <1>4 DEF NodeSync, NodePublish, Tick, NodeChainEnd, Unasked
<1>5. CASE UNCHANGED vars
  BY <1>5 DEF vars, haVars, Unasked
<1>6. QED
  BY <1>1, <1>2, <1>3, <1>4, <1>5 DEF Next

-----------------------------------------------------------------------------
(* The steps.  In a handled mix either each direction has one automation   *)
(* that drives it, whose presses and relay-offs may be lost (OneWay), or   *)
(* several close and nothing is lost (ManyClose).                          *)

OneWay == Alone /\ (OneEach(spent) \/ (OnlyClosings(spent) /\ Opened))

ManyClose == Together /\ OnlyClosings(spent)

(* The input that lets an automation run.                                  *)
KindOf(a) ==
  CASE a = "leak"  -> "wet"
    [] a = "off"   -> "single"
    [] a = "on"    -> "double"
    [] a = "force" -> "hold"
    [] a = "test"  -> "test"

LEMMA HandledFacts ==
  ASSUME HaTypeOK, HandledInv, Apart(spent)
  PROVE  /\ Books /\ Unasked /\ Ordered /\ TrueReports
         /\ OneWay \/ ManyClose
         /\ ManyClose => online /\ pc["on"] = "idle" /\ pc["force"] = "idle"
         /\ \A k \in InputKinds : spent[k] \in Nat
<1>1. Books /\ Unasked /\ Ordered /\ TrueReports
  BY DEF HandledInv
<1>2. OneWay \/ ManyClose
  BY <1>1 DEF Ordered, Apart, OneWay, ManyClose
<1>3. ManyClose => online /\ pc["on"] = "idle" /\ pc["force"] = "idle"
  BY <1>1 DEF ManyClose, OnlyClosings, Unasked
<1>4. QED
  BY <1>1, <1>2, <1>3 DEF HaTypeOK

LEMMA WhoRunsWasAsked ==
  ASSUME Unasked, NEW a \in Automations, pc[a] # "idle"
  PROVE  spent[KindOf(a)] # 0
BY DEF Unasked, KindOf, Automations

(* One automation for each direction: whoever drives it, no other does.    *)
LEMMA NobodyElse ==
  ASSUME Unasked, OneWay, NEW a \in Automations, NEW d \in Dir,
         spent[KindOf(a)] # 0, \E step : step \in DriveSteps(a, d),
         a = "test" /\ d = "close" => pc["test"] \notin {"idle", "opening", "finish"},
         NEW b \in Automations \ {a}
  PROVE  ~ Drives(b, d)
<1> SUFFICES ASSUME Drives(b, d)
             PROVE  FALSE
  OBVIOUS
<1>1. spent[KindOf(b)] # 0
  BY WhoRunsWasAsked DEF Drives, DriveSteps
<1>2. KindOf(a) # KindOf(b)
  BY DEF KindOf, Automations
<1>3. \/ d = "close" /\ a \in {"leak", "off", "test"} /\ b \in {"leak", "off", "test"}
      \/ d = "open" /\ a \in {"on", "force", "test"} /\ b \in {"on", "force", "test"}
  BY DEF Drives, DriveSteps, Dir, Automations
<1>4. CASE OneEach(spent)
  <2>1. \E kinds \in {{"wet", "single", "test"}, {"double", "hold", "test"}} :
          KindOf(a) \in kinds /\ KindOf(b) \in kinds
    BY <1>3 DEF KindOf
  <2>2. QED
    BY <1>1, <1>2, <1>4, <2>1 DEF OneEach
<1>5. CASE OnlyClosings(spent) /\ Opened
  <2>1. spent["double"] = 0 /\ spent["hold"] = 0
    BY <1>5 DEF OnlyClosings
  <2>2. spent["wet"] = 0 \/ spent["single"] = 0
    BY <1>5 DEF OnlyClosings, Opened
  <2>3. pc["test"] \in {"idle", "opening", "finish"}
    BY <1>5 DEF Opened
  <2>4. CASE d = "close"
    <3>1. a # "test" /\ b # "test"
      BY <2>3, <2>4 DEF Drives, DriveSteps
    <3>2. QED
      BY <1>1, <1>3, <2>2, <2>4, <3>1 DEF KindOf
  <2>5. CASE d = "open"
    BY <1>1, <1>3, <2>1, <2>5 DEF KindOf
  <2>6. QED
    BY <2>4, <2>5 DEF Dir
<1>6. QED
  BY <1>4, <1>5 DEF OneWay

(* Ordered from its two modes.                                             *)
LEMMA OrderedKept ==
  ASSUME Ordered, Unasked,
         \A k \in InputKinds : spent[k] \in Nat /\ spent'[k] \in Nat /\ spent[k] <= spent'[k],
         spent'["test"] = spent["test"], pc'["test"] = pc["test"],
         OneWay => Alone', ManyClose => Together'
  PROVE  Ordered'
<1>1. /\ OneEach(spent') => OneEach(spent)
      /\ OnlyClosings(spent') => OnlyClosings(spent)
  BY FewerApart
<1>2. OneEach(spent') => Alone'
  BY <1>1 DEF Ordered, OneWay
<1>3. OnlyClosings(spent') => Together' \/ (Alone' /\ Opened')
  <2>1. Opened' <=> Opened
    BY DEF Opened
  <2>2. QED
    BY <1>1, <2>1 DEF Ordered, OneWay, ManyClose
<1>4. OneEach(spent)' = OneEach(spent') /\ OnlyClosings(spent)' = OnlyClosings(spent')
  BY DEF OneEach, OnlyClosings
<1>5. QED
  BY <1>2, <1>3, <1>4 DEF Ordered

LEMMA CallKeepsPos ==
  ASSUME NEW d \in Dir, Press(d) \/ SwitchOff(d)
  PROVE  pos' = pos
BY DEF Press, SwitchOff, TurnOn, TurnOff, valveVars

LEMMA ReportsKept ==
  ASSUME TrueReports, pos' = pos, said' \notin {"leak_closed", "test_stopped", "test_done"},
         pc'["test"] = "recheck" => pc["test"] = "recheck"
  PROVE  TrueReports'
BY DEF TrueReports

(* A sensor that shows "closed and at rest" shows a closed valve.          *)
LEMMA SeenIsTrue ==
  ASSUME Books, SeesActive(FALSE)
  PROVE  /\ SeesStatus(FALSE) => pos = 0
         /\ SeesStatus(TRUE) => pos = Travel
BY DEF Books, SeenPosition, SeesActive, SeesStatus

LEMMA WaitIsTrue ==
  ASSUME Books, NEW a \in Automations, WaitedFor(a)
  PROVE  /\ pc[a] = "confirm" => pos = 0
         /\ pc[a] = "finish" => pos = Travel
BY SeenIsTrue DEF WaitedFor

LEMMA QuietStep ==
  ASSUME Books, ButtonsOnly, UNCHANGED valveVars
  PROVE  Books' /\ UNCHANGED <<relay, chains, pos>>
BY QuietBooks

(* A run that presses, be it heard, refused or lost.                       *)
LEMMA PressHandled ==
  ASSUME HaTypeOK, HandledInv, Apart(spent), ButtonsOnly, Timely,
         NEW a \in Automations, NEW d \in Dir, NEW step \in DriveSteps(a, d),
         spent[KindOf(a)] # 0, \A x \in Dir : ~ Drives(a, x),
         a = "test" /\ d = "close" => pc["test"] = "announce",
         CallPress(d), Goto(a, step, DriveTime)
  PROVE  /\ Books' /\ pos' = pos
         /\ OneWay => Alone'
         /\ ManyClose /\ d = "close" => Together'
<1> USE HandledFacts
<1>1. CASE online
  <2>1. Listening /\ Press(d)
    BY <1>1 DEF CallPress, Call
  <2>2. OneWay => \A b \in Automations \ {a} : ~ Drives(b, d)
    BY NobodyElse
  <2>3. (OneWay => Alone') /\ (Together /\ d = "close" => Together')
    BY <2>1, <2>2, PressOrdered DEF OneWay
  <2>4. QED
    BY <2>1, <2>3, PressBooks, CallKeepsPos DEF ManyClose
<1>2. CASE ~ online
  <2>1. UNCHANGED valveVars
    BY <1>2 DEF CallPress, Call
  <2>2. Books' /\ UNCHANGED <<relay, chains, pos>>
    BY <2>1, QuietStep
  <2>3. \A b \in Automations, x \in Dir :
           Drives(b, x)' => \/ Drives(b, x) /\ timer'[b] = timer[b]
                            \/ timer'[b] = DriveTime
    BY GotoEffect DEF Drives
  <2>4. Alone => Alone'
    BY <2>2, <2>3, StayOrdered
  <2>5. QED
    BY <1>2, <2>2, <2>4 DEF OneWay
<1>3. QED
  BY <1>1, <1>2

(* A run that switches its relay off after the delay, or cannot reach it.  *)
LEMMA OffHandled ==
  ASSUME HaTypeOK, HandledInv, Apart(spent), ButtonsOnly, Timely,
         NEW a \in Automations, NEW d \in Dir, NEW step, NEW delay,
         Drives(a, d), timer[a] = 0, \A x \in Dir : step \notin DriveSteps(a, x),
         d = "close" => step \notin {"opening", "finish"},
         CallSwitchOff(d), Goto(a, step, delay)
  PROVE  /\ Books' /\ pos' = pos
         /\ OneWay => Alone'
         /\ ManyClose => Together'
<1> USE HandledFacts
<1>1. ManyClose => d = "close"
  BY DEF ManyClose, Together, Drives, DriveSteps, Dir, Automations
<1>2. CASE online
  <2>1. Listening /\ SwitchOff(d)
    BY <1>2 DEF CallSwitchOff, Call
  <2>2. /\ Alone => Books' /\ Alone'
        /\ Together /\ d = "close" => Books' /\ Together'
    BY <2>1, OffOrdered
  <2>3. QED
    BY <1>1, <2>1, <2>2, CallKeepsPos DEF OneWay, ManyClose
<1>3. CASE ~ online
  <2>1. Books' /\ UNCHANGED <<relay, chains, pos>>
    BY <1>3, QuietStep DEF CallSwitchOff, Call
  <2>2. \A b \in Automations, x \in Dir :
           Drives(b, x)' => Drives(b, x) /\ timer'[b] = timer[b]
    BY GotoEffect DEF Drives
  <2>3. Alone => Alone'
    BY <2>1, <2>2, StayOrdered
  <2>4. QED
    BY <1>3, <2>1, <2>3 DEF OneWay
<1>4. QED
  BY <1>2, <1>3

(* A step of a run, or an input, that leaves the node alone and drives     *)
(* nothing.                                                                *)
LEMMA StayHandled ==
  ASSUME HaTypeOK, HandledInv, Apart(spent), ButtonsOnly, UNCHANGED valveVars,
         \/ UNCHANGED <<pc, timer>>
         \/ \E a \in Automations, step \in Steps \ {"drive", "again", "opening", "finish"} :
               \E delay : Goto(a, step, delay)
  PROVE  Books' /\ pos' = pos /\ (OneWay => Alone') /\ (ManyClose => Together')
<1> USE HandledFacts
<1>1. Books' /\ UNCHANGED <<relay, chains, pos>>
  BY QuietStep
<1>2. /\ \A b \in Automations, x \in Dir :
            Drives(b, x)' => Drives(b, x) /\ timer'[b] = timer[b]
      /\ pc'["test"] \in {"opening", "finish"} => pc["test"] \in {"opening", "finish"}
  <2>1. CASE UNCHANGED <<pc, timer>>
    BY <2>1 DEF Drives
  <2>2. ASSUME NEW a \in Automations, NEW step \in Steps \ {"drive", "again", "opening", "finish"},
               NEW delay, Goto(a, step, delay)
        PROVE  /\ \A b \in Automations, x \in Dir :
                    Drives(b, x)' => Drives(b, x) /\ timer'[b] = timer[b]
               /\ pc'["test"] \in {"opening", "finish"} => pc["test"] \in {"opening", "finish"}
    <3>1. pc'[a] = step /\ \A b \in Automations \ {a} : pc'[b] = pc[b] /\ timer'[b] = timer[b]
      BY <2>2, GotoEffect
    <3>2. \A x \in Dir : step \notin DriveSteps(a, x)
      BY DEF DriveSteps
    <3>3. QED
      BY <2>2, <3>1, <3>2 DEF Drives, Automations
  <2>3. QED
    BY <2>1, <2>2
<1>3. (Alone => Alone') /\ (Together => Together')
  <2>1. Alone => Alone'
    BY <1>1, <1>2, StayOrdered
  <2>2. Together => Together'
    BY <1>1, <1>2, StayOrdered DEF Together, Dir
  <2>3. QED
    BY <2>1, <2>2
<1>4. QED
  BY <1>1, <1>3 DEF OneWay, ManyClose

LEMMA LeakHandled ==
  ASSUME HaTypeOK, HandledInv, Apart(spent), ButtonsOnly, Timely, LeakRun
  PROVE  Books' /\ Ordered' /\ TrueReports'
<1> USE HandledFacts
<1>0. "leak" \in Automations /\ "test" \in Automations /\ "close" \in Dir
  BY DEF Automations, Dir
<1>1. pc'["test"] = pc["test"] /\ spent' = spent /\ spent[KindOf("leak")] # 0
  <2>1. LeakStart => queued # 0
    BY DEF LeakStart, HaTypeOK
  <2>2. LeakRelayOff \/ LeakAwaited \/ LeakConfirm => pc["leak"] # "idle"
    BY DEF LeakRelayOff, LeakAwaited, LeakConfirm
  <2>3. spent' = spent /\ \E step, delay : Goto("leak", step, delay)
    BY DEF LeakRun, LeakStart, LeakRelayOff, LeakAwaited, LeakConfirm
  <2>4. pc'["test"] = pc["test"]
    BY <1>0, <2>3, GotoEffect
  <2>5. QED
    BY <2>1, <2>2, <2>3, <2>4 DEF LeakRun, Unasked, KindOf
<1>2. ASSUME OneWay => Alone', ManyClose => Together'
      PROVE  Ordered'
  BY <1>1, <1>2, OrderedKept
<1>3. ASSUME NEW step \in {"drive", "again"}, pc["leak"] \in {"idle", "await"},
             CallPress("close"), Goto("leak", step, DriveTime), said' = "nothing"
      PROVE  Books' /\ Ordered' /\ TrueReports'
  <2>1. step \in DriveSteps("leak", "close") /\ \A x \in Dir : ~ Drives("leak", x)
    BY <1>3 DEF DriveSteps, Drives, Dir
  <2>2. Books' /\ pos' = pos /\ (OneWay => Alone') /\ (ManyClose => Together')
    BY <1>0, <1>1, <1>3, <2>1, PressHandled
  <2>3. QED
    BY <1>1, <1>2, <1>3, <2>2, ReportsKept
<1>4. CASE LeakStart
  BY <1>3, <1>4 DEF LeakStart
<1>5. CASE LeakRelayOff
  <2> DEFINE step == IF pc["leak"] = "drive" THEN "await" ELSE "confirm"
  <2>1. CallSwitchOff("close") /\ Goto("leak", step, WaitTime) /\ said' = "nothing"
    BY <1>5 DEF LeakRelayOff
  <2>2. Drives("leak", "close") /\ timer["leak"] = 0
    BY <1>5 DEF LeakRelayOff, Drives, DriveSteps, Due, WaitedFor
  <2>3. step \notin {"opening", "finish"} /\ \A x \in Dir : step \notin DriveSteps("leak", x)
    BY DEF DriveSteps, Dir
  <2>4. Books' /\ pos' = pos /\ (OneWay => Alone') /\ (ManyClose => Together')
    <3> HIDE DEF step
    <3>1. QED
      BY <1>0, <2>1, <2>2, <2>3, OffHandled
  <2>5. QED
    BY <1>1, <1>2, <2>1, <2>4, ReportsKept
<1>6. ASSUME UNCHANGED valveVars, NEW step \in {"confirm", "idle"}, NEW delay,
             Goto("leak", step, delay), pc["leak"] \in {"await", "confirm"},
             said' = "leak_closed" => WaitedFor("leak") /\ pc["leak"] = "confirm",
             said' \notin {"test_stopped", "test_done"}
      PROVE  Books' /\ Ordered' /\ TrueReports'
  <2>1. Books' /\ pos' = pos /\ (OneWay => Alone') /\ (ManyClose => Together')
    BY <1>0, <1>6, StayHandled DEF Steps
  <2>2. TrueReports'
    BY <1>0, <1>1, <1>6, <2>1, WaitIsTrue DEF TrueReports
  <2>3. QED
    BY <1>2, <2>1, <2>2
<1>7. CASE LeakAwaited
  <2>1. CASE SeesActive(FALSE) /\ SeesStatus(TRUE)
    BY <1>3, <1>7, <2>1 DEF LeakAwaited
  <2>2. CASE ~ (SeesActive(FALSE) /\ SeesStatus(TRUE))
    BY <1>6, <1>7, <2>2 DEF LeakAwaited
  <2>3. QED
    BY <2>1, <2>2
<1>8. CASE LeakConfirm
  BY <1>6, <1>8 DEF LeakConfirm
<1>9. QED
  BY <1>4, <1>5, <1>7, <1>8 DEF LeakRun

LEMMA MoveHandled ==
  ASSUME HaTypeOK, HandledInv, Apart(spent), ButtonsOnly, Timely,
         NEW a \in {"off", "on", "force"}, MoveRun(a)
  PROVE  Books' /\ Ordered' /\ TrueReports'
<1> USE HandledFacts
<1>0. a \in Automations /\ Target(a) \in Dir
  BY DEF Automations, Dir, Target
<1>1. /\ pc[a] # "idle" /\ pc'["test"] = pc["test"] /\ spent' = spent
      /\ said' \in {"nothing", "water_off", "water_on"}
  <2>1. /\ pc[a] # "idle" /\ spent' = spent
        /\ said' \in {"nothing", "water_off", "water_on"}
        /\ \E step, delay : Goto(a, step, delay)
    BY DEF MoveRun, MoveStart, MoveEnd
  <2>2. pc'["test"] = pc["test"]
    BY <1>0, <2>1, GotoEffect DEF Automations
  <2>3. QED
    BY <2>1, <2>2
<1>2. ManyClose => Target(a) = "close"
  BY <1>1 DEF Target
<1>3. ASSUME pos' = pos, OneWay => Alone', ManyClose => Together'
      PROVE  Ordered' /\ TrueReports'
  BY <1>1, <1>3, OrderedKept, ReportsKept
<1>4. CASE MoveStart(a)
  <2>1. "drive" \in DriveSteps(a, Target(a)) /\ \A x \in Dir : ~ Drives(a, x)
    BY <1>4 DEF MoveStart, DriveSteps, Drives, Dir, Target
  <2>2. spent[KindOf(a)] # 0
    BY <1>0, <1>1, WhoRunsWasAsked
  <2>3. CallPress(Target(a)) /\ Goto(a, "drive", DriveTime)
    BY <1>4 DEF MoveStart
  <2>4. /\ Books' /\ pos' = pos /\ (OneWay => Alone')
        /\ ManyClose /\ Target(a) = "close" => Together'
    BY <1>0, <2>1, <2>2, <2>3, PressHandled
  <2>5. QED
    BY <1>2, <1>3, <2>4
<1>5. CASE MoveEnd(a)
  <2>1. Drives(a, Target(a)) /\ timer[a] = 0
    BY <1>5 DEF MoveEnd, Drives, DriveSteps, Due, WaitedFor, Target
  <2>2. \A x \in Dir : "idle" \notin DriveSteps(a, x)
    BY DEF DriveSteps, Dir
  <2>3. CallSwitchOff(Target(a)) /\ Goto(a, "idle", 0)
    BY <1>5 DEF MoveEnd
  <2>4. Books' /\ pos' = pos /\ (OneWay => Alone') /\ (ManyClose => Together')
    BY <1>0, <2>1, <2>2, <2>3, OffHandled
  <2>5. QED
    BY <1>3, <2>4
<1>6. QED
  BY <1>4, <1>5 DEF MoveRun

(* The test: closes with the others, opens alone.                          *)
LEMMA TestHandled ==
  ASSUME HaTypeOK, HandledInv, Apart(spent), ButtonsOnly, Timely, TestRun
  PROVE  Books' /\ Ordered' /\ TrueReports'
<1> USE HandledFacts
<1>0. "test" \in Automations /\ "close" \in Dir /\ "open" \in Dir
  BY DEF Automations, Dir
<1>1. pc["test"] # "idle" /\ spent' = spent /\ spent["test"] # 0
      /\ spent[KindOf("test")] # 0
  BY DEF TestRun, TestStart, TestRelayOff, TestConfirm, TestRecheck, TestFinish,
         Unasked, KindOf
<1>2. pc["on"] = "idle" /\ pc["force"] = "idle"
  <2>1. spent["double"] = 0 /\ spent["hold"] = 0
    BY <1>1 DEF Apart, OneEach, OnlyClosings
  <2>2. QED
    BY <2>1 DEF Unasked
<1>3. ASSUME OneWay => Alone',
             ManyClose => \/ Together'
                          \/ Alone' /\ pc'["test"] \in {"idle", "opening", "finish"},
             pc["test"] \in {"opening", "finish"} => pc'["test"] \in {"idle", "opening", "finish"}
      PROVE  Ordered'
  <2>1. OneEach(spent) => Alone'
    BY <1>3 DEF Ordered, OneWay
  <2>2. ASSUME OnlyClosings(spent)
        PROVE  Together' \/ (Alone' /\ Opened')
    <3>1. spent["test"] = 1
      BY <1>1, <2>2 DEF OnlyClosings, InputKinds
    <3>2. CASE Together
      BY <1>1, <1>3, <2>2, <3>1, <3>2 DEF ManyClose, Opened
    <3>3. CASE Alone /\ Opened
      BY <1>1, <1>3, <2>2, <3>1, <3>3 DEF OneWay, Opened
    <3>4. QED
      BY <2>2, <3>2, <3>3 DEF Ordered
  <2>3. OneEach(spent)' = OneEach(spent) /\ OnlyClosings(spent)' = OnlyClosings(spent)
    BY <1>1 DEF OneEach, OnlyClosings
  <2>4. QED
    BY <2>1, <2>2, <2>3 DEF Ordered
<1>4. ASSUME UNCHANGED valveVars, NEW step \in {"recheck", "idle"}, NEW delay,
             Goto("test", step, delay), pc["test"] \in {"confirm", "recheck", "finish"},
             pc["test"] = "finish" => step = "idle"
      PROVE  /\ Books' /\ Ordered' /\ pos' = pos
             /\ pc'["test"] = step
  <2>1. Books' /\ pos' = pos /\ (OneWay => Alone') /\ (ManyClose => Together')
    BY <1>0, <1>4, StayHandled DEF Steps
  <2>2. pc'["test"] = step
    BY <1>0, <1>4, GotoEffect
  <2>3. QED
    BY <1>3, <1>4, <2>1, <2>2
<1>5. CASE TestStart
  <2>1. /\ CallPress("close") /\ Goto("test", "drive", DriveTime)
        /\ pc["test"] = "announce" /\ said' = "nothing"
    BY <1>5 DEF TestStart
  <2>2. "drive" \in DriveSteps("test", "close") /\ \A x \in Dir : ~ Drives("test", x)
    BY <2>1 DEF DriveSteps, Drives, Dir
  <2>3. Books' /\ pos' = pos /\ (OneWay => Alone') /\ (ManyClose => Together')
    BY <1>0, <1>1, <2>1, <2>2, PressHandled
  <2>4. pc'["test"] = "drive"
    BY <1>0, <2>1, GotoEffect
  <2>5. QED
    BY <1>3, <2>1, <2>3, <2>4, ReportsKept
<1>6. CASE TestRelayOff
  <2>1. timer["test"] = 0 /\ said' = "nothing"
    BY <1>6 DEF TestRelayOff, Due, WaitedFor
  <2>2. CASE pc["test"] = "drive"
    <3>1. CallSwitchOff("close") /\ Goto("test", "confirm", WaitTime)
      BY <1>6, <2>2 DEF TestRelayOff
    <3>2. Drives("test", "close") /\ \A x \in Dir : "confirm" \notin DriveSteps("test", x)
      BY <2>2 DEF Drives, DriveSteps, Dir
    <3>3. Books' /\ pos' = pos /\ (OneWay => Alone') /\ (ManyClose => Together')
      BY <1>0, <2>1, <3>1, <3>2, OffHandled
    <3>4. pc'["test"] = "confirm"
      BY <1>0, <3>1, GotoEffect
    <3>5. QED
      BY <1>3, <2>1, <2>2, <3>3, <3>4, ReportsKept
  <2>3. CASE pc["test"] = "opening"
    <3>1. CallSwitchOff("open") /\ Goto("test", "finish", WaitTime)
      BY <1>6, <2>3 DEF TestRelayOff
    <3>2. Drives("test", "open") /\ \A x \in Dir : "finish" \notin DriveSteps("test", x)
      BY <2>3 DEF Drives, DriveSteps, Dir
    <3>3. Books' /\ pos' = pos /\ (OneWay => Alone') /\ (ManyClose => Together')
      BY <1>0, <2>1, <3>1, <3>2, OffHandled
    <3>4. pc'["test"] = "finish"
      BY <1>0, <3>1, GotoEffect
    <3>5. QED
      BY <1>3, <2>1, <3>3, <3>4, ReportsKept
  <2>4. QED
    BY <1>6, <2>2, <2>3 DEF TestRelayOff
<1>7. CASE TestConfirm
  <2>1. CASE WaitedFor("test")
    <3>1. pos = 0
      BY <1>0, <1>7, <2>1, WaitIsTrue DEF TestConfirm
    <3>2. Books' /\ Ordered' /\ pos' = pos /\ said' = "nothing"
      BY <1>4, <1>7, <2>1 DEF TestConfirm
    <3>3. QED
      BY <3>1, <3>2 DEF TrueReports
  <2>2. CASE ~ WaitedFor("test")
    BY <1>4, <1>7, <2>2, ReportsKept DEF TestConfirm
  <2>3. QED
    BY <2>1, <2>2
<1>8. CASE TestRecheck
  <2>1. pos = 0 /\ pc["test"] = "recheck"
    BY <1>8 DEF TestRecheck, TrueReports
  <2>2. CASE ~ LeakDetected /\ SeesStatus(FALSE) /\ SeesActive(FALSE) /\ ~ closeCalled
    <3>1. Listening /\ Press("open") /\ Goto("test", "opening", DriveTime) /\ said' = "nothing"
      BY <1>8, <2>2 DEF TestRecheck, CallPress, Call, SeesActive
    <3>2. "opening" \in DriveSteps("test", "open") /\ \A x \in Dir : ~ Drives("test", x)
      BY <2>1 DEF DriveSteps, Drives, Dir
    <3>3. Alone
      <4>1. ~ valve_active
        BY <2>2, <3>1 DEF SeesActive, Listening, Published, ButtonsOnly
      <4>2. QED
        BY <4>1, RestIsAlone
    <3>4. \A b \in Automations \ {"test"} : ~ Drives(b, "open")
      BY <1>2 DEF Drives, DriveSteps, Automations
    <3>5. Alone'
      BY <1>0, <3>1, <3>2, <3>3, <3>4, PressOrdered
    <3>6. Books' /\ pos' = pos
      BY <1>0, <3>1, PressBooks, CallKeepsPos
    <3>7. pc'["test"] = "opening"
      BY <1>0, <3>1, GotoEffect
    <3>8. QED
      BY <1>3, <3>1, <3>5, <3>6, <3>7, ReportsKept
  <2>3. CASE ~ (~ LeakDetected /\ SeesStatus(FALSE) /\ SeesActive(FALSE) /\ ~ closeCalled)
    <3>1. /\ UNCHANGED valveVars /\ Goto("test", "idle", 0) /\ said' = "test_stopped"
      BY <1>8, <2>3 DEF TestRecheck
    <3>2. Books' /\ Ordered' /\ pos' = pos /\ pc'["test"] = "idle"
      BY <1>4, <2>1, <3>1
    <3>3. QED
      BY <2>1, <3>1, <3>2 DEF TrueReports
  <2>4. QED
    BY <2>2, <2>3
<1>9. CASE TestFinish
  <2>1. /\ UNCHANGED valveVars /\ Goto("test", "idle", 0) /\ pc["test"] = "finish"
        /\ said' = IF WaitedFor("test") THEN "test_done" ELSE "test_no_report"
    BY <1>9 DEF TestFinish
  <2>2. Books' /\ Ordered' /\ pos' = pos /\ pc'["test"] = "idle"
    BY <1>4, <2>1
  <2>3. WaitedFor("test") => pos = Travel
    BY <1>0, <2>1, WaitIsTrue
  <2>4. QED
    BY <2>1, <2>2, <2>3 DEF TrueReports
<1>10. QED
  BY <1>5, <1>6, <1>7, <1>8, <1>9 DEF TestRun

(* An input changes no relay, starts no drive, and is counted.             *)
LEMMA InputsHandled ==
  ASSUME HaTypeOK, HandledInv, Apart(spent), Apart(spent'), ButtonsOnly, Timely,
         Clicks \/ Flat, HaTypeOK'
  PROVE  Books' /\ Ordered' /\ TrueReports'
<1> USE HandledFacts
<1>0. /\ \A k \in InputKinds : spent'[k] \in Nat
      /\ {"off", "on", "force", "test"} \subseteq Automations
      /\ {"single", "double", "hold", "test", "wet", "link"} \subseteq InputKinds
      /\ "announce" \in Steps
  BY DEF HaTypeOK, Automations, InputKinds, Steps
<1>1. ASSUME UNCHANGED <<valveVars, pc, timer>>,
             spent' = spent \/ \E kind \in InputKinds \ {"test"} : Spend(kind),
             said' \notin {"leak_closed", "test_stopped", "test_done"}
      PROVE  Books' /\ Ordered' /\ TrueReports'
  <2>1. Books' /\ pos' = pos /\ (OneWay => Alone') /\ (ManyClose => Together')
    BY <1>1, StayHandled
  <2>2. spent'["test"] = spent["test"] /\ \A k \in InputKinds : spent[k] <= spent'[k]
    BY <1>0, <1>1, SpendGrows
  <2>3. Ordered'
    BY <1>0, <1>1, <2>1, <2>2, OrderedKept
  <2>4. QED
    BY <1>1, <2>1, <2>3, ReportsKept
<1>2. CASE SingleClick \/ DoubleClick \/ LongPress
  <2>1. PICK a \in {"off", "on", "force"}, kind \in {"single", "double", "hold"} :
          /\ Spend(kind) /\ UNCHANGED valveVars
          /\ UNCHANGED <<pc, timer>> \/ Goto(a, "announce", AnnounceTime)
          /\ said' \in {"already_closed", "already_open", "refused", "nothing"}
    BY <1>2 DEF SingleClick, DoubleClick, LongPress, Decide
  <2>2. Books' /\ pos' = pos /\ (OneWay => Alone') /\ (ManyClose => Together')
    BY <1>0, <2>1, StayHandled
  <2>3. pc'["test"] = pc["test"]
    BY <1>0, <2>1, GotoEffect
  <2>4. spent'["test"] = spent["test"] /\ \A k \in InputKinds : spent[k] <= spent'[k]
    BY <1>0, <2>1, SpendGrows
  <2>5. Ordered'
    BY <1>0, <2>2, <2>3, <2>4, OrderedKept
  <2>6. QED
    BY <2>1, <2>2, <2>3, <2>5, ReportsKept
<1>3. CASE TestTrigger
  <2>1. /\ Spend("test") /\ UNCHANGED valveVars
        /\ Goto("test", "announce", AnnounceTime) /\ said' = "nothing"
    BY <1>3 DEF TestTrigger
  <2>2. Books' /\ pos' = pos /\ (OneWay => Alone') /\ (ManyClose => Together')
    BY <1>0, <2>1, StayHandled
  <2>3. spent'["test"] = spent["test"] + 1 /\ \A k \in InputKinds : spent[k] <= spent'[k]
    BY <1>0, <2>1, SpendGrows
  <2>4. OneEach(spent') => Alone'
    BY <1>0, <2>2, <2>3, FewerApart DEF Ordered, OneWay
  <2>5. ASSUME OnlyClosings(spent')
        PROVE  Together'
    <3>1. OnlyClosings(spent)
      BY <1>0, <2>3, <2>5, FewerApart
    <3>2. spent["test"] = 0
      BY <1>0, <2>3, <2>5 DEF OnlyClosings
    <3>3. QED
      BY <2>2, <3>1, <3>2 DEF Ordered, Opened, ManyClose
  <2>6. OneEach(spent)' = OneEach(spent') /\ OnlyClosings(spent)' = OnlyClosings(spent')
    BY DEF OneEach, OnlyClosings
  <2>7. Ordered'
    BY <2>4, <2>5, <2>6 DEF Ordered
  <2>8. pc'["test"] = "announce"
    BY <1>0, <2>1, GotoEffect
  <2>9. QED
    BY <2>1, <2>2, <2>7, <2>8, ReportsKept
<1>4. ASSUME NEW s \in Sensors, BecomeWet(s) \/ BecomeDry(s)
      PROVE  Books' /\ Ordered' /\ TrueReports'
  BY <1>0, <1>1, <1>4 DEF BecomeWet, BecomeDry
<1>5. CASE LinkLost \/ LinkBack
  BY <1>0, <1>1, <1>5 DEF LinkLost, LinkBack
<1>6. CASE AwayMode \/ NodeReboot \/ \E d \in Dir : Dashboard(d)
  <2>1. PICK k \in {"away", "node"} : Spend(k)
    BY <1>6 DEF AwayMode, NodeReboot, Dashboard
  <2>2. spent[k] \in Nat /\ spent'[k] = spent[k] + 1
    BY <2>1, SpendGrows DEF InputKinds
  <2>3. QED
    BY <2>2 DEF Apart
<1>7. QED
  BY <1>2, <1>3, <1>4, <1>5, <1>6 DEF Clicks, Flat

LEMMA NodeHandled ==
  ASSUME HaTypeOK, HandledInv, Apart(spent), ButtonsOnly, Timely,
         \/ NodeSync \/ NodePublish \/ Tick \/ UNCHANGED vars
         \/ \E d \in Dir : NodeChainEnd(d)
         \/ \E s \in Sensors : LeakTrigger(s)
  PROVE  Books' /\ Ordered' /\ TrueReports'
<1> USE HandledFacts
<1>1. pc' = pc /\ spent' = spent
  BY DEF NodeSync, NodePublish, Tick, NodeChainEnd, LeakTrigger, vars, haVars
<1>2. ASSUME Alone => Alone', Together => Together'
      PROVE  Ordered'
  BY <1>1, <1>2, OrderedKept DEF OneWay, ManyClose
<1>3. CASE NodeSync \/ NodePublish \/ (\E s \in Sensors : LeakTrigger(s)) \/ UNCHANGED vars
  <2>1. (Publish \/ Sync \/ UNCHANGED valveVars) /\ timer' = timer
    BY <1>3 DEF NodeSync, NodePublish, LeakTrigger, vars, haVars
  <2>2. Books' /\ UNCHANGED <<relay, chains, pos>>
    BY <2>1, QuietBooks
  <2>3. (Alone => Alone') /\ (Together => Together')
    BY <1>1, <2>1, <2>2, StayOrdered DEF Together, Drives
  <2>4. \A s, b : MoveMessage(s, b) \notin {"leak_closed", "test_stopped", "test_done"}
    BY DEF MoveMessage
  <2>5. said' = said \/ said' \notin {"leak_closed", "test_stopped", "test_done"}
    BY <1>3, <2>4 DEF NodeSync, NodePublish, LeakTrigger, vars, haVars
  <2>6. TrueReports'
    BY <1>1, <2>2, <2>5 DEF TrueReports
  <2>7. QED
    BY <1>2, <2>2, <2>3, <2>6
<1>4. ASSUME NEW d \in Dir, NodeChainEnd(d)
      PROVE  Books' /\ Ordered' /\ TrueReports'
  <2>1. ChainEnd(d) /\ UNCHANGED <<pc, timer>> /\ said' = "nothing" /\ pos' = pos
    BY <1>4 DEF NodeChainEnd, ChainEnd
  <2>2. Books' /\ Alone' /\ (Together => Together')
    BY <2>1, ChainEndBooks, ChainEndOrdered
  <2>3. QED
    BY <1>1, <1>2, <2>1, <2>2, ReportsKept
<1>5. CASE Tick
  <2>1. Books'
    BY <1>5, TickBooks DEF Tick
  <2>2. (Alone => Alone') /\ (Together => Together')
    BY <1>5, TickOrdered
  <2>3. pc["test"] # "recheck"
    BY <1>5 DEF Tick, Due, Automations
  <2>4. TrueReports'
    BY <1>1, <1>5, <2>3 DEF Tick, TrueReports
  <2>5. QED
    BY <1>2, <2>1, <2>2, <2>4
<1>6. QED
  BY <1>3, <1>4, <1>5

LEMMA StepHandled ==
  ASSUME HaTypeOK, Apart(spent) => HandledInv, ButtonsOnly, Timely, [Next]_vars
  PROVE  Apart(spent)' => HandledInv'
<1> SUFFICES ASSUME Apart(spent')
             PROVE  HandledInv'
  BY DEF Apart
<1>1. Apart(spent) /\ HandledInv
  BY ApartBefore
<1>2. Unasked'
  BY <1>1, StepUnasked DEF HandledInv
<1>3. Books' /\ Ordered' /\ TrueReports'
  BY <1>1, HaStepType, LeakHandled, TestHandled, MoveHandled, InputsHandled, NodeHandled DEF Next
<1>4. QED
  BY <1>2, <1>3 DEF HandledInv

LEMMA InitHandled ==
  ASSUME Init
  PROVE  HandledInv
<1>1. MovementInv /\ HaTypeOK
  BY InitSingle, InitHaType DEF Init
<1>2. (\A d \in Dir : chains[d] = {} /\ ~ relay[d]) /\ ~ valve_active
  BY DEF Init, ValveInit, NoneOn
<1>3. Books
  BY <1>1, <1>2 DEF Init, ValveInit, Books, Underway, EndReached, ReportedPosition, SeenPosition
<1>4. Alone
  BY <1>2, <1>3, RestIsAlone
<1>5. Together
  BY <1>2 DEF Init, Together, Drives, DriveSteps, Dir, Automations
<1>6. Unasked /\ TrueReports
  BY DEF Init, Unasked, TrueReports, Automations, InputKinds
<1>7. QED
  BY <1>3, <1>4, <1>5, <1>6 DEF HandledInv, Ordered

LEMMA InHandApart ==
  ASSUME HaTypeOK, MeetApart, InHand
  PROVE  Apart(spent)
<1>1. PICK mix \in Handled : Within(spent, mix)
  BY DEF InHand
<1>2. Apart(mix) /\ \A k \in InputKinds : mix[k] \in Nat /\ spent[k] \in Nat /\ spent[k] <= mix[k]
  BY <1>1, ProtectionAssumption DEF MeetApart, Within, HaTypeOK
<1>3. QED
  BY <1>2, FewerApart

(* What the theorems on the flat ask for: nobody switches a relay on but   *)
(* the buttons, the delays fit the valve, and the mixes counted as handled *)
(* keep apart what the automations do not sort out.                        *)
Suited == ButtonsOnly /\ Timely /\ MeetApart

LEMMA AlwaysHandled ==
  ASSUME Suited
  PROVE  Spec => [](InHand => Books /\ TrueReports)
<1>1. Init => HaTypeOK /\ (Apart(spent) => HandledInv)
  BY InitHaType, InitHandled
<1>2. HaTypeOK /\ (Apart(spent) => HandledInv) /\ [Next]_vars
      => (HaTypeOK /\ (Apart(spent) => HandledInv))'
  BY HaStepType, StepHandled DEF Suited
<1>3. HaTypeOK /\ (Apart(spent) => HandledInv) => (InHand => Books /\ TrueReports)
  BY InHandApart DEF Suited, HandledInv
<1>4. QED
  BY <1>1, <1>2, <1>3, PTL DEF Spec

(* Whatever order the runs of the automations take on the one node, for    *)
(* any number of leaks and clicks: what Home Assistant reads as "closed    *)
(* and at rest" is a closed valve.                                         *)
THEOREM ClosedIsClosed == Suited => (Spec => []ClosedMeansClosed)
<1> SUFFICES ASSUME Suited
             PROVE  Spec => []ClosedMeansClosed
  OBVIOUS
<1>1. (InHand => Books /\ TrueReports) => ClosedMeansClosed
  BY SeenIsTrue DEF ClosedMeansClosed
<1>2. QED
  BY <1>1, AlwaysHandled, PTL

(* "The water is closed" is announced after a leak over a closed valve     *)
(* only, in whatever the leak runs, the test and the clicks met.           *)
THEOREM AnnouncedIsClosed == Suited => (Spec => []LeakClosedIsTrue)
<1> SUFFICES ASSUME Suited
             PROVE  Spec => []LeakClosedIsTrue
  OBVIOUS
<1>1. (InHand => Books /\ TrueReports) => LeakClosedIsTrue
  BY DEF LeakClosedIsTrue, TrueReports
<1>2. QED
  BY <1>1, AlwaysHandled, PTL

(* The test reports success over an open valve and its stop over a closed  *)
(* one, whatever leaks and closing clicks come in between.                 *)
THEOREM TestTellsTheTruth == Suited => (Spec => []TestReportIsTrue)
<1> SUFFICES ASSUME Suited
             PROVE  Spec => []TestReportIsTrue
  OBVIOUS
<1>1. (InHand => Books /\ TrueReports) => TestReportIsTrue
  BY DEF TestReportIsTrue, TrueReports
<1>2. QED
  BY <1>1, AlwaysHandled, PTL

=============================================================================

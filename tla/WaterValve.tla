------------------------------ MODULE WaterValve ------------------------------
(***************************************************************************)
(* The water valve actuator of node B (src/esphome/esp32_node_b.yaml): two *)
(* interlocked relays drive one motorised valve, two template buttons      *)
(* start a movement, and every turn-on of a relay starts a 30 s chain that *)
(* switches the relay off again and writes down the position it assumes.   *)
(* There are no limit switches: the reported position is computed, the     *)
(* real one is the variable pos, which no code ever reads.                 *)
(*                                                                         *)
(* Time is counted in ticks of 5 s, the greatest common divisor of the     *)
(* delays in the source.  A chain holds its remaining time, and a tick may *)
(* not pass while a chain is due or a sensor is unpublished.               *)
(***************************************************************************)
EXTENDS Integers

CONSTANTS
  RunTime,    \* length of a chain: delay 30s, in ticks
  Travel,     \* ticks the motor needs from one end to the other
  Commands,   \* what may reach the node, a subset of CommandKinds
  OnePerPass  \* TRUE: the node handles at most one message per loop pass

CommandKinds == {"press", "switch_on", "switch_off", "sync", "restart", "power_loss"}

ASSUME TimesAssumption ==
  /\ RunTime \in Nat \ {0}
  /\ Travel \in Nat \ {0}

ASSUME CommandsAssumption ==
  /\ Commands \subseteq CommandKinds
  /\ OnePerPass \in BOOLEAN

VARIABLES
  relay,            \* relay1 ("close") and relay2 ("open"): switched on?
  chains,           \* remaining times of the pending on_turn_on chains
  valve_bool,       \* id_global_valve_bool: the assumed position, TRUE = open
  valve_active,     \* id_global_valve_active: a movement is assumed to run
  id_valve_status,  \* template binary sensor, the last published valve_bool
  id_valve_active,  \* template binary sensor, the last published valve_active
  stored,           \* what the flash holds of relay and valve_bool
  pos               \* the real position: 0 closed .. Travel open

valveVars == <<relay, chains, valve_bool, valve_active, id_valve_status,
               id_valve_active, stored, pos>>

Dir == {"close", "open"}

Image == [relay : [Dir -> BOOLEAN], valve : BOOLEAN]

NoneOn == [d \in Dir |-> FALSE]

TypeOK ==
  /\ relay \in [Dir -> BOOLEAN]
  /\ chains \in [Dir -> SUBSET (0 .. RunTime)]
  /\ valve_bool \in BOOLEAN
  /\ valve_active \in BOOLEAN
  /\ id_valve_status \in BOOLEAN
  /\ id_valve_active \in BOOLEAN
  /\ stored \in Image
  /\ pos \in 0 .. Travel

(* A node at rest whose record agrees with the valve.                      *)
ValveInit ==
  /\ relay = NoneOn
  /\ chains = [d \in Dir |-> {}]
  /\ valve_bool \in BOOLEAN
  /\ valve_active = FALSE
  /\ id_valve_status = valve_bool
  /\ id_valve_active = FALSE
  /\ stored = [relay |-> NoneOn, valve |-> valve_bool]
  /\ pos = IF valve_bool THEN Travel ELSE 0

-----------------------------------------------------------------------------
(* Relays.                                                                 *)

(* switch.turn_on: the interlock switches the other relay off first; the   *)
(* on_turn_on chain starts only when the published state changes.          *)
TurnOn(d) ==
  /\ relay' = [x \in Dir |-> x = d]
  /\ IF relay[d]
     THEN UNCHANGED <<chains, valve_active>>
     ELSE /\ chains' = [chains EXCEPT ![d] = @ \cup {RunTime}]
          /\ valve_active' = TRUE
  /\ UNCHANGED <<valve_bool, id_valve_status, id_valve_active, stored, pos>>

TurnOff(d) ==
  /\ relay' = [relay EXCEPT ![d] = FALSE]
  /\ UNCHANGED <<chains, valve_bool, valve_active, id_valve_status,
                 id_valve_active, stored, pos>>

(* Both template sensors show the globals they read.                       *)
Published == id_valve_status = valve_bool /\ id_valve_active = valve_active

Listening == OnePerPass => Published

(* Fault: a button without its guard.                                      *)
PressUnguarded(d) == TurnOn(d)

(* Buttons "Open Valve" and "Close Valve": the guard reads the published   *)
(* sensor, not the global.                                                 *)
Press(d) ==
  IF id_valve_active THEN UNCHANGED valveVars ELSE TurnOn(d)

(* The relay switches are exposed to the API as well.                      *)
SwitchOn(d)  == TurnOn(d)
SwitchOff(d) == TurnOff(d)

(* Fault: a chain that forgets to switch its relay off.                    *)
ChainEndRelayOn(d) ==
  /\ 0 \in chains[d]
  /\ chains' = [chains EXCEPT ![d] = @ \ {0}]
  /\ valve_bool' = (d = "open")
  /\ valve_active' = FALSE
  /\ UNCHANGED <<relay, id_valve_status, id_valve_active, stored, pos>>

(* The tail of an on_turn_on chain, after its delay.                       *)
ChainEnd(d) ==
  /\ 0 \in chains[d]
  /\ chains' = [chains EXCEPT ![d] = @ \ {0}]
  /\ relay' = [relay EXCEPT ![d] = FALSE]
  /\ valve_bool' = (d = "open")
  /\ valve_active' = FALSE
  /\ UNCHANGED <<id_valve_status, id_valve_active, stored, pos>>

(* The loop pass in which both template sensors publish, status first.     *)
Publish ==
  /\ ~ Published
  /\ id_valve_status' = valve_bool
  /\ id_valve_active' = valve_active
  /\ UNCHANGED <<relay, chains, valve_bool, valve_active, stored, pos>>

-----------------------------------------------------------------------------
(* Flash and restarts.                                                     *)

Current == [relay |-> relay, valve |-> valve_bool]

(* The preferences reach the flash at intervals, not at every change.      *)
FlashSync ==
  /\ stored # Current
  /\ stored' = Current
  /\ UNCHANGED <<relay, chains, valve_bool, valve_active, id_valve_status,
                 id_valve_active, pos>>

(* A boot from an image: pending chains are gone, a relay restored ON      *)
(* counts as a turn-on, valve_active starts false.                         *)
Boot(image) ==
  /\ relay' = image.relay
  /\ chains' = [d \in Dir |-> IF image.relay[d] THEN {RunTime} ELSE {}]
  /\ valve_bool' = image.valve
  /\ valve_active' = (image.relay # NoneOn)
  /\ id_valve_status' = image.valve
  /\ id_valve_active' = (image.relay # NoneOn)
  /\ stored' = image
  /\ UNCHANGED pos

Restart   == Boot(Current)  \* button "Restart": the preferences are synced first
PowerLoss == Boot(stored)

-----------------------------------------------------------------------------
(* Time.                                                                   *)

(* The motor moves while a relay is on and stops at the end of its travel. *)
Moved ==
  IF relay["open"] /\ pos < Travel THEN pos + 1
  ELSE IF relay["close"] /\ pos > 0 THEN pos - 1
  ELSE pos

(* Nothing of the node is due at this instant.                             *)
Settled == Published /\ \A d \in Dir : 0 \notin chains[d]

ValveTick ==
  /\ Settled
  /\ chains' = [d \in Dir |-> {t - 1 : t \in chains[d]}]
  /\ pos' = Moved
  /\ UNCHANGED <<relay, valve_bool, valve_active, id_valve_status,
                 id_valve_active, stored>>

-----------------------------------------------------------------------------
(* The node on its own, with every command in Commands at any time.        *)

Command(d) ==
  /\ Listening
  /\ \/ "press" \in Commands /\ Press(d)
     \/ "switch_on" \in Commands /\ SwitchOn(d)
     \/ "switch_off" \in Commands /\ SwitchOff(d)

Sync == "sync" \in Commands /\ FlashSync

Reboot ==
  \/ "restart" \in Commands /\ Restart
  \/ "power_loss" \in Commands /\ PowerLoss

ValveNext ==
  \/ \E d \in Dir : Command(d)
  \/ \E d \in Dir : ChainEnd(d)
  \/ Publish
  \/ Sync
  \/ Reboot
  \/ ValveTick

ValveSpec == ValveInit /\ [][ValveNext]_valveVars

(* The scheduler of the node runs a due timer, its loop polls the template *)
(* sensors, and time passes.                                               *)
ValveFairness ==
  /\ \A d \in Dir : WF_valveVars(ChainEnd(d))
  /\ WF_valveVars(Publish)
  /\ WF_valveVars(ValveTick)

FairValveSpec == ValveSpec /\ ValveFairness

-----------------------------------------------------------------------------
(* Properties.                                                             *)

Other(d) == IF d = "open" THEN "close" ELSE "open"

(* Whatever reaches the node (buttons, relay switches, restarts, power     *)
(* losses with an old image in the flash): the relays are never on         *)
(* together, and a relay is never on without a chain of its own pending    *)
(* that will switch it off, so the motor is never driven without an end.   *)
(* About the interlock, the on_turn_on chains and the restore of           *)
(* esp32_node_b.yaml l.360-404.                                            *)
MotorGuarded ==
  /\ ~ (relay["close"] /\ relay["open"])
  /\ \A d \in Dir : relay[d] => chains[d] # {}

(* "Valve Active" tells the truth: it is on exactly while one movement's   *)
(* chain is pending, and there is never a second one whose end would clear *)
(* it too early.  Needs clients that use the buttons, one message a pass.  *)
OneMovement ==
  \A d \in Dir :
    chains[d] # {} => /\ valve_active
                      /\ \E t \in 0 .. RunTime : chains[d] = {t}
                      /\ chains[Other(d)] = {}

ActiveOnlyMoving ==
  valve_active => \E d \in Dir : chains[d] # {}

(* "Valve Active" is on exactly while one chain is pending, through        *)
(* switch-offs, restarts and power losses (esp32_node_b.yaml l.320-404).   *)
BusyIsTrue == OneMovement /\ ActiveOnlyMoving

(* When no movement is under way the computed position is the real one,    *)
(* even if the node was restarted by its button in the middle of one.      *)
ReportedPosition ==
  ~ valve_active => pos = IF valve_bool THEN Travel ELSE 0

(* The motor is never switched straight from one direction to the other.   *)
NoReversal ==
  [][\A d \in Dir : relay[d] => ~ relay'[Other(d)]]_valveVars

(* A motor that was started stops, in whatever order buttons and relay     *)
(* switches are used, unless the node is restarted again and again.        *)
MotorStops ==
  <>[][~ Reboot]_valveVars => \A d \in Dir : relay[d] ~> ~ relay[d]

(* Used through its buttons, the node is the actuator of ValveActuator:    *)
(* the movement under way and its remaining time are those of its chain.   *)
Mode ==
  IF chains["close"] # {} THEN "close"
  ELSE IF chains["open"] # {} THEN "open" ELSE "idle"

Left == IF Mode = "idle" THEN 0 ELSE CHOOSE t \in chains[Mode] : TRUE

Actuator == INSTANCE ValveActuator WITH
  mode <- Mode, left <- Left, reported <- valve_bool

ImplementsActuator == Actuator!Spec

=============================================================================

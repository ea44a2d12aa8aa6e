---------------------------- MODULE WaterProtection ----------------------------
(***************************************************************************)
(* The water protection of the flat: the Home Assistant automations of     *)
(* my_config/automation/system/water_leak.yaml and bathroom/valve_test.yaml*)
(* composed with the valve node of WaterValve.  Five automations may run   *)
(* at once, each a script that presses the node's buttons, waits, and      *)
(* switches a relay off; they share the node and know its state only       *)
(* through two binary sensors that become unavailable with the link.       *)
(*                                                                         *)
(* A run of an automation is a pair of a step (pc) and a countdown         *)
(* (timer).  Service calls that are awaited before the node is addressed   *)
(* (speech, Telegram) take up to AnnounceTime; all other steps of Home     *)
(* Assistant happen at the instant they become due.                        *)
(***************************************************************************)
EXTENDS WaterValve

CONSTANTS
  Sensors,       \* the water sensors
  DriveTime,     \* delay 00:00:25 before a relay is switched off
  WaitTime,      \* timeout 00:00:20 of the wait_templates
  HoldTime,      \* for: seconds: 5 of the leak trigger
  AnnounceTime,  \* bound on the awaited announcements before a press
  MaxRuns,       \* max: 10 of the queued leak automation
  Mixes,         \* how many inputs of each kind may meet in a behaviour
  Handled        \* the mixes the automations are meant to get right

InputKinds == {"wet", "single", "double", "hold", "test", "away", "link", "node"}

ASSUME ProtectionAssumption ==
  /\ DriveTime \in Nat \ {0}
  /\ WaitTime \in Nat
  /\ HoldTime \in Nat
  /\ AnnounceTime \in Nat
  /\ MaxRuns \in Nat \ {0}
  /\ Mixes \subseteq [InputKinds -> Nat]
  /\ Handled \subseteq Mixes

VARIABLES
  pc,           \* the step each automation is at, "idle" when it does not run
  timer,        \* its remaining delay or timeout
  queued,       \* leak runs that wait for the running one
  wet,          \* sensors that are on
  armed,        \* wet sensors whose trigger still waits
  hold,         \* how long it still waits
  closeCalled,  \* leak or off automation triggered since the test began
  online,       \* the node's entities are available
  said,         \* what the last step announced or sent, if it did
  spent         \* inputs there have been, of each kind

haVars == <<pc, timer, queued, wet, armed, hold, closeCalled, online, said, spent>>

vars == <<valveVars, haVars>>

(* leak  system_water_leak_detected        off    .._turn_water_off        *)
(* on    .._turn_water_on                  force  .._turn_water_on_force   *)
(* test  bathroom_water_valves_test                                        *)
Automations == {"leak", "off", "on", "force", "test"}

Steps == {"idle", "announce", "drive", "await", "again", "confirm", "recheck",
          "opening", "finish"}

Messages == {"nothing", "already_closed", "already_open", "refused",
             "water_off", "water_on", "leak_closed", "leak_no_report",
             "test_stopped", "test_done", "test_no_report",
             "closing", "closed", "opening", "opened"}

Horizon == DriveTime + WaitTime + AnnounceTime

ProtectionTypeOK ==
  /\ TypeOK
  /\ pc \in [Automations -> Steps]
  /\ timer \in [Automations -> 0 .. Horizon]
  /\ queued \in 0 .. MaxRuns
  /\ armed \subseteq wet /\ wet \subseteq Sensors
  /\ hold \in [Sensors -> 0 .. HoldTime]
  /\ closeCalled \in BOOLEAN
  /\ online \in BOOLEAN
  /\ said \in Messages
  /\ spent \in [InputKinds -> Nat]

Init ==
  /\ ValveInit
  /\ pc = [a \in Automations |-> "idle"]
  /\ timer = [a \in Automations |-> 0]
  /\ queued = 0
  /\ wet = {}
  /\ armed = {}
  /\ hold = [s \in Sensors |-> 0]
  /\ closeCalled = FALSE
  /\ online = TRUE
  /\ said = "nothing"
  /\ spent = [k \in InputKinds |-> 0]

-----------------------------------------------------------------------------
(* What Home Assistant sees of the node, and its calls to the node.  An    *)
(* unavailable sensor is neither on nor off, a call to an unavailable      *)
(* entity is dropped without an error.                                     *)

SeesActive(b) == online /\ id_valve_active = b
SeesStatus(b) == online /\ id_valve_status = b

LeakDetected == wet # {}  \* group.leak_detected

Call(command) ==
  IF online THEN Listening /\ command ELSE UNCHANGED valveVars

CallPress(d) == Call(Press(d))
CallSwitchOff(d) == Call(SwitchOff(d))

Goto(a, step, delay) ==
  /\ pc' = [pc EXCEPT ![a] = step]
  /\ timer' = [timer EXCEPT ![a] = delay]

Within(inputs, mix) == \A k \in InputKinds : inputs[k] <= mix[k]

(* What has met so far is one of the handled mixes.                        *)
InHand == \E mix \in Handled : Within(spent, mix)

(* One automation for each direction: whoever switches a relay off is the  *)
(* one who pressed, or nobody's press was heard.                           *)
OneEach(inputs) ==
  \A kinds \in {{"wet", "single", "test"}, {"double", "hold", "test"}} :
    \A k, l \in kinds : inputs[k] # 0 /\ inputs[l] # 0 => k = l

(* Several automations, which close only, on a node that is never off the  *)
(* line; one test, which opens last, with one of the others.               *)
OnlyClosings(inputs) ==
  /\ inputs["double"] = 0 /\ inputs["hold"] = 0 /\ inputs["link"] = 0
  /\ inputs["test"] <= 1
  /\ inputs["test"] = 0 \/ inputs["wet"] = 0 \/ inputs["single"] = 0

(* What the automations sort out by themselves, any number of times.       *)
Apart(inputs) ==
  /\ inputs["away"] = 0 /\ inputs["node"] = 0
  /\ OneEach(inputs) \/ OnlyClosings(inputs)

MeetApart == \A mix \in Handled : Apart(mix)

(* The valve travels from end to end within the delay of the automations,  *)
(* and the node's chain is no shorter than that delay.                     *)
Timely == Travel <= DriveTime /\ DriveTime <= RunTime

Spend(kind) ==
  /\ spent' = [spent EXCEPT ![kind] = @ + 1]
  /\ \E mix \in Mixes : Within(spent', mix)

-----------------------------------------------------------------------------
(* When a run that waits can go on.                                        *)

WaitedFor(a) ==
  CASE pc[a] = "await"   -> SeesActive(FALSE)
    [] pc[a] = "confirm" -> SeesActive(FALSE) /\ SeesStatus(FALSE)
    [] pc[a] = "finish"  -> SeesActive(FALSE) /\ SeesStatus(TRUE)
    [] OTHER             -> FALSE

(* Fault: the waits have no timeout.                                       *)
DueNoTimeout(a) ==
  CASE pc[a] = "idle"    -> a = "leak" /\ queued > 0
    [] pc[a] = "recheck" -> TRUE
    [] pc[a] \in {"await", "confirm", "finish"} -> WaitedFor(a)
    [] OTHER             -> timer[a] = 0

Due(a) ==
  CASE pc[a] = "idle"    -> a = "leak" /\ queued > 0
    [] pc[a] = "recheck" -> TRUE
    [] OTHER             -> timer[a] = 0 \/ WaitedFor(a)

-----------------------------------------------------------------------------
(* The leak automation (mode queued).                                      *)

Runs == queued + IF pc["leak"] = "idle" THEN 0 ELSE 1

LeakTrigger(s) ==
  /\ s \in armed /\ hold[s] = 0
  /\ armed' = armed \ {s}
  /\ IF Runs < MaxRuns
     THEN queued' = queued + 1 /\ closeCalled' = TRUE
     ELSE UNCHANGED <<queued, closeCalled>>
  /\ said' = "nothing"
  /\ UNCHANGED <<valveVars, pc, timer, wet, hold, online, spent>>

LeakStart ==
  /\ pc["leak"] = "idle" /\ queued > 0
  /\ CallPress("close")
  /\ Goto("leak", "drive", DriveTime)
  /\ queued' = queued - 1
  /\ said' = "nothing"
  /\ UNCHANGED <<wet, armed, hold, closeCalled, online, spent>>

(* Fault: the relay is switched off without the delay.                     *)
LeakRelayOffEarly ==
  /\ pc["leak"] \in {"drive", "again"}
  /\ CallSwitchOff("close")
  /\ Goto("leak", IF pc["leak"] = "drive" THEN "await" ELSE "confirm", WaitTime)
  /\ said' = "nothing"
  /\ UNCHANGED <<queued, wet, armed, hold, closeCalled, online, spent>>

(* After the delay of the first or the repeated press.                     *)
LeakRelayOff ==
  /\ pc["leak"] \in {"drive", "again"} /\ Due("leak")
  /\ CallSwitchOff("close")
  /\ Goto("leak", IF pc["leak"] = "drive" THEN "await" ELSE "confirm", WaitTime)
  /\ said' = "nothing"
  /\ UNCHANGED <<queued, wet, armed, hold, closeCalled, online, spent>>

(* Fault: no second press.                                                 *)
LeakAwaitedOnce ==
  /\ pc["leak"] = "await" /\ Due("leak")
  /\ UNCHANGED valveVars /\ Goto("leak", "confirm", WaitTime)
  /\ said' = "nothing"
  /\ UNCHANGED <<queued, wet, armed, hold, closeCalled, online, spent>>

(* A valve that is at rest and still open is closed once more.             *)
LeakAwaited ==
  /\ pc["leak"] = "await" /\ Due("leak")
  /\ IF SeesActive(FALSE) /\ SeesStatus(TRUE)
     THEN CallPress("close") /\ Goto("leak", "again", DriveTime)
     ELSE UNCHANGED valveVars /\ Goto("leak", "confirm", WaitTime)
  /\ said' = "nothing"
  /\ UNCHANGED <<queued, wet, armed, hold, closeCalled, online, spent>>

(* Fault: success is announced whether or not the wait was completed.      *)
LeakConfirmBlind ==
  /\ pc["leak"] = "confirm" /\ Due("leak")
  /\ said' = "leak_closed"
  /\ Goto("leak", "idle", 0)
  /\ UNCHANGED <<valveVars, queued, wet, armed, hold, closeCalled, online, spent>>

LeakConfirm ==
  /\ pc["leak"] = "confirm" /\ Due("leak")
  /\ said' = IF WaitedFor("leak") THEN "leak_closed" ELSE "leak_no_report"
  /\ Goto("leak", "idle", 0)
  /\ UNCHANGED <<valveVars, queued, wet, armed, hold, closeCalled, online, spent>>

-----------------------------------------------------------------------------
(* The button in the kitchen: single, double and long press.  Each of the  *)
(* three automations announces, presses, waits and switches its relay off. *)

Target(a) == IF a = "off" THEN "close" ELSE "open"

(* The run decides now, and addresses the node after the announcement.     *)
Decide(a, alreadyThere, message) ==
  /\ pc[a] = "idle"
  /\ IF alreadyThere
     THEN said' = message /\ UNCHANGED <<pc, timer>>
     ELSE said' = "nothing" /\ Goto(a, "announce", AnnounceTime)

SingleClick ==
  /\ Spend("single")
  /\ Decide("off", SeesStatus(FALSE), "already_closed")
  /\ closeCalled' = TRUE
  /\ UNCHANGED <<valveVars, queued, wet, armed, hold, online>>

DoubleClick ==
  /\ Spend("double")
  /\ IF LeakDetected
     THEN said' = "refused" /\ UNCHANGED <<pc, timer>>
     ELSE Decide("on", SeesStatus(TRUE), "already_open")
  /\ UNCHANGED <<valveVars, queued, wet, armed, hold, closeCalled, online>>

LongPress ==
  /\ Spend("hold")
  /\ Decide("force", FALSE, "nothing")
  /\ UNCHANGED <<valveVars, queued, wet, armed, hold, closeCalled, online>>

MoveStart(a) ==
  /\ pc[a] = "announce"
  /\ CallPress(Target(a))
  /\ Goto(a, "drive", DriveTime)
  /\ said' = "nothing"
  /\ UNCHANGED <<queued, wet, armed, hold, closeCalled, online, spent>>

(* Fault: the relay is switched off without the delay.                     *)
MoveEndEarly(a) ==
  /\ pc[a] = "drive"
  /\ CallSwitchOff(Target(a))
  /\ Goto(a, "idle", 0)
  /\ said' = IF a = "off" THEN "water_off" ELSE "water_on"
  /\ UNCHANGED <<queued, wet, armed, hold, closeCalled, online, spent>>

MoveEnd(a) ==
  /\ pc[a] = "drive" /\ Due(a)
  /\ CallSwitchOff(Target(a))
  /\ Goto(a, "idle", 0)
  /\ said' = IF a = "off" THEN "water_off" ELSE "water_on"
  /\ UNCHANGED <<queued, wet, armed, hold, closeCalled, online, spent>>

-----------------------------------------------------------------------------
(* The monthly test of the valves: a behaviour is a matter of minutes, so  *)
(* a spent of more than one test means nothing.                           *)

TestTrigger ==
  /\ Spend("test")
  /\ pc["test"] = "idle"
  /\ ~ LeakDetected /\ SeesStatus(TRUE) /\ SeesActive(FALSE)
  /\ closeCalled' = FALSE
  /\ Goto("test", "announce", AnnounceTime)
  /\ said' = "nothing"
  /\ UNCHANGED <<valveVars, queued, wet, armed, hold, online>>

TestStart ==
  /\ pc["test"] = "announce"
  /\ CallPress("close")
  /\ Goto("test", "drive", DriveTime)
  /\ said' = "nothing"
  /\ UNCHANGED <<queued, wet, armed, hold, closeCalled, online, spent>>

TestRelayOff ==
  /\ pc["test"] \in {"drive", "opening"} /\ Due("test")
  /\ IF pc["test"] = "drive"
     THEN CallSwitchOff("close") /\ Goto("test", "confirm", WaitTime)
     ELSE CallSwitchOff("open") /\ Goto("test", "finish", WaitTime)
  /\ said' = "nothing"
  /\ UNCHANGED <<queued, wet, armed, hold, closeCalled, online, spent>>

TestConfirm ==
  /\ pc["test"] = "confirm" /\ Due("test")
  /\ IF WaitedFor("test")
     THEN said' = "nothing" /\ Goto("test", "recheck", 0)
     ELSE said' = "test_no_report" /\ Goto("test", "idle", 0)
  /\ UNCHANGED <<valveVars, queued, wet, armed, hold, closeCalled, online, spent>>

(* The water is opened again only if nothing happened in the meantime.     *)
TestRecheck ==
  /\ pc["test"] = "recheck"
  /\ IF ~ LeakDetected /\ SeesStatus(FALSE) /\ SeesActive(FALSE) /\ ~ closeCalled
     THEN /\ CallPress("open")
          /\ Goto("test", "opening", DriveTime)
          /\ said' = "nothing"
     ELSE /\ UNCHANGED valveVars
          /\ Goto("test", "idle", 0)
          /\ said' = "test_stopped"
  /\ UNCHANGED <<queued, wet, armed, hold, closeCalled, online, spent>>

(* Fault: success is announced whether or not the wait was completed.      *)
TestFinishBlind ==
  /\ pc["test"] = "finish" /\ Due("test")
  /\ said' = "test_done"
  /\ Goto("test", "idle", 0)
  /\ UNCHANGED <<valveVars, queued, wet, armed, hold, closeCalled, online, spent>>

TestFinish ==
  /\ pc["test"] = "finish" /\ Due("test")
  /\ said' = IF WaitedFor("test") THEN "test_done" ELSE "test_no_report"
  /\ Goto("test", "idle", 0)
  /\ UNCHANGED <<valveVars, queued, wet, armed, hold, closeCalled, online, spent>>

-----------------------------------------------------------------------------
(* The flat: water on a sensor, away mode, the link, the node itself.      *)

BecomeWet(s) ==
  /\ Spend("wet")
  /\ s \notin wet
  /\ wet' = wet \cup {s}
  /\ armed' = armed \cup {s}
  /\ hold' = [hold EXCEPT ![s] = HoldTime]
  /\ said' = "nothing"
  /\ UNCHANGED <<valveVars, pc, timer, queued, closeCalled, online>>

BecomeDry(s) ==
  /\ s \in wet
  /\ wet' = wet \ {s}
  /\ armed' = armed \ {s}
  /\ hold' = [hold EXCEPT ![s] = 0]
  /\ said' = "nothing"
  /\ UNCHANGED <<valveVars, pc, timer, queued, closeCalled, online, spent>>

(* script.away_mode_on switches both relays off, whatever they are doing.  *)
AwayMode ==
  /\ Spend("away")
  /\ Call(/\ relay' = NoneOn
          /\ UNCHANGED <<chains, valve_bool, valve_active, id_valve_status,
                         id_valve_active, stored, pos>>)
  /\ said' = "nothing"
  /\ UNCHANGED <<pc, timer, queued, wet, armed, hold, closeCalled, online>>

LinkLost ==
  /\ Spend("link")
  /\ online
  /\ online' = FALSE
  /\ said' = "nothing"
  /\ UNCHANGED <<valveVars, pc, timer, queued, wet, armed, hold, closeCalled>>

LinkBack ==
  /\ ~ online
  /\ online' = TRUE
  /\ said' = "nothing"
  /\ UNCHANGED <<valveVars, pc, timer, queued, wet, armed, hold, closeCalled, spent>>

(* The dashboard's buttons and relay rows.                                 *)
Dashboard(d) ==
  /\ Spend("node")
  /\ online
  /\ Command(d)
  /\ said' = "nothing"
  /\ UNCHANGED <<pc, timer, queued, wet, armed, hold, closeCalled, online>>

NodeReboot ==
  /\ Spend("node")
  /\ Reboot
  /\ online' = FALSE
  /\ said' = "nothing"
  /\ UNCHANGED <<pc, timer, queued, wet, armed, hold, closeCalled>>

NodeSync ==
  /\ Sync
  /\ said' = "nothing"
  /\ UNCHANGED <<pc, timer, queued, wet, armed, hold, closeCalled, online, spent>>

NodeChainEnd(d) ==
  /\ ChainEnd(d)
  /\ said' = "nothing"
  /\ UNCHANGED <<pc, timer, queued, wet, armed, hold, closeCalled, online, spent>>

(* system_water_valves_action reports every change of "Valve Active" it    *)
(* sees; the status it reads has been published just before.               *)
MoveMessage(status, active) ==
  IF active THEN IF status THEN "closing" ELSE "opening"
            ELSE IF status THEN "opened" ELSE "closed"

NodePublish ==
  /\ Publish
  /\ said' = IF online /\ id_valve_active' # id_valve_active
             THEN MoveMessage(id_valve_status', id_valve_active')
             ELSE "nothing"
  /\ UNCHANGED <<pc, timer, queued, wet, armed, hold, closeCalled, online, spent>>

(* Time passes when nothing is due, neither at the node nor in Home        *)
(* Assistant.                                                              *)
Tick ==
  /\ ValveTick
  /\ \A a \in Automations : ~ Due(a)
  /\ \A s \in armed : hold[s] > 0
  /\ timer' = [a \in Automations |-> IF timer[a] > 0 THEN timer[a] - 1 ELSE 0]
  /\ hold' = [s \in Sensors |-> IF hold[s] > 0 THEN hold[s] - 1 ELSE 0]
  /\ said' = "nothing"
  /\ UNCHANGED <<pc, queued, wet, armed, closeCalled, online, spent>>

-----------------------------------------------------------------------------

LeakRun == LeakStart \/ LeakRelayOff \/ LeakAwaited \/ LeakConfirm

TestRun == TestStart \/ TestRelayOff \/ TestConfirm \/ TestRecheck \/ TestFinish

MoveRun(a) == MoveStart(a) \/ MoveEnd(a)

Clicks == SingleClick \/ DoubleClick \/ LongPress \/ TestTrigger

Flat ==
  \/ \E s \in Sensors : BecomeWet(s) \/ BecomeDry(s)
  \/ AwayMode \/ LinkLost \/ LinkBack
  \/ \E d \in Dir : Dashboard(d)
  \/ NodeReboot

Next ==
  \/ \E s \in Sensors : LeakTrigger(s)
  \/ LeakRun
  \/ TestRun
  \/ \E a \in {"off", "on", "force"} : MoveRun(a)
  \/ Clicks
  \/ Flat
  \/ NodeSync
  \/ \E d \in Dir : NodeChainEnd(d)
  \/ NodePublish
  \/ Tick

Spec == Init /\ [][Next]_vars

(* Home Assistant's event loop and the node's main loop keep running and   *)
(* time passes; nothing that happens in the flat is fair.                  *)
Fairness ==
  /\ \A s \in Sensors : WF_vars(LeakTrigger(s))
  /\ WF_vars(LeakRun)
  /\ WF_vars(TestRun)
  /\ \A a \in {"off", "on", "force"} : WF_vars(MoveRun(a))
  /\ \A d \in Dir : WF_vars(NodeChainEnd(d))
  /\ WF_vars(NodePublish)
  /\ WF_vars(Tick)

FairSpec == Spec /\ Fairness

-----------------------------------------------------------------------------
(* Properties.                                                             *)

(* What Home Assistant reads as "closed and at rest" is a closed valve, in *)
(* whatever order the automations overlap on the one node: no run's        *)
(* relay-off (water_leak.yaml l.31-33, valve_test.yaml l.41-44) cuts the   *)
(* movement of another run short, and no chain of an interrupted movement  *)
(* writes down a position the valve never reached.                         *)
ClosedMeansClosed ==
  InHand /\ SeesActive(FALSE) /\ SeesStatus(FALSE) => pos = 0

(* After a leak "the water is closed" is announced only over a closed      *)
(* valve (water_leak.yaml l.108-130).                                      *)
LeakClosedIsTrue == InHand /\ said = "leak_closed" => pos = 0

(* The test that reports success leaves the valve open, the test that      *)
(* stops before the opening leaves it closed (valve_test.yaml l.84-91,     *)
(* l.103-109).                                                             *)
TestReportIsTrue ==
  /\ InHand /\ said = "test_done" => pos = Travel
  /\ InHand /\ said = "test_stopped" => pos = 0

(* A leak that triggered and lasts ends with the valve closed, even if it  *)
(* arrives while the test or the user is opening it and the first press is *)
(* lost on the busy node (l.34-51: the second press after the wait), on a  *)
(* node that stays on the line.                                            *)
LeakClosesWater ==
  queued > 0 ~> pos = 0 \/ ~ LeakDetected \/ ~ InHand \/ spent["link"] > 0

(* Every run comes to an end, with or without the node on the line: each   *)
(* wait has a timeout (l.34-36, l.108-111, valve_test.yaml l.45-48).       *)
RunsEnd == \A a \in Automations : pc[a] # "idle" ~> pc[a] = "idle"

=============================================================================

# Verification of a home configuration

TLA+ models of the parts of this repository that decide something over time:
the motorised water valve and the automations that protect the flat from a
leak, the Sonoff integration that talks to devices over the local network and a
cloud, the monitor of the UPS that tells its clients when to shut down, the
integration that lets Yandex see and control the home, and the local connection
to a Yandex station.  The modules are checked with TLC on small instances; the
invariants that carry the most weight are proved with TLAPS for every value of
the constants.

## 1. The system and its parts

The repository is the configuration of one Home Assistant server with its
ESPHome nodes and custom integrations.  Home Assistant runs one event loop:
automations and coroutines interleave at every `delay`, `wait_template`,
service call and `await`.  Each ESPHome node runs a main loop with a scheduler
of its own and keeps a few values in flash; one of them, the UPS monitor, also
runs a task for USB and a task for its server.  They talk over connections that
may be lost at any moment.

| Part | State it keeps | Operations | What is hard | What makes it correct |
|---|---|---|---|---|
| Valve node (`src/esphome/esp32_node_b.yaml`) | two relays, pending 30 s chains, globals for position and activity, two published sensors, a flash image | buttons, relay switches, end of a chain, publication, flash write, restart, power loss | overlapping chains, a guard that reads a published value, restarts in a movement, no limit switches | the motor is never driven without an end or in both directions; the computed position is the real one |
| Water protection (`my_config/automation/system/water_leak.yaml`, `script/away_mode.yaml`) | which script is at which step, queued leak runs | leak, single, double and long click, away mode | five scripts share one valve and know it through two sensors; presses on a busy or absent node are lost without an error | after a leak the valve ends closed; what is announced is true; every run ends |
| Valve test (`my_config/automation/bathroom/valve_test.yaml`) | its step, timestamps of other automations | monthly close and open | a leak or a click during the test | it reports what happened |
| Sonoff entry and cloud connection (`custom_components/sonoff/__init__.py`, `core/ewelink/cloud.py`) | state of the entry, task of the connection, `online`, `auth` | setup, unload, login, connect, read, retry | cancellation at any await, reload during a login, a setup that waits for a signal | a setup ends, an unloaded entry is quiet, a broken connection comes back, an outage is shown |
| Sonoff registry (`core/ewelink/__init__.py`, `local.py`, `core/entity.py`) | per device `local`, `localfail`, `localping`, `host`, `online`; cached availability of entities | announcements, background requests, cloud messages, send | requests that overlap and fail late, flags cached by entities, fallback from one way to the other | entities show the truth, a device that goes or returns is noticed, commands arrive |
| Sonoff commands through the cloud (`cloud.py`, `base.py`) | `params_bulk`, `last_ts`, `last_ui_active`, `_sequence`, waiters | collect, space, send, await an answer | many coroutines wake together; late and lost answers | no wish is lost, messages keep their distance, an answer completes its own command |
| UPS transfers over USB (`ups_hid/transport_esp32.cpp`) | a context on the heap for each transfer, with a semaphore and the flag `abandoned` | submit, wait with a timeout, give up, callback | the caller may return while the transfer goes on; two tasks decide who frees | nobody touches a context that is freed, nothing is left over, every call returns |
| UPS monitor (`ups_hid/ups_hid.cpp`, `nut_server/nut_server.cpp`, `esp32_nut_hs.yaml`) | readings behind a mutex, the protocol in use, failure counters, the time since a disconnection, clients with their last activity | update, detection, power cycle of the port (after two minutes, or by a button), hot plug, commands and time-outs of clients | three tasks, two mutexes, a clock that wraps | a client hears what was read, and what was read lately; a UPS comes back; silent clients leave |
| Yandex Smart Home (`yandex_smart_home/notifier.py`, `cloud.py`, `entry_data.py`) | pending states, timer of the next report, POSTs under way; the socket and its timer; the listeners of a load | change of a state, hourly heartbeat, report; connect, answer, reconnect; load, unload, link a platform | reports that nobody awaits or repeats, reloads at any await, a reload that begins inside a request | no state is forgotten, the socket comes back, an unloaded entry is quiet |
| Yandex station (`yandex_station/core/yandex_glagol.py`, `core/yandex_station.py`, `__init__.py`) | `url`, `ws`, `device_token`, `device["host"]`, `local_state` | announcement, start, stop, attempts, messages, restart, removal | a chain of attempts that is never cancelled; addresses compared by substring | in local mode there is a socket; a stopped connection is quiet; the local mode comes back |

How they interact: the automations call the buttons and switches of the valve
node over its API connection, and read its two binary sensors
(`WaterProtection` extends `WaterValve`).  The Sonoff connection task changes
`cloud.online` and signals the registry, which signals the entities; commands
ask the registry for a way and go through the local network or the cloud.  The
UPS monitor reads the UPS by transfers of `transport_esp32.cpp`, each of which
blocks the task that asks; its data are read by the task of the NUT server
under the mutex the main loop holds while it reads.  An entry of Yandex Smart
Home starts a cloud manager and a notifier with every load (`SmartHome` extends
`SmartReport` and `SmartCloud`); a request of Yandex that comes in by the
manager's socket may link the platform, which reloads the entry.  A station's
announcements start its connection, its messages switch the media player to the
local mode, and the end of the connection switches it back.

The hazards of each part are in `PROJECT.json`, at their lines, with the
properties that would catch them.

## 2. Modules

In every module each action is one stretch of code between two points at which
another actor can run: two awaits of a coroutine, two waits of an automation,
two passes of a node's loop, two accesses to memory that tasks share.  Mutants
of the code stand beside the definitions they change, marked `Fault:`; no
specification uses them.

### ValveActuator: what the node promises

A timed actuator: it accepts a command when idle, drives for `RunTime`, and
reports the new position at the end.  `WaterValve` implements it
(`ImplementsActuator`) for those who use its buttons; the refinement mapping
reads the direction and the remaining time off the pending chain.

### WaterValve: the node

| Model | Code |
|---|---|
| `relay["close"]`, `relay["open"]` | `relay1`, `relay2` with their interlock |
| `chains[d]` | pending `delay: 30s` of `on_turn_on`; there can be several, because the automation is not restarted by a second turn-on |
| `valve_bool`, `valve_active` | the two globals |
| `id_valve_status`, `id_valve_active` | the template sensors, a copy made later by `Publish` |
| `stored` | flash image of the globals and the relays, written by `FlashSync` |
| `pos` | the real position, which no code reads |
| `Press` | template buttons, whose guard reads the published sensor |
| `TurnOn`, `TurnOff`, `ChainEnd` | the relays and the tail of a chain |
| `Boot`, `Restart`, `PowerLoss` | restore modes; a restart by the button writes the flash first, a power loss does not |

The semantics of ESPHome itself (a `turn_on` of a switch that is on changes
nothing, the interlock, template sensors that publish on change,
`RESTORE_DEFAULT_OFF`, the interval of flash writes, one API message a loop
pass) is taken from how the file uses it.  `OnePerPass` says whether several
messages may be handled before the sensors are published again.

### WaterProtection: the automations

`pc[a]` and `timer[a]` are the step and the remaining delay or timeout of each
of five automations; `queued` counts the waiting leak runs (`mode: queued`,
`max: 10`); the others are `single` and drop a trigger while they run.  `said`
is the last announcement, `online` the connection to the node.  Each action is
one stretch of a script between two waits.  Announcements that are awaited
before the node is addressed take any time up to `AnnounceTime`.  Away mode is
its relay part.  `spent` counts the inputs there have been, and `Mixes` says
which of them may meet in a behaviour.  The automations do not promise anything
for every mix (section 6): the properties about the position and the
announcements are about the mixes in `Handled` (`InHand`), the others about all
of them.  `Apart` says what a mix must not contain to be handled, and the proofs
of section 5 are about every mix that does not.  `LeakClosesWater` is about a
node that stays on the line: the second press needs sensors that can be read.
Left out: the light effects, `system_water_leak_resolved`, which only reports,
and an announcement of the leak that takes longer than the movement.  The
message of the test that follows its second look at the sensors
(`valve_test.yaml` l.57-61) is awaited in the code and takes no time here.

### SonoffCloud: the connection

`pc[t]` is the await at which each `run_forever` task is suspended; a
cancellation is delivered there.  The registry object survives a reload, so
several tasks may exist for one registry.  `setup` follows
`async_setup_entry`; `SetOnline` is `set_online` with the signal that
`dispatcher_wait` waits for.  `ReadEnded` leaves `online` as it is, as the code
does, so what a task has connected is read off its place (`Reading`).  Left
out: the length of a retry's sleep, the stop
of Home Assistant, a closed session, an entry without a password or in local
mode (it has no task).

### SonoffRegistry: reachability and the choice of the way

One main device and one child.  `due` and `recent` stand for the comparisons
of the clock with `localping` and `localrecv`.  `pings` and `polls` count the
requests in flight without and with a command.  `kind` distinguishes a device
that is polled for statistics, an SPM meter whose children are polled, and a
bridge.  `localtype` comes with a host that is announced and differs, and not
with one from the configuration; a child is local only when it is known.
`Signal` is `dispatcher_send` together with the entities that listen.
A lost packet is an outage of the local network that ends at once.  `Send`
chooses the way; `LanAnswered`, `LanFailed` and `CloudSent` are the rest of
`XRegistry.send`.  Left out: DIY devices that are created on their first
message, messages that cannot be decrypted (they change nothing), children
that share a parent with other children.

### RemoteCall: what a command through the cloud promises

Each call on its own: it is asked for, requested once, carried out once at
most, and told "online" only if it was carried out; what it was told stays.  A
call may also join another, or fail with its request still on its way, which is
all a caller knows after a timeout.  `SonoffSend` implements it
(`ImplementsRemoteCall`): the mapping reads the stage of a call off its step and
its result, and the requests off the updates on their way; queries, sequences,
futures and distances are hidden.

### SonoffSend: commands through the cloud

Each call is a coroutine with its step and its timer, from `send_bulk` or
`send_cloud` to the answer and the query after it.  `waiters` is
`ResponseWaiter._waiters`, `quiet` is what the cloud sees of the spacing, and
no code reads it.  `send_json` may suspend, so an answer may be there before
its future.  The local way of a bulk command is in `SonoffRegistry`.  Left out:
`send_bulk_configure`, which collects settings in the same dictionary.

### UsbTransfer: one transfer, two owners

| Model | Code |
|---|---|
| `pc[r]`, `reply[r]` | the caller in `hid_get_report`, `hid_set_report`, `hid_interrupt_read` or `get_string_descriptor`, and what it returns |
| `wire[r]` | the transfer and its callback in the USB client task: flying, completed, about to give the semaphore, over |
| `given`, `result`, `abandoned` | the fields of the shared context |
| `ctx`, `frees` | whether the context is alive and how often it was freed; no code keeps this |
| `crossed` | a history variable: the callback had read `abandoned` before the caller stored it |

Every access of either side to the context is a step of its own.  Left out:
descriptors, endpoints, the start and the end of the USB host library.

### UpsMonitor: what the clients hear

Three tasks: the main loop (`update`, read, detection, power cycle, the button,
dropping silent clients), the task of the NUT server (one command at a time) and
the USB client task (attach and detach).  `reading` is `data_mutex_`, held by
the main loop while the UPS is read; `Busy` is `clients_mutex_`.

| Model | Code |
|---|---|
| `plugged`, `powered`, `silent` | the UPS, its port, and whether it answers |
| `announced`, `detached` | events of the USB library that the client task has not handled |
| `connected`, `protocol`, `failures`, `failed`, `since` | `connected_`, `active_protocol_`, `consecutive_failures_`, `mark_failed()`, `usb_disconnected_since_` |
| `data` | the status the readings give, `"alarm"` after they are reset; only a read resets them |
| `PowerCycled`, `PowerCycleFailed` | `reset_usb_power`: the port goes off and on again, cannot be switched off, or stays off |
| `UpdateAway`, `ResetPressed` | the two who call it |
| `UpdateUndetected`, `UpdateRead`, `ReadDone`, `ReadFailed` | the rest of `update`; `partly` says that a report has come, which is enough for a read to succeed |
| `StatusHandled`, `StatusBuilt`, `StatusGone` | a client asks; `is_connected` is checked again, and then the mutex awaited, at the end of which the device may have gone |
| `slot`, `last` | a place for a client, and its last activity |
| `lastRead`, `age`, `lost` | what the properties compare with: the last read, its age, and whether the device has gone and no update has found it back |

`since`, `now` and `last` are readings of `millis()` modulo `Wrap`; one tick is
an update interval of 30 s.  `Crash` is a NUT command that uses the protocol
the main loop has just destroyed: what happens then is undefined, and the node
starts again or the command goes on (`CommandDone`).  Left out: authentication,
the tables of the protocols, sensors, the fast polling of timers, the LED.

### SmartReport, SmartCloud, SmartHome: an entry of Yandex Smart Home

`SmartReport` is the notifier of each load: one state of one device is
followed, `pend` and `report` are `_pending` and its timer, `posts` the POSTs
under way in the order they were sent, `known` the value Yandex has.  What the
state is (`kind`: capability, float property, event) decides when it is
reported.  `SmartCloud` is the manager of each load: `con` is where
`async_connect` is suspended, `ws` and `active` its socket and `_ws_active`.
`SmartHome` composes the two with the life of the entry: load and unload, the
start of Home Assistant that sets up the notifiers, linking.  `early` and
`caught` name the two ways in which a load leaves someone behind (section 6).
A link or an unlink may come while the reload of an earlier one is due.
Left out: an event whose old state is absent (`property_event.py` l.159-168),
the translation of devices, the video stream, the discovery request,
the length of the delays, the configuration dialogue.

### YandexGlagol: the local connection to a station

A loop is a chain of `_connect` tasks, each of which creates the next; `pc` is
the await at which its present task is suspended, `to` the url it was given,
`sock` its socket.  `ws` says whose socket `YandexGlagol.ws` is.  `Within` is
the substring test between a host and a url, so that another port of the same
host and a host that begins like another can be told from a real match.  A
station that moves announces it once (`news`).  `doubled` and `caught` name the
cases in which a second loop or a socket of a stopped connection lives on
(section 6).  Left out: what the messages say, commands and their futures, the
length of the pauses, the stop of Home Assistant, a handler of a message that
raises after it has set `assumed_state` (`yandex_station.py` l.564-577), after
which `async_set_state(None)` returns early.  One call of the restart service
at a time.

## 3. Runs

| Run | Question | Bounds |
|---|---|---|
| `valve_any` | Is the motor safe whatever reaches the node, and does it stop? | every command, several messages a pass, run time 3, travel 2 |
| `valve_buttons` | Is the node the abstract actuator, with the true position? | buttons, restart button, flash writes; run time 6, travel 5 (30 s and 25 s in ticks of 5 s) |
| `protect` | Does a leak close the water, is what is announced true, does every run end? | two sensors; any two kinds of input once each, lost link, restart, power loss and dashboard included; the handled pairs with two of each click and leak, one long press and one test; leak, test, or a click each way with a lost link |
| `claim_leak_closed` | Is "the water is closed" true? | a leak, a double and a single click: violated |
| `sonoff_cloud` | Does a setup end, does a connection return, is an outage shown, is an unloaded entry quiet? | three tasks, two outages, both modes |
| `sonoff_registry` | Do entities show the truth, are devices noticed, do commands arrive? | every kind of device, two requests of a sort in flight, one command |
| `sonoff_send` | Is a wish lost, are distances, answers and futures right, is each call the abstract remote call? | three bulk calls for two switches, or one and two `uiActive`; gap 1, distance of `uiActive` 3, timeout 1, sleep of `send_bulk` 1 |
| `ups_transfer` | Is a context ever used after it was freed, or freed twice; when is it left over? | three transfers |
| `claim_transfer_freed` | Does one of the two sides always free the context? | the same: violated |
| `ups_monitor` | What do clients hear; does a UPS come back; are silent clients dropped? | one place, two states of the UPS, one failure allowed, reset after 2 intervals, client timeout 1, clock modulo 4 |
| `smart_home` | Is anything reported or connected for an entry that is gone, is a state forgotten, does the socket come back? | an entry of the cloud loaded three times; entries called directly with a state of each kind, loaded twice; two values, two POSTs under way |
| `station_local` | Is there a socket in local mode, is a stopped connection quiet, does the local mode come back? | two loops, two addresses of which one contains the other |

Why the bounds are enough.  The valve runs use the real proportions of the
delays where the position matters (`valve_buttons`, the protection run), and
small ones where only the overlap of chains matters: three ticks let a chain be
started, cut, started again and end under another.  The mixes of the protection
run let a second leak queue behind the first and a leak meet every step of a
user's or the test's movement.  Three tasks are the fewest that let a task
survive a reload and outlive the next entry as well.  Two requests in flight
let one fail after the other was answered.  Three bulk calls are the fewest
that let a call wake among switches collected after those it waited for; one
bulk call and two `uiActive` compete for the gap, and the second `uiActive` has
to wait for the first.  Transfers share nothing but the task that runs their
callbacks, so three let one be given up while a second is answered and a third
has not begun.  In `ups_monitor` a threshold of one failure separates failing
from having failed too often, and a clock of four intervals wraps while a
client is silent and while a disconnection is counted.  Three loads of an entry
let a manager that was left connecting meet the load after the next; two values
and two POSTs let an older value arrive after a newer one.  Two loops are the
fewest that can share one `ws`, and two addresses of which one is found in the
other show both answers of the substring test.

Deadlock is checked except in `sonoff_cloud`, where an entry that is unloaded
and has used its tasks really stops, and in `ups_transfer` and
`claim_transfer_freed`, where nothing is left once all transfers are over.

## 4. Fairness

- `WaterValve`, `WaterProtection`: the scheduler of the node runs due timers,
  its loop publishes sensors, time passes, and Home Assistant resumes a script
  whose delay, wait or timeout is over.  Time cannot pass while something is
  due.  Clicks, leaks, restarts, the link and flash writes are not fair.
- `SonoffCloud`: the event loop resumes each task and each request has a
  timeout.  A connection to a cloud that has gone ends, because the socket has
  a heartbeat (`cloud.py` l.559).  Outages, recoveries, reloads and the end of a
  connection to a cloud that is there are not fair; `Reconnects` assumes a cloud
  that stays reachable, and `OutageIsShown` one that stays away.
- `SonoffRegistry`: the pass of `run_forever` is repeated, the clock reaches
  `localping`, requests end.  Announcements and the network are not fair.
- `SonoffSend`: coroutines that are ready are resumed and time passes.  The
  cloud need not answer.
- `UsbTransfer`: both tasks run and the semaphore is taken with a timeout.  A
  transfer need not complete.
- `UpsMonitor`: the three tasks are scheduled and time passes.  The server goes
  through its clients in turn.  The dropping of clients and the clock are
  strongly fair, because each is disabled again and again while another holds a
  mutex or is due.  A port that is power-cycled again and again comes back one
  time, which the USB library owes and nothing in the code.  The UPS and the
  clients owe nothing; `ComesBack` assumes that nobody presses the button for
  ever.
- `SmartHome`: Home Assistant starts and loads the entry, coroutines go on,
  timers fire, the heartbeat comes every hour and a request ends, well or not.
  The timer of a report is strongly fair, because it is disabled while too many
  POSTs are under way.  The cloud and the network owe nothing: `StaysConnected`
  and `FloatsHeal` are about a cloud that stays reachable and a network that
  works.
- `YandexGlagol`: the event loop resumes attempts, awaits have timeouts, the
  heartbeat notices a station that has gone, and one announcement of a new
  address is delivered.  Strongly fair are the token service, the connection
  and the message of the station: they may fail, but not every time.

## 5. Proofs

| Theorem | Module | Argument |
|---|---|---|
| `TypeCorrect`, `MotorIsGuarded` | `WaterProtection_proofs` | `MotorInv`: types, the guard, and the same of the flash image, because a boot restores relays from it |
| `OneMovementAtATime` | `WaterProtection_proofs` | `MovementInv` adds that the activity flag is on exactly while one chain is pending; needs buttons only and one message a pass |
| `PositionIsReported` | `WaterProtection_proofs` | `PositionInv` adds that the relay of a pending chain is on and that the remaining time covers the remaining travel |
| `MotorNeverReverses` | `WaterProtection_proofs` | from `MovementInv`: a press acts only at rest |
| `NodeIsActuator` | `WaterProtection_proofs` | each step maps to a step of `ValveActuator` or a stutter: a press begins a movement, a chain that ends ends it, a restart finds the movement of the image |
| `ProtectionTypeCorrect`, `ProtectedMotorIsGuarded`, `ProtectedOneMovement`, `ProtectedMotorNeverReverses`, `ProtectedNodeIsActuator` | `WaterProtection_proofs` | the same of the node under the automations: `NodeStep` says what a step of the flat may do to the node, and the node's invariants survive each of its kinds |
| `ClosedIsClosed`, `AnnouncedIsClosed`, `TestTellsTheTruth` | `WaterProtection_proofs` | `HandledInv`, explained below |
| `CloudTypeCorrect`, `UnloadedIsQuiet` | `SonoffCloud_proofs` | `task` is set exactly from start to stop; a task that reports while the entry is not loaded is alive, not set and not cancelled, and stays so |
| `RegistryTypeCorrect`, `AvailabilityIsTrue` | `SonoffRegistry_proofs` | either a step signals the main device, and all entities compute again, or nothing they depend on changes; that an offline device has a host needs that a request in flight has one |
| `NothingIsLost` | `SonoffSend_proofs` | a wish is collected or else handed on last (`Accounted`), and collected switches have a sleeping call (`Attended`) |
| `SendTypeCorrect`, `AnswersAreOwn`, `WaitersAreWaiting` | `SonoffSend_proofs` | `SeqInv`: no two calls have the same sequence, a drawn sequence is newer than every message and answer under way (`Drawn`), so a message or an answer with the sequence of a call is the call's own; that a waiting call has a sequence is needed for the types already |
| `CallsAreRemoteCalls` | `SonoffSend_proofs` | `CallInv` adds to `SeqInv` that a result is there exactly from the answer on (`Told`) and that a call has one update on its way at most, sent by itself (`Requested`); every step then maps to a step of `RemoteCall` or a stutter |
| `MessagesAreSpaced` | `SonoffSend_proofs` | `last_ts` is never older than the last message, also after a send that failed (`PaceInv`) |
| `TransferTypeCorrect`, `ContextsAreSafe`, `LeakNeedsCrossing` | `UsbTransfer_proofs` | the life of one transfer (`Life`) says which side has the context at each pair of places of the caller and the callback |
| `MonitorTypeCorrect`, `StatusIsWhole`, `StatusIsFresh` | `UpsMonitor_proofs` | outside a read the data are what the last read gave (`DataSound`); while the device has not gone and the protocol is known, a status is one tick old only while the update that will replace it is due, and older never (`KeptSound`) |
| `SmartTypeCorrect`, `UnloadedQuiet` | `SmartHome_proofs` | `LoadSound`: what may be left of each load that is not the present one, place by place; unloading ends every manager and notifier but those at the two places the code forgets, which `caught` and `early` record |
| `StatesArrive` | `SmartHome_proofs` | `RInv`: at most one POST is the newest (`PostsSound`), what is pending is the actual value and has a timer (`PendActual`, `PendSound`), the value is on its way or known or lost (`WaySound`), and the initial report leaves nothing out but events (`StartSound`) |
| `GlagolTypeCorrect`, `LocalSpeaks`, `StoppedQuiet` | `YandexGlagol_proofs` | a loop has a socket exactly while it reads or cleans up (`Sockets`); a loop without another is the one `ws` belongs to (`Single`); a loop that goes on without a url was connecting when it was dropped or will be refused (`Dropped`); whoever connects has been told a host (`Known`) |

The proofs assume only the named assumptions on the constants
(`TimesAssumption`, `CommandsAssumption`, `TasksAssumption`,
`RegistryAssumption`, `SendAssumption`, `MonitorAssumption`,
`ReportAssumption`, `HomeAssumption`, `AddressAssumption`), which TLC evaluates
in the runs, and the hypotheses in the theorems:

- `ButtonsOnly`: nobody switches a relay on directly, and the node handles one
  message a pass.  The automations have only the buttons; the relay rows of the
  dashboard are what this excludes.  `Gentle` excludes a power loss as well, of
  which the image may be old.
- `WellUsed`: besides, a chain lasts at least as long as the travel.
- `Suited`, of the flat: `ButtonsOnly`; `Timely`, which says that the valve
  travels from end to end within the 25 s after which the automations switch
  the relay off, and that these are no longer than the chain's 30 s; and
  `MeetApart`, which says that the mixes counted as handled are apart
  (`Apart`): either one automation at most drives each direction, on a link
  that may be lost any number of times (`OneEach`), or several close and none
  but one test opens, on a node that stays on the line (`OnlyClosings`).
  `HandledAreApart` has TLC evaluate the last two for the constants of
  `protect`.  The mix of `claim_leak_closed`, where a leak, an opening and a
  closing click meet, is not apart, and there the property is violated; so it
  is when two closing automations meet a lost link (section 6).

The position under the automations.  `PositionInv` of the node is of no use in
the flat: an automation switches its relay off 5 s before the chain ends, so
the chain's remaining time does not bound the remaining travel any more.
`Books` keeps two facts instead: while the relay is on, the valve is at its end
or has moved at least as long as the chain has run (`Underway`), and a relay is
off under a pending chain only once the end has been reached (`EndReached`).
The second one is what a relay-off at a wrong moment would break, so the proof
has to know who may switch off when, which is `Ordered`:

- `Alone`: no run that drives the direction of a movement began its delay
  before the movement.  Where one automation at most drives each direction
  (`OneWay`, `NobodyElse`), this holds whether its press is heard, refused or
  lost, and the relay-off that comes 25 s later finds the valve at its end; a
  relay-off that is lost leaves the movement to the chain.
- `Together`: only closings run.  Several automations may press and switch off
  the same relay, and a relay-off may come from a run whose press was ignored;
  but then the movement began before that run's delay did, and the valve is
  closed when it comes (`ManyClose`).  This needs every press to be heard or
  refused, so the link stays.
- The test goes from one to the other: it closes `Together` with the others,
  and opens `Alone`, because it presses only when the node is seen at rest
  (`Opened`).

`Unasked` says that an automation without its input does not run, which is how
`Apart` becomes a statement about steps, and that the link is there unless it
was lost.  `TrueReports` carries what was seen in a wait to the announcement
after it.  `PressHandled`, `OffHandled` and `StayHandled` are the three things a
step of a run may do to the node; the lemmas on the automations only say which
of them each step is.  The invariant holds for any number of sensors, leaks,
clicks, presses and lost links, and any delays that are `Timely`; TLC checked it
on the mixes of `protect`, and on more lost links and tests, before it was
proved.

Types are proved rather than checked.

Only model-checked is liveness (`MotorStops`, `LeakClosesWater`, `RunsEnd`,
`SetupEnds`, `Reconnects`, `OutageIsShown`, `LocalComesBack`, `LocalGoneIsNoticed`,
`CommandsArrive`, `CallsEnd`, `CallsReturn`, `ComesBack`, `SilentClientsLeave`, `FloatsHeal`, `StaysConnected`, `LinkedReports`,
`LocalReturns`), which is out of the prover's reach, as is `ENABLED`.  Every
invariant and every action property of the passing runs has a theorem.

## 6. What was found

Each has a run that shows it:

1. `claim_leak_closed`: a leak during an opening, then a single click.  The
   relay-off of the leak run cuts the closing the click has started, the node
   writes "closed" at the end of the chain, and "the water is closed" is
   announced over a half open valve.
2. `claim_transfer_freed`: the callback of a transfer looks at `abandoned` just
   before the caller stores it.  Both sides go on as if the other would free
   the context, and nobody does, against the comment of `transport_esp32.cpp`
   that says "never neither".

Seen while modelling, without a run of their own; where a property would be
violated by one of them, it names the case and excludes every other.

- Water: "the water is off" is announced after a press the node ignored; a
  single click during an opening is answered "already closed"; the direction
  told to Telegram is taken from the old position; a click while the test opens
  is not obeyed; with two closing automations and a link lost at the press of
  one of them, the relay-off of that run cuts the closing of the other, and
  the node records a position the valve never reached; a double click in the
  middle of the test makes it report success over a closed valve.
- Sonoff: a reload during the login leaves a task alive, and a later setup may
  wait for ever (`SetupEnds`); a device announced without a host loses its
  commands (`CommandsArrive`); `online` of the cloud stays true while it is
  being connected again; the distance between two `uiActive` is shortened by
  the second queue; two commands may be swapped by the fallback.
- UPS: only a read resets the data, so clients hear the status from before a gap
  until the first update after the device is back, and after a power cycle,
  which resets the protocol and not the data, until the device is recognised
  again.  If detection gives up (`mark_failed`), this is for ever: a UPS that
  said "OL", was power-cycled and stays silent is reported as "OL"
  (`ConnectedIsFresh`).  A NUT command may use a protocol that the main loop has just destroyed
  (`Crash`); `initialize` of the transport locks `device_mutex_` a second time
  when a device is there already; a client's place is kept for 49 days when the
  clock has wrapped since its last command.
- Yandex Smart Home: an entry reloaded before Home Assistant has started gets a
  notifier of the load that is gone (`early`); a disconnect while the socket is
  being opened closes nothing, and the socket is served for an entry that was
  unloaded (`caught`).
- Yandex station: a restart that meets the cleanup of a broken connection leaves
  two loops that share one socket field (`doubled`); a stop while the socket is
  being opened closes nothing (`caught`); an announcement in local mode is
  skipped, and the address it told is lost (`Missed`); a host that occurs in the
  old url, or a new port of the same host, is taken for no change (`Mistaken`);
  an announcement starts the connection of an entity that was removed.

## 7. Not modelled

The list with reasons is in `PROJECT.json`.  In short: vendored third-party
integrations (Spook, BLE monitor, Proxmox, Xiaomi, MCP tools, weather), which
are most of the repository's lines and not this home's logic; tables, decoders
and layout, which have no behaviour over time; rules of one trigger and one
action (lights, notifications), where a model would restate the rule.  Of the
modelled parts, section 2 says of each what it leaves out.

## 8. Plan

1. Fans of the bathroom node: modes, manual timer, exclusion, restore; composed
   with the valve for restarts of the shared node.
2. UPS automations on top of `UpsMonitor`: what the home does on battery, and
   when power returns.
3. Commands to the station: their futures and the fallback to the cloud, next to
   `SonoffSend`, with which they share the question whether an answer completes
   its own command.
4. Domofon: the answering sequence of relays and timers.
5. Proofs: refinements of abstract specifications of the other components, as
   `ValveActuator` is one of the node and `RemoteCall` one of the commands.

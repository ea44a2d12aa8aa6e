------------------------------ MODULE UpsMonitor ------------------------------
(***************************************************************************)
(* The UPS monitor of esphome/esp32_nut_hs.yaml: the component ups_hid     *)
(* (ups_hid.cpp) that finds the UPS on the USB port and reads it every     *)
(* update interval, and the NUT server (nut_server.cpp) that tells its     *)
(* clients, who shut down on what they hear.                               *)
(*                                                                         *)
(* Three tasks run at once.  The main loop updates (data_mutex_ is held    *)
(* while the UPS is read) and drops silent clients; the task of the NUT    *)
(* server handles one command at a time (clients_mutex_ is held meanwhile, *)
(* data_mutex_ while the status is built); the USB client task attaches    *)
(* and detaches the device.  The button 'Reset USB Power' acts in the main *)
(* loop.  One tick is one update interval, 30 s; what the tasks have to do *)
(* is done before the next.  Clients are logged in.                        *)
(***************************************************************************)
EXTENDS Naturals

CONSTANTS
  Slots,          \* places for clients
  Power,          \* the states a UPS reports
  MaxFailures,    \* max_consecutive_failures_
  ResetAfter,     \* USB_AUTO_RESET_AFTER_MS, 120 s
  ClientTimeout,  \* CLIENT_TIMEOUT_MS, 60 s
  Wrap            \* millis() counts modulo this

ASSUME MonitorAssumption ==
  /\ Power \cap {"alarm", "none", "stale"} = {}
  /\ MaxFailures \in Nat /\ ResetAfter \in Nat /\ ClientTimeout \in Nat
  /\ Wrap \in Nat \ {0}

VARIABLES
  plugged,    \* the UPS is plugged in
  powered,    \* the root port has power
  silent,     \* the UPS does not answer
  announced,  \* USB_HOST_CLIENT_EVENT_NEW_DEV waits to be handled
  connected,  \* Esp32UsbTransport::connected_
  detached,   \* USB_HOST_CLIENT_EVENT_DEV_GONE waits to be handled
  due,        \* update() is due
  reading,    \* the main loop is in read_ups_data and holds data_mutex_
  partly,     \* the UPS answered for a part of this read
  protocol,   \* active_protocol_ is set
  failures,   \* consecutive_failures_
  failed,     \* mark_failed() was called
  since,      \* usb_disconnected_since_, 0 when not counting
  data,       \* the status that ups_data_ gives, "alarm" when it is reset
  now,        \* millis()
  slot,       \* what the client in a place is about, "free" without one
  last,       \* its last_activity
  answer,     \* the status the last step told a client, "none" without one
  lastRead,   \* what the last finished read gave, "alarm" when it failed
  age,        \* ticks since the last read that did not fail, no more than two
  lost        \* the device has gone, and no update has found it back yet

usbVars == <<plugged, powered, silent, announced, connected, detached>>
hidVars == <<reading, partly, protocol, failures, failed, since, data>>
seenVars == <<lastRead, age, lost>>
nutVars == <<slot, last>>

vars == <<usbVars, due, hidVars, now, nutVars, answer, seenVars>>

Statuses == Power \cup {"alarm"}

Answers == Statuses \cup {"none", "stale"}

InHand == {"status", "command", "building", "running", "dangling"}

MonitorTypeOK ==
  /\ plugged \in BOOLEAN /\ powered \in BOOLEAN /\ silent \in BOOLEAN
  /\ announced \in BOOLEAN /\ connected \in BOOLEAN /\ detached \in BOOLEAN
  /\ partly \in BOOLEAN /\ due \in BOOLEAN /\ reading \in BOOLEAN
  /\ protocol \in BOOLEAN /\ failed \in BOOLEAN /\ lost \in BOOLEAN
  /\ failures \in 0 .. MaxFailures + 1
  /\ since \in 0 .. Wrap - 1 /\ now \in 0 .. Wrap - 1
  /\ data \in Statuses /\ lastRead \in Statuses /\ age \in 0 .. 2
  /\ slot \in [Slots -> {"free", "idle"} \cup InHand]
  /\ last \in [Slots -> 0 .. Wrap - 1]
  /\ answer \in Answers

Init ==
  /\ plugged = FALSE /\ powered = TRUE /\ silent = FALSE
  /\ announced = FALSE /\ connected = FALSE /\ detached = FALSE
  /\ due = TRUE /\ reading = FALSE /\ partly = FALSE
  /\ protocol = FALSE /\ failures = 0 /\ failed = FALSE
  /\ since = 0 /\ now = 0
  /\ data = "alarm" /\ lastRead = "alarm" /\ age = 2 /\ lost = FALSE
  /\ slot = [s \in Slots |-> "free"]
  /\ last = [s \in Slots |-> 0]
  /\ answer = "none"

-----------------------------------------------------------------------------
(* The UPS and the USB client task.  Events are handled in their order.    *)

OnBus == plugged /\ powered

Responds == connected /\ ~ detached /\ ~ silent

Plugged ==
  /\ ~ plugged
  /\ plugged' = TRUE
  /\ announced' = (announced \/ powered)
  /\ answer' = "none"
  /\ UNCHANGED <<powered, silent, connected, detached, due, hidVars, now, nutVars, seenVars>>

(* A report that came before the UPS fell silent lets the read succeed.    *)
Interrupted == partly' = (partly \/ (reading /\ Responds))

Unplugged ==
  /\ plugged
  /\ plugged' = FALSE
  /\ detached' = connected
  /\ Interrupted
  /\ answer' = "none"
  /\ UNCHANGED <<powered, silent, announced, connected, due, reading, protocol, failures,
                 failed, since, data, now, nutVars, seenVars>>

Silenced ==
  /\ silent' = ~ silent
  /\ Interrupted
  /\ answer' = "none"
  /\ UNCHANGED <<plugged, powered, announced, connected, detached, due, reading, protocol,
                 failures, failed, since, data, now, nutVars, seenVars>>

(* A device that does not answer may fail to be configured, and is closed. *)
handle_new_device ==
  /\ announced /\ ~ detached
  /\ announced' = FALSE
  /\ connected' \in {OnBus, OnBus /\ ~ silent}
  /\ answer' = "none"
  /\ UNCHANGED <<plugged, powered, silent, detached, due, hidVars, now, nutVars, seenVars>>

handle_device_gone ==
  /\ detached
  /\ detached' = FALSE /\ connected' = FALSE
  /\ lost' = TRUE
  /\ answer' = "none"
  /\ UNCHANGED <<plugged, powered, silent, announced, due, hidVars, now, nutVars, lastRead, age>>

-----------------------------------------------------------------------------
(* The main loop: update().                                                *)

Elapsed(t) == (now + Wrap - t) % Wrap

(* A command that runs in the NUT task keeps its pointer to the protocol.  *)
Dangle == slot' = [s \in Slots |-> IF slot[s] = "running" THEN "dangling" ELSE slot[s]]

ResetProtocol ==
  /\ protocol' = FALSE
  /\ failures' = 0
  /\ Dangle

(* The root port was switched off and on: an open device drops off the bus,*)
(* and one that is plugged in is announced.                                *)
PowerCycled ==
  /\ powered' = TRUE
  /\ detached' = connected
  /\ announced' = plugged
  /\ ResetProtocol

(* It could not be switched off, or not on again.                          *)
PowerCycleFailed ==
  /\ powered' \in {powered, FALSE}
  /\ detached' = (connected /\ (detached \/ ~ powered'))
  /\ UNCHANGED <<announced, protocol, failures, slot>>

Update == due /\ ~ reading /\ ~ failed

(* Fault: the timer starts again with every update.                        *)
UpdateAwayRestarted ==
  /\ Update /\ ~ connected
  /\ since' = now
  /\ due' = FALSE /\ answer' = "none"
  /\ UNCHANGED <<usbVars, reading, partly, protocol, failures, failed, data, now, nutVars, seenVars>>

(* check_usb_disconnect_timeout: the port is power-cycled, and the timer   *)
(* starts again whatever came of it.                                       *)
UpdateAway ==
  /\ Update /\ ~ connected
  /\ IF since = 0 \/ Elapsed(since) < ResetAfter
     THEN /\ since' = IF since = 0 THEN now ELSE since
          /\ UNCHANGED <<powered, announced, detached, protocol, failures, slot>>
     ELSE /\ since' = now
          /\ PowerCycled \/ PowerCycleFailed
  /\ due' = FALSE /\ answer' = "none"
  /\ UNCHANGED <<plugged, silent, connected, reading, partly, failed, data, now, last, seenVars>>

(* The button, whether the device is connected or not.                     *)
ResetPressed ==
  /\ ~ reading
  /\ \/ PowerCycled /\ since' = 0
     \/ PowerCycleFailed /\ since' = since
  /\ answer' = "none"
  /\ UNCHANGED <<plugged, silent, connected, due, reading, partly, failed, data, now, last, seenVars>>

(* detect_protocol fails; the data stay as they are.                       *)
UpdateUndetected ==
  /\ Update /\ connected /\ ~ protocol /\ ~ Responds
  /\ since' = 0
  /\ failures' = failures + 1
  /\ failed' = (failures' > MaxFailures)
  /\ lost' = FALSE
  /\ due' = FALSE /\ answer' = "none"
  /\ UNCHANGED <<usbVars, reading, partly, protocol, data, now, nutVars, lastRead, age>>

(* With a protocol, found just now or before, a read begins.               *)
ReadBegins ==
  /\ Update /\ connected /\ (protocol \/ Responds)
  /\ since' = 0
  /\ protocol' = TRUE
  /\ failures' = IF protocol THEN failures ELSE 0
  /\ reading' = TRUE /\ partly' = FALSE
  /\ lost' = FALSE
  /\ answer' = "none"
  /\ UNCHANGED <<usbVars, due, failed, now, nutVars, lastRead, age>>

(* Fault: the old reading stays until a new one is there.                  *)
UpdateReadKeeping == ReadBegins /\ data' = data

(* read_ups_data resets the data and reads.                                *)
UpdateRead == ReadBegins /\ data' = "alarm"

(* One report is enough.                                                   *)
ReadDone ==
  /\ reading /\ (Responds \/ partly)
  /\ reading' = FALSE /\ partly' = FALSE /\ due' = FALSE
  /\ data' \in Statuses
  /\ failures' = 0
  /\ lastRead' = data' /\ age' = 0
  /\ answer' = "none"
  /\ UNCHANGED <<usbVars, protocol, failed, since, now, nutVars, lost>>

ReadFailed ==
  /\ reading /\ ~ Responds
  /\ reading' = FALSE /\ partly' = FALSE /\ due' = FALSE
  /\ IF failures + 1 > MaxFailures
     THEN ResetProtocol
     ELSE failures' = failures + 1 /\ UNCHANGED <<protocol, slot>>
  /\ lastRead' = data
  /\ answer' = "none"
  /\ UNCHANGED <<usbVars, failed, since, data, now, last, age, lost>>

-----------------------------------------------------------------------------
(* The task of the NUT server.  clients_mutex_ is held by the task while   *)
(* it is at a command.                                                     *)

Busy == \E s \in Slots : slot[s] \in {"building", "running", "dangling"}

Put(s, state) == slot' = [slot EXCEPT ![s] = state]

Free == {s \in Slots : slot[s] = "free"}

(* Without a free place the client is turned away, and nothing changes.    *)
Accepted ==
  /\ ~ Busy /\ Free # {}
  /\ LET s == CHOOSE t \in Free : TRUE IN
       Put(s, "idle") /\ last' = [last EXCEPT ![s] = now]
  /\ answer' = "none"
  /\ UNCHANGED <<usbVars, due, hidVars, now, seenVars>>

(* A client sends a command; it lies in the socket.                        *)
Asked(s) ==
  /\ slot[s] = "idle"
  /\ slot' \in {[slot EXCEPT ![s] = request] : request \in {"status", "command"}}
  /\ answer' = "none"
  /\ UNCHANGED <<usbVars, due, hidVars, now, last, seenVars>>

(* recv() gives zero, or an error.                                         *)
Closed(s) ==
  /\ slot[s] = "idle" /\ ~ Busy
  /\ Put(s, "free") /\ last' = [last EXCEPT ![s] = 0]
  /\ answer' = "none"
  /\ UNCHANGED <<usbVars, due, hidVars, now, seenVars>>

(* LIST VAR, GET VAR: has_ups_data.                                        *)
StatusHandled(s) ==
  /\ slot[s] = "status" /\ ~ Busy
  /\ last' = [last EXCEPT ![s] = now]
  /\ IF connected
     THEN Put(s, "building") /\ answer' = "none"
     ELSE Put(s, "idle") /\ answer' = "stale"
  /\ UNCHANGED <<usbVars, due, hidVars, now, seenVars>>

(* Fault: the status is built without data_mutex_.                         *)
StatusUnlocked(s) ==
  /\ slot[s] = "building"
  /\ Put(s, "idle")
  /\ answer' = data
  /\ UNCHANGED <<usbVars, due, hidVars, now, last, seenVars>>

(* get_nut_status, which waits for data_mutex_; the device may have gone   *)
(* since get_ups_status looked.                                            *)
StatusBuilt(s) ==
  /\ slot[s] = "building" /\ ~ reading
  /\ Put(s, "idle")
  /\ answer' = data
  /\ UNCHANGED <<usbVars, due, hidVars, now, last, seenVars>>

(* The device has gone before get_ups_status looks.                        *)
StatusGone(s) ==
  /\ slot[s] = "building" /\ ~ connected
  /\ Put(s, "idle")
  /\ answer' = "stale"
  /\ UNCHANGED <<usbVars, due, hidVars, now, last, seenVars>>

(* INSTCMD: a call on active_protocol_, without a lock.                    *)
CommandHandled(s) ==
  /\ slot[s] = "command" /\ ~ Busy
  /\ last' = [last EXCEPT ![s] = now]
  /\ Put(s, IF protocol THEN "running" ELSE "idle")
  /\ answer' = "none"
  /\ UNCHANGED <<usbVars, due, hidVars, now, seenVars>>

CommandDone(s) ==
  /\ slot[s] \in {"running", "dangling"}
  /\ Put(s, "idle")
  /\ answer' = "none"
  /\ UNCHANGED <<usbVars, due, hidVars, now, last, seenVars>>

(* The command has gone on in a protocol that is destroyed: the node may   *)
(* restart, and then finds the UPS where it is.                            *)
Crash ==
  /\ \E s \in Slots : slot[s] = "dangling"
  /\ powered' = TRUE /\ announced' = plugged /\ connected' = FALSE /\ detached' = FALSE
  /\ due' = TRUE /\ reading' = FALSE /\ partly' = FALSE
  /\ protocol' = FALSE /\ failures' = 0 /\ failed' = FALSE
  /\ since' = 0 /\ now' = 0
  /\ data' = "alarm" /\ lastRead' = "alarm" /\ age' = 2 /\ lost' = FALSE
  /\ slot' = [s \in Slots |-> "free"]
  /\ last' = [s \in Slots |-> 0]
  /\ answer' = "none"
  /\ UNCHANGED <<plugged, silent>>

(* Fault: the guard against a newer last_activity is turned round.         *)
ExpiredReversed(s) ==
  slot[s] # "free" /\ now < last[s] /\ Elapsed(last[s]) > ClientTimeout

(* The main loop: cleanup_inactive_clients.                                *)
Expired(s) ==
  slot[s] # "free" /\ now >= last[s] /\ now - last[s] > ClientTimeout

Cleaned(s) ==
  /\ ~ reading /\ ~ Busy /\ Expired(s)
  /\ Put(s, "free") /\ last' = [last EXCEPT ![s] = 0]
  /\ answer' = "none"
  /\ UNCHANGED <<usbVars, due, hidVars, now, seenVars>>

Tick ==
  /\ (due => failed) /\ ~ reading /\ ~ announced /\ ~ detached
  /\ ~ Busy /\ \A s \in Slots : ~ Expired(s)
  /\ now' = (now + 1) % Wrap
  /\ due' = TRUE
  /\ age' = IF age < 2 THEN age + 1 ELSE 2
  /\ answer' = "none"
  /\ UNCHANGED <<usbVars, hidVars, nutVars, lastRead, lost>>

-----------------------------------------------------------------------------

UsbTask == handle_new_device \/ handle_device_gone

MainLoop == UpdateAway \/ UpdateUndetected \/ UpdateRead \/ ReadDone \/ ReadFailed

NutTask(s) ==
  \/ StatusHandled(s) \/ StatusBuilt(s) \/ StatusGone(s)
  \/ CommandHandled(s) \/ CommandDone(s)

Next ==
  \/ Plugged \/ Unplugged \/ Silenced \/ UsbTask
  \/ MainLoop \/ ResetPressed
  \/ Accepted
  \/ \E s \in Slots : Asked(s) \/ Closed(s) \/ NutTask(s) \/ Cleaned(s)
  \/ Crash
  \/ Tick

Spec == Init /\ [][Next]_vars

(* The three tasks are scheduled and time passes; neither the UPS nor a    *)
(* client nor the button owes anything.  The server goes through its       *)
(* clients in turn.  A port that is power-cycled again and again comes     *)
(* back one time: this the library owes, and nothing in the code.          *)
Fairness ==
  /\ WF_vars(UsbTask)
  /\ WF_vars(MainLoop)
  /\ SF_vars(UpdateAway /\ PowerCycled)
  /\ \A s \in Slots : WF_vars(NutTask(s)) /\ SF_vars(Cleaned(s))
  /\ SF_vars(Tick)

FairSpec == Spec /\ Fairness

-----------------------------------------------------------------------------
(* Properties.                                                             *)

(* A client hears what the last finished read gave: never the data of a    *)
(* read that is going on, which starts by resetting it and would look like *)
(* a power failure with an alarm (ups_hid.cpp l.271-283, l.786-821).       *)
StatusIsLastRead == answer \in Statuses => answer = lastRead

(* Failed reads, a lost protocol and a replugging end in an alarm and not  *)
(* in the status from before, as soon as an update has found the device.   *)
(* A status older than one update is told only until the first update      *)
(* after the device is back, and for as long as a device that was power-   *)
(* cycled is not recognised again: only a read resets the data             *)
(* (ups_hid.cpp l.61-106, l.265-281).                                      *)
ConnectedIsFresh == answer \in Power => age <= 1 \/ lost \/ ~ protocol

(* A UPS that is there and answers is read again, whatever came before, if *)
(* detection has not given up for good and nobody presses the button for   *)
(* ever (l.61-106, l.597-634).                                             *)
ComesBack ==
  <>[][~ ResetPressed]_vars =>
    []<>(~ plugged \/ silent \/ failed \/ age <= 1)

(* A client that falls silent loses its place, unless it was last heard in *)
(* the last minute before millis() wraps (nut_server.cpp l.273-304).       *)
SilentClientsLeave ==
  \A s \in Slots :
    []<>(slot[s] # "idle" \/ last[s] + ClientTimeout + 1 >= Wrap)

=============================================================================

------------------------------- MODULE SmartHome -------------------------------
(***************************************************************************)
(* The life of an entry of custom_components/yandex_smart_home             *)
(* (__init__.py, entry_data.py): Home Assistant loads it, before or after  *)
(* it has started; it is loaded anew when its options change, and when     *)
(* Yandex asks for the devices for the first time, which links the         *)
(* platform.  Every load has a cloud manager (SmartCloud), if the entry    *)
(* uses the cloud, and a notifier (SmartReport), if the platform is linked *)
(* once Home Assistant has started.                                        *)
(***************************************************************************)
EXTENDS SmartReport, SmartCloud

CONSTANTS Entries  \* the entries to look at: what they are and how often they are loaded

ASSUME HomeAssumption ==
  /\ Managers = Generations
  /\ Entries \subseteq [cloud : BOOLEAN, kind : Kinds \cup {"none"}, loads : Generations]

VARIABLES
  most,     \* it is loaded so often at most
  cloud,    \* the entry uses the cloud, or Yandex calls Home Assistant
  started,  \* EVENT_HOMEASSISTANT_STARTED has been fired
  entry,    \* the state of the entry
  load,     \* the load it is in, or was in last
  linked,   \* linked_platforms is not empty
  due,      \* its update listener has asked for a reload
  early,    \* a load was left before its notifier was set up
  caught    \* or while its manager was connecting

entryVars == <<most, cloud, started, entry, load, linked, due, early, caught>>

vars == <<reportVars, cloudVars, entryVars>>

SmartTypeOK ==
  /\ ReportTypeOK /\ CloudTypeOK
  /\ cloud \in BOOLEAN /\ started \in BOOLEAN
  /\ entry \in {"loaded", "unloading", "unloaded"}
  /\ most \in Generations /\ load \in 0 .. most
  /\ linked \in BOOLEAN /\ due \in BOOLEAN
  /\ early \in [Generations -> BOOLEAN] /\ caught \in [Generations -> BOOLEAN]

Init ==
  /\ \E e \in Entries : cloud = e.cloud /\ kind = e.kind /\ most = e.loads
  /\ ReportInit /\ CloudInit
  /\ started = FALSE /\ entry = "unloaded" /\ load = 0
  /\ linked \in BOOLEAN /\ due = FALSE
  /\ early = [g \in Generations |-> FALSE]
  /\ caught = [g \in Generations |-> FALSE]

-----------------------------------------------------------------------------

(* _async_setup_notifiers of the loads in gs.                              *)
SetUpNotifiers(gs) ==
  /\ run' = [g \in Generations |-> IF g \notin gs THEN run[g] ELSE IF linked THEN "running" ELSE "over"]
  /\ first' = [g \in Generations |-> first[g] \/ (g \in gs /\ linked)]
  /\ UNCHANGED <<kind, actual, report, pend, posts, known, net, lost, missed>>

(* async_setup_entry.                                                      *)
Load ==
  /\ entry = "unloaded" /\ load < most
  /\ entry' = "loaded" /\ load' = load + 1
  /\ IF cloud
     THEN Goto(load + 1, "connecting") /\ UNCHANGED <<reachable, ws, active>>
     ELSE UNCHANGED cloudVars
  /\ IF started
     THEN SetUpNotifiers({load + 1})
     ELSE /\ run' = [run EXCEPT ![load + 1] = "listening"]
          /\ UNCHANGED <<kind, actual, first, report, pend, posts, known, net, lost, missed>>
  /\ UNCHANGED <<most, cloud, started, linked, due, early, caught>>

(* Every load that has listened for the start, and still does.             *)
Started ==
  /\ ~ started
  /\ started' = TRUE
  /\ SetUpNotifiers({g \in Generations : run[g] = "listening"})
  /\ UNCHANGED <<cloudVars, most, cloud, entry, load, linked, due, early, caught>>

(* async_unload_entry, asked for by the listener or by the user.           *)
Unload ==
  /\ entry = "loaded" /\ load < most
  /\ due' = FALSE
  /\ NotifierUnload(load)
  /\ early' = [early EXCEPT ![load] = run[load] = "listening"]
  /\ caught' = [caught EXCEPT ![load] = con[load] = "connecting"]
  /\ DisconnectBegin(load)
  /\ entry' = IF ws[load] = "open" THEN "unloading" ELSE "unloaded"
  /\ UNCHANGED <<most, cloud, started, load, linked>>

Unloaded ==
  /\ entry = "unloading"
  /\ entry' = "unloaded"
  /\ DisconnectEnd(load)
  /\ UNCHANGED <<reportVars, most, cloud, started, load, linked, due, early, caught>>

(* Fault: the entry has no update listener.                                *)
LinkUnheard ==
  /\ linked' \in BOOLEAN
  /\ load + (IF entry = "loaded" THEN 1 ELSE 2) <= most
  /\ UNCHANGED <<most, cloud, started, entry, load, due, early, caught>>

(* /user/devices and /user/unlink; a changed entry calls its listener, if  *)
(* it has one.  Room is left for the reload; a second one is like one the  *)
(* user asks for.                                                          *)
Link ==
  /\ linked' \in BOOLEAN
  /\ IF linked' = linked
     THEN UNCHANGED due
     ELSE /\ load + (IF entry = "loaded" THEN 1 ELSE 2) <= most
          /\ due' = (due \/ entry # "unloaded")
  /\ UNCHANGED <<most, cloud, started, entry, load, early, caught>>

(* A request by the socket, or over HTTP to the loaded entry.              *)
Request ==
  \/ \E g \in Generations : Asked(g) /\ Link /\ UNCHANGED reportVars
  \/ ~ cloud /\ entry = "loaded" /\ Link /\ linked' # linked /\ UNCHANGED <<reportVars, cloudVars>>

-----------------------------------------------------------------------------

Manager(g) == CoroutineStep(g) /\ UNCHANGED <<reportVars, entryVars>>

Cut(g) == SocketStep(g) /\ UNCHANGED <<reportVars, entryVars>>

(* The timer may fire while the entry waits for the socket to close.       *)
Dialled(g) ==
  /\ Redial(g)
  /\ caught' = [caught EXCEPT ![g] = @ \/ ~ active[g]]
  /\ UNCHANGED <<reportVars, most, cloud, started, entry, load, linked, due, early>>

Reported == ReportStep /\ UNCHANGED <<cloudVars, entryVars>>

Outage == cloud /\ ReachChanged /\ UNCHANGED <<reportVars, entryVars>>

Next ==
  \/ Load \/ Started \/ Unload \/ Unloaded \/ Request
  \/ \E g \in Generations : Manager(g) \/ Cut(g) \/ Dialled(g)
  \/ Reported
  \/ Outage

Spec == Init /\ [][Next]_vars

(* Home Assistant starts and loads the entry, and loads it anew when its   *)
(* listener asks; coroutines go on and their timers fire, every hour the   *)
(* heartbeat; requests end.  The cloud and the network owe nothing.        *)
Fairness ==
  /\ WF_vars(Load) /\ WF_vars(Started) /\ WF_vars(due /\ Unload) /\ WF_vars(Unloaded)
  /\ \A g \in Generations :
       /\ WF_vars(Manager(g)) /\ WF_vars(Dialled(g))
       /\ SF_vars(Timers(g) /\ UNCHANGED <<cloudVars, entryVars>>)
       /\ WF_vars(Heartbeat(g) /\ UNCHANGED <<cloudVars, entryVars>>)
  /\ WF_vars(PostEnds /\ UNCHANGED <<cloudVars, entryVars>>)

FairSpec == Spec /\ Fairness

-----------------------------------------------------------------------------
(* Properties.                                                             *)

Reporting == load > 0 /\ run[load] = "running"

Online == load > 0 /\ con[load] = "open"

(* Nobody connects to the cloud for an entry that was unloaded, or reports *)
(* for it, unless the load was left while its manager was connecting, or   *)
(* before Home Assistant had started (entry_data.py l.126-129, l.163-170). *)
UnloadedIsQuiet ==
  \A g \in Generations : g # load \/ entry = "unloaded" =>
    /\ con[g] \in {"connecting", "waiting", "open"} => caught[g]
    /\ run[g] = "running" => early[g]

(* Yandex has the actual value, or it is on its way, or its POST was lost  *)
(* or came too early; an event that had no POST is missed for good         *)
(* (notifier.py l.273-318, l.380-448).                                     *)
NothingForgotten ==
  /\ Reporting /\ ~ first[load]
  /\ actual \in Values /\ kind # "none"
  /\ kind = "event" => ~ missed
  => \/ \E g \in Generations : pend[g] = actual /\ report[g] = "armed"
     \/ \E i \in DOMAIN posts : posts[i] = [value |-> actual, latest |-> TRUE]
     \/ known = actual /\ \A i \in DOMAIN posts : ~ posts[i].latest
     \/ lost

(* A float that stays is known in the end whatever was lost, if POSTs      *)
(* arrive from some time on: the heartbeat reports it (l.423-436).         *)
FloatsHeal ==
  (<>[](kind = "float" /\ net /\ Reporting) /\ <>[][FALSE]_actual)
    => <>[](actual = "gone" \/ known = actual)

(* Whenever the cloud can be reached the entry is connected again, however *)
(* often it was not (cloud.py l.93-105, l.137-166).                        *)
StaysConnected ==
  []<>(~ cloud \/ ~ reachable \/ Online)

(* A linked platform gets its reports, also if it was linked before the    *)
(* start or in the middle of an unload (entry_data.py l.330-347).          *)
LinkedReports == linked ~> ~ linked \/ Reporting

=============================================================================

---------------------------- MODULE SonoffRegistry ----------------------------
(***************************************************************************)
(* XRegistry of custom_components/sonoff/core/ewelink/__init__.py: how it  *)
(* learns whether a device answers on the local network (local_update,     *)
(* run_forever, send_local), what its entities show, and which way send    *)
(* takes, for one main device and one device behind it.                    *)
(*                                                                         *)
(* Times are events: due is ts >= localping, recent is ts < localrecv + 4. *)
(* The connection to the cloud (SonoffCloud) is a flag here.               *)
(***************************************************************************)

EXTENDS Naturals

CONSTANTS
  Kinds,        \* kinds of main device, a subset of {"bridge", "meter", "polled"}
  Commands,     \* calls of XRegistry.send
  MaxRequests   \* bound on the background requests in flight of a sort

ASSUME RegistryAssumption ==
  /\ Kinds \subseteq {"bridge", "meter", "polled"}
  /\ MaxRequests \in Nat

VARIABLES
  kind,        \* "meter": SPM-Main, "polled": asked for statistics, "bridge": neither
  lan,         \* the main device answers on the local network
  host,        \* device["host"] is known
  localtype,   \* device["localtype"] is known
  local,       \* device["local"]: "unknown" (no key), "yes", "no"
  localfail,   \* device["localfail"], 3 standing for more too
  due,         \* ts >= device["localping"]
  recent,      \* ts < device["localrecv"] + 4
  pings,       \* requests without a command in flight
  polls,       \* requests with a command in flight
  link,        \* cloud.online
  online,      \* device["online"] of both devices
  available,   \* _attr_available of their entities
  pc,          \* where each call of send is
  target,      \* its device
  got          \* calls whose command has reached the device

lanVars == <<host, localtype, local, localfail, due, recent>>
requestVars == <<pings, polls>>
cloudVars == <<link, online>>
sendVars == <<pc, target, got>>

vars == <<kind, lan, lanVars, requestVars, cloudVars, available, sendVars>>

Devices == {"main", "child"}

RegistryTypeOK ==
  /\ kind \in Kinds
  /\ lan \in BOOLEAN /\ host \in BOOLEAN /\ localtype \in BOOLEAN
  /\ localtype => host
  /\ local \in {"unknown", "yes", "no"}
  /\ local = "no" => host
  /\ localfail \in 0 .. 3
  /\ due \in BOOLEAN /\ recent \in BOOLEAN
  /\ pings \in 0 .. MaxRequests /\ polls \in 0 .. MaxRequests
  /\ pings > 0 \/ polls > 0 => host
  /\ link \in BOOLEAN
  /\ online \in [Devices -> BOOLEAN]
  /\ available \in [Devices -> BOOLEAN]
  /\ pc \in [Commands -> {"idle", "lan", "lan_or_cloud", "cloud",
                          "cloud_after_lan", "crashed", "done"}]
  /\ target \in [Commands -> Devices]
  /\ got \subseteq Commands

-----------------------------------------------------------------------------

CanCloud(d) == link /\ online[d]

(* A child is local through its parent, when localtype is known and says   *)
(* so; by itself it is never heard.                                        *)
CanLocal(d) ==
  /\ local = "yes"
  /\ d = "child" => localtype /\ kind \in {"bridge", "meter"}

(* dispatcher_send: the entities of the devices compute their availability *)
(* again.  The child's entities listen to the parent's signal too.         *)
Signal(devices) ==
  available' = [d \in Devices |->
    IF d \in devices \/ "main" \in devices
      THEN CanCloud(d)' \/ CanLocal(d)'
      ELSE available[d]]

Init ==
  /\ kind \in Kinds
  /\ lan \in BOOLEAN
  /\ \/ local = "unknown" /\ host = FALSE
     \/ local = "no" /\ host = TRUE        \* a host from the configuration
  /\ localtype = FALSE
  /\ localfail = 0 /\ due = TRUE /\ recent = FALSE
  /\ pings = 0 /\ polls = 0
  /\ link \in BOOLEAN
  /\ online \in [Devices -> BOOLEAN]
  /\ available = [d \in Devices |-> link /\ online[d]]
  /\ pc = [c \in Commands |-> "idle"]
  /\ target = [c \in Commands |-> "main"]
  /\ got = {}

-----------------------------------------------------------------------------
(* Local availability.                                                     *)

Heard ==
  /\ local' = "yes"
  /\ localfail' = 0
  /\ due' = FALSE

(* A message without a host, with the host that is known, or with another, *)
(* which is stored together with localtype.                                *)
HostAnnounced ==
  \/ UNCHANGED <<host, localtype>>
  \/ host' = TRUE /\ localtype' = TRUE

(* Fault: the main device is not signalled for a message of its child.     *)
AnnouncedSilently ==
  /\ lan
  /\ \E realid \in Devices :
       /\ HostAnnounced
       /\ Heard
       /\ recent' = TRUE
       /\ UNCHANGED <<kind, lan, requestVars, cloudVars, sendVars>>
       /\ Signal({realid})

(* local_update: a message of the main device or of its child.             *)
Announced ==
  /\ lan
  /\ HostAnnounced
  /\ Heard
  /\ recent' = TRUE
  /\ UNCHANGED <<kind, lan, requestVars, cloudVars, sendVars>>
  /\ Signal({"main"})

(* The two kinds of request of a pass.                                     *)
Polls == kind = "polled" /\ ~ recent /\ localfail < 3
PollsChild == kind = "meter" /\ localtype /\ localfail < 3
Pings == due /\ ~ Polls

Start(requests, condition) == requests + (IF condition THEN 1 ELSE 0)

(* Fault: the availability of an offline device is not updated.            *)
TickLocalOnly ==
  /\ local # "unknown"
  /\ pings < MaxRequests /\ polls < MaxRequests
  /\ pings' = Start(pings, Pings /\ host /\ local = "yes")
  /\ polls' = Start(polls, (Polls \/ PollsChild) /\ host)
  /\ recent' = FALSE
  /\ UNCHANGED <<kind, lan, host, localtype, local, localfail, due, cloudVars,
                 available, sendVars>>

(* Fault: polling is not limited to devices that have not failed.          *)
TickPollsAlways ==
  /\ local # "unknown"
  /\ pings < MaxRequests /\ polls < MaxRequests
  /\ pings' = Start(pings, Pings /\ host /\ kind # "polled")
  /\ polls' = Start(polls, (kind = "polled" \/ PollsChild) /\ host)
  /\ recent' = FALSE
  /\ UNCHANGED <<kind, lan, host, localtype, local, localfail, due, cloudVars,
                 available, sendVars>>

(* A pass of run_forever.  A request to a device without a host raises     *)
(* KeyError in its task before anything else.                              *)
Tick ==
  /\ local # "unknown"
  /\ pings < MaxRequests /\ polls < MaxRequests
  /\ pings' = Start(pings, Pings /\ host)
  /\ polls' = Start(polls, (Polls \/ PollsChild) /\ host)
  /\ recent' = FALSE
  /\ UNCHANGED <<kind, lan, host, localtype, local, localfail, due, cloudVars,
                 available, sendVars>>

(* localping is reached.                                                   *)
Lapse ==
  /\ local # "unknown" /\ ~ due
  /\ due' = TRUE
  /\ UNCHANGED <<kind, lan, host, localtype, local, localfail, recent, requestVars, cloudVars,
                 available, sendVars>>

(* send_local with an answer; an encrypted one goes through local_update.  *)
Answered ==
  /\ lan
  /\ Heard
  /\ recent' \in {recent, TRUE}
  /\ Signal({"main"})

FailedOnce == localfail' = IF localfail < 3 THEN localfail + 1 ELSE 3

PingAnswered ==
  /\ pings > 0 /\ pings' = pings - 1
  /\ UNCHANGED <<kind, lan, host, localtype, polls, cloudVars, sendVars>>
  /\ Answered

PingFailed ==
  /\ pings > 0 /\ pings' = pings - 1
  /\ ~ lan
  /\ FailedOnce
  /\ IF localfail' < 3
       THEN UNCHANGED <<local, due>>
       ELSE local' = "no" /\ due' = FALSE
  /\ UNCHANGED <<kind, lan, host, localtype, recent, polls, cloudVars, sendVars>>
  /\ Signal({"main"})

PollAnswered ==
  /\ polls > 0 /\ polls' = polls - 1
  /\ UNCHANGED <<kind, lan, host, localtype, pings, cloudVars, sendVars>>
  /\ Answered

(* No answer, or an error: counted, without consequence of its own.        *)
PollFailed ==
  /\ polls > 0 /\ polls' = polls - 1
  /\ FailedOnce
  /\ UNCHANGED <<kind, lan, host, localtype, local, due, recent, pings, cloudVars,
                 available, sendVars>>

-----------------------------------------------------------------------------
(* The cloud.                                                              *)

(* cloud_connected.                                                        *)
LinkChanged ==
  /\ link' = ~ link
  /\ UNCHANGED <<kind, lan, lanVars, requestVars, online, sendVars>>
  /\ Signal(Devices)

(* Fault: a change of the online flag alone is not signalled.              *)
CloudUpdateSilent ==
  \E d \in Devices, value \in BOOLEAN :
    /\ online' = [online EXCEPT ![d] = value]
    /\ due' = (due \/ d = "main")
    /\ UNCHANGED <<kind, lan, host, localtype, local, localfail, recent, requestVars, link,
                   available, sendVars>>

(* cloud_update with "online" (l.231) or with other parameters (l.237).    *)
CloudUpdate ==
  \E d \in Devices :
    /\ \/ /\ online' \in {[online EXCEPT ![d] = value] : value \in BOOLEAN}
          /\ due' = (due \/ d = "main")
       \/ /\ online' = [online EXCEPT ![d] = TRUE]
          /\ due' = due
    /\ UNCHANGED <<kind, lan, host, localtype, local, localfail, recent, requestVars,
                   link, sendVars>>
    /\ Signal({d})

-----------------------------------------------------------------------------
(* XRegistry.send.                                                         *)

Goto(c, step) == pc' = [pc EXCEPT ![c] = step]

(* The ways are chosen at the start; a local request to a device without a *)
(* host raises KeyError out of send.                                       *)
Send(c) ==
  /\ pc[c] = "idle"
  /\ \E d \in Devices :
       /\ target' = [target EXCEPT ![c] = d]
       /\ Goto(c, CASE CanLocal(d) /\ ~ host                -> "crashed"
                    [] CanLocal(d) /\ host /\ CanCloud(d)   -> "lan_or_cloud"
                    [] CanLocal(d) /\ host /\ ~ CanCloud(d) -> "lan"
                    [] ~ CanLocal(d) /\ CanCloud(d)         -> "cloud"
                    [] OTHER                                -> "done")
  /\ UNCHANGED <<kind, lan, lanVars, requestVars, cloudVars, available, got>>

LanAnswered(c) ==
  /\ pc[c] \in {"lan", "lan_or_cloud"}
  /\ lan
  /\ got' = got \cup {c}
  /\ Goto(c, "done")
  /\ UNCHANGED <<kind, lan, requestVars, cloudVars, target>>
  /\ \/ /\ UNCHANGED <<host, localtype>>             \* an encrypted answer
        /\ Heard /\ recent' = TRUE
        /\ Signal({"main"})
     \/ UNCHANGED <<lanVars, available>>

(* Fault: a command that failed locally is not sent through the cloud.     *)
LanFailedForGood(c) ==
  /\ pc[c] \in {"lan", "lan_or_cloud"}
  /\ got' \in {got} \cup (IF lan THEN {got \cup {c}} ELSE {})
  /\ Goto(c, "done")
  /\ due' = TRUE
  /\ UNCHANGED <<kind, lan, host, localtype, local, localfail, recent, requestVars, cloudVars,
                 available, target>>

(* No answer in time, though the device may have acted, or an error.       *)
LanFailed(c) ==
  /\ pc[c] \in {"lan", "lan_or_cloud"}
  /\ got' \in {got} \cup (IF lan THEN {got \cup {c}} ELSE {})
  /\ Goto(c, IF pc[c] = "lan" THEN "done" ELSE "cloud_after_lan")
  /\ due' = (due \/ pc[c] = "lan")
  /\ UNCHANGED <<kind, lan, host, localtype, local, localfail, recent, requestVars, cloudVars,
                 available, target>>

(* A device the cloud reports online gets the command while the connection *)
(* lasts.                                                                  *)
CloudSent(c) ==
  /\ pc[c] \in {"cloud", "cloud_after_lan"}
  /\ Goto(c, "done")
  /\ IF CanCloud(target[c])
       THEN got' = got \cup {c} /\ due' = due
       ELSE got' = got /\ due' = (due \/ pc[c] = "cloud_after_lan")
  /\ UNCHANGED <<kind, lan, host, localtype, local, localfail, recent, requestVars, cloudVars,
                 available, target>>

-----------------------------------------------------------------------------

LanChanged ==
  /\ lan' = ~ lan
  /\ UNCHANGED <<kind, lanVars, requestVars, cloudVars, available, sendVars>>

Background ==
  \/ Tick \/ Lapse
  \/ PingAnswered \/ PingFailed
  \/ PollAnswered \/ PollFailed

Call(c) == LanAnswered(c) \/ LanFailed(c) \/ CloudSent(c)

Next ==
  \/ Announced \/ Background
  \/ LinkChanged \/ CloudUpdate \/ LanChanged
  \/ \E c \in Commands : Send(c) \/ Call(c)

Spec == Init /\ [][Next]_vars

(* Every request has a timeout, the pass is repeated every five seconds    *)
(* and the clock reaches localping.                                        *)
Fairness ==
  /\ WF_vars(Tick) /\ WF_vars(Lapse)
  /\ WF_vars(PingAnswered \/ PingFailed)
  /\ WF_vars(PollAnswered \/ PollFailed)
  /\ \A c \in Commands : WF_vars(Call(c))

FairSpec == Spec /\ Fairness

-----------------------------------------------------------------------------
(* Properties.                                                             *)

(* An entity shows at every moment whether its device can be reached: no   *)
(* change of the flags it is computed from goes without a signal.          *)
AvailabilityTrue ==
  \A d \in Devices : available[d] = (CanCloud(d) \/ CanLocal(d))

(* A device that has been heard or configured and answers from now on is   *)
(* local again, whatever its requests in flight and its counter were.      *)
LocalComesBack == <>[]lan => <>[](local # "no")

(* A device with a known host that answers no more is noticed, polled for  *)
(* statistics or not (run_forever l.318-353).                              *)
LocalGoneIsNoticed == <>[](host /\ ~ lan) => <>[](local # "yes")

CloudWorks == link /\ \A d \in Devices : online[d]

(* A command for a device with a known host that the cloud can pass on     *)
(* arrives, however the local request ends (send l.126-139).               *)
CommandsArrive ==
  [](CloudWorks /\ (local = "yes" => host)) =>
    \A c \in Commands : pc[c] # "idle" ~> c \in got

=============================================================================

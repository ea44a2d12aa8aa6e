------------------------------ MODULE SonoffCloud ------------------------------
(***************************************************************************)
(* The cloud connection of the Sonoff integration over the life of its     *)
(* config entry: async_setup_entry and async_unload_entry of               *)
(* custom_components/sonoff/__init__.py, and XRegistryCloud.start, stop,   *)
(* set_online, run_forever and connect of core/ewelink/cloud.py.           *)
(*                                                                         *)
(* The XRegistry survives a reload of the entry, so one object sees a      *)
(* sequence of run_forever tasks.  pc names the await a task is suspended  *)
(* at; what it does until its next await is one step.  A cancellation is   *)
(* delivered at that await, and the bare except around the login eats it.  *)
(* How long a retry sleeps is left out.                                    *)
(***************************************************************************)

EXTENDS Naturals

CONSTANTS
  Tasks,       \* the run_forever tasks a behaviour may start
  NoTask,      \* self.task = None
  Modes,       \* the modes of the entry, a subset of {"auto", "cloud"}
  MaxOutages   \* bound on the outages of the cloud

ASSUME TasksAssumption ==
  /\ NoTask \notin Tasks
  /\ Modes \subseteq {"auto", "cloud"}

VARIABLES
  setup,      \* where async_setup_entry is
  mode,       \* option "mode" of the entry
  task,       \* XRegistryCloud.task
  pc,         \* the await each task is at
  cancelled,  \* tasks whose CancelledError is not delivered yet
  online,     \* XRegistryCloud.online: "none", "no", "yes"
  auth,       \* XRegistryCloud.auth is set
  reachable,  \* the cloud answers
  outages     \* outages left

vars == <<setup, mode, task, pc, cancelled, online, auth, reachable, outages>>

Setups == {"unloaded", "login", "devices", "waiting", "loaded"}

Awaits == {"new", "start", "login", "connect", "read", "retry", "ended"}

CloudTypeOK ==
  /\ setup \in Setups
  /\ mode \in Modes
  /\ task \in Tasks \cup {NoTask}
  /\ pc \in [Tasks -> Awaits]
  /\ cancelled \subseteq Tasks
  /\ online \in {"none", "no", "yes"}
  /\ auth \in BOOLEAN
  /\ reachable \in BOOLEAN

Init ==
  /\ setup = "unloaded"
  /\ mode \in Modes
  /\ task = NoTask
  /\ pc = [t \in Tasks |-> "new"]
  /\ cancelled = {}
  /\ online = "none"
  /\ auth = FALSE
  /\ reachable \in BOOLEAN
  /\ outages = MaxOutages

-----------------------------------------------------------------------------

(* set_online: a change sends SIGNAL_CONNECTED, which sets the event that  *)
(* dispatcher_wait waits for; setup then adds its entities and returns.    *)
SetOnline(value) ==
  /\ online' = value
  /\ setup' = IF setup = "waiting" /\ value # online THEN "loaded" ELSE setup

Goto(t, await) == pc' = [pc EXCEPT ![t] = await]

(* The task is at an await that may be over.                               *)
At(t, await) == pc[t] = await /\ t \notin cancelled

(* The loop from its top, without a failure to wait for.                   *)
Proceed(t) == Goto(t, IF auth THEN "connect" ELSE "login")

Begin(t) ==
  /\ At(t, "start")
  /\ Proceed(t)
  /\ UNCHANGED <<setup, mode, task, cancelled, online, auth, reachable, outages>>

Woke(t) ==
  /\ At(t, "retry")
  /\ Proceed(t)
  /\ UNCHANGED <<setup, mode, task, cancelled, online, auth, reachable, outages>>

LoggedIn(t) ==
  /\ At(t, "login") /\ reachable
  /\ auth' = TRUE
  /\ Goto(t, "connect")
  /\ UNCHANGED <<setup, mode, task, cancelled, online, reachable, outages>>

(* Fault: a failure is not reported.                                       *)
FailedSilently(t) ==
  /\ Goto(t, "retry")
  /\ UNCHANGED <<setup, online>>

(* fails += 1, continue: the next pass reports the cloud offline before it *)
(* sleeps.                                                                 *)
Failed(t) ==
  /\ Goto(t, "retry")
  /\ SetOnline("no")

LoginFailed(t) ==
  /\ At(t, "login") /\ ~ reachable
  /\ Failed(t)
  /\ UNCHANGED <<mode, task, cancelled, auth, reachable, outages>>

Connected(t) ==
  /\ At(t, "connect") /\ reachable
  /\ Goto(t, "read")
  /\ SetOnline("yes")
  /\ UNCHANGED <<mode, task, cancelled, auth, reachable, outages>>

ConnectFailed(t) ==
  /\ At(t, "connect") /\ ~ reachable
  /\ Failed(t)
  /\ UNCHANGED <<mode, task, cancelled, auth, reachable, outages>>

(* Fault: a broken connection is not followed by another attempt.          *)
ReadEndedForGood(t) ==
  /\ At(t, "read")
  /\ Goto(t, "ended")
  /\ UNCHANGED <<setup, mode, task, cancelled, online, auth, reachable, outages>>

(* The messages end, or processing raises: the loop connects again, online *)
(* as before.                                                              *)
ReadEnded(t) ==
  /\ At(t, "read")
  /\ Proceed(t)
  /\ UNCHANGED <<setup, mode, task, cancelled, online, auth, reachable, outages>>

(* CancelledError at an await.                                             *)
Cancelled(t) ==
  /\ t \in cancelled /\ pc[t] # "login"
  /\ cancelled' = cancelled \ {t}
  /\ Goto(t, "ended")
  /\ UNCHANGED <<setup, mode, task, online, auth, reachable, outages>>

(* CancelledError in the login: caught there like any other failure.       *)
CancelSwallowed(t) ==
  /\ t \in cancelled /\ pc[t] = "login"
  /\ cancelled' = cancelled \ {t}
  /\ Failed(t)
  /\ UNCHANGED <<mode, task, auth, reachable, outages>>

-----------------------------------------------------------------------------
(* The config entry.                                                       *)

SetupBegin ==
  /\ setup = "unloaded"
  /\ \E t \in Tasks : pc[t] = "new"
  /\ setup' = IF auth THEN "devices" ELSE "login"
  /\ UNCHANGED <<mode, task, pc, cancelled, online, auth, reachable, outages>>

(* The login of async_setup_entry; in cloud mode its failure ends the      *)
(* setup, which Home Assistant tries again later.                          *)
SetupLogin ==
  /\ setup = "login"
  /\ auth' = (auth \/ reachable)
  /\ setup' = IF reachable \/ mode = "auto" THEN "devices" ELSE "unloaded"
  /\ UNCHANGED <<mode, task, pc, cancelled, online, reachable, outages>>

(* The devices are set up, the task is created, and the setup waits for    *)
(* the first signal.                                                       *)
CloudStart ==
  /\ setup = "devices"
  /\ \E t \in Tasks :
       /\ pc[t] = "new"
       /\ task' = t
       /\ Goto(t, "start")
  /\ setup' = "waiting"
  /\ UNCHANGED <<mode, cancelled, online, auth, reachable, outages>>

(* Fault: stop leaves online as it was.                                    *)
UnloadOnline ==
  /\ setup = "loaded"
  /\ setup' = "unloaded"
  /\ cancelled' = cancelled \cup {task}
  /\ task' = NoTask
  /\ UNCHANGED <<mode, pc, online, auth, reachable, outages>>

(* async_unload_entry: registry.stop cancels the task without awaiting it. *)
Unload ==
  /\ setup = "loaded"
  /\ setup' = "unloaded"
  /\ cancelled' = cancelled \cup {task}
  /\ task' = NoTask
  /\ online' = "none"
  /\ UNCHANGED <<mode, pc, auth, reachable, outages>>

Outage ==
  /\ reachable /\ outages > 0
  /\ reachable' = FALSE
  /\ outages' = outages - 1
  /\ UNCHANGED <<setup, mode, task, pc, cancelled, online, auth>>

Recovery ==
  /\ ~ reachable
  /\ reachable' = TRUE
  /\ UNCHANGED <<setup, mode, task, pc, cancelled, online, auth, outages>>

-----------------------------------------------------------------------------

TaskStep(t) ==
  \/ Begin(t) \/ Woke(t)
  \/ LoggedIn(t) \/ LoginFailed(t)
  \/ Connected(t) \/ ConnectFailed(t)
  \/ Cancelled(t) \/ CancelSwallowed(t)

SetupStep == SetupLogin \/ CloudStart

Next ==
  \/ \E t \in Tasks : TaskStep(t) \/ ReadEnded(t)
  \/ SetupBegin \/ SetupStep \/ Unload
  \/ Outage \/ Recovery

Spec == Init /\ [][Next]_vars

(* The event loop runs every task that is ready, each request to the cloud *)
(* has a timeout, and the heartbeat of the socket ends the messages when   *)
(* the cloud no longer answers (l.559).  Outages, reloads and connections  *)
(* that end by themselves just happen.                                     *)
Fairness ==
  /\ \A t \in Tasks : WF_vars(TaskStep(t)) /\ WF_vars(~ reachable /\ ReadEnded(t))
  /\ WF_vars(SetupStep)

FairSpec == Spec /\ Fairness

-----------------------------------------------------------------------------
(* Properties.                                                             *)

(* A run_forever task that outlived its stop: nobody will cancel it again. *)
Zombie(t) == pc[t] \notin {"new", "ended"} /\ t # task /\ t \notin cancelled

NoZombie == \A t \in Tasks : ~ Zombie(t)

(* While the entry is not loaded the cloud is not reported online or       *)
(* offline by anyone, unless a task outlived its stop (cloud.py l.496-501).*)
QuietWhenUnloaded ==
  setup \in {"unloaded", "login", "devices"} /\ NoZombie => online = "none"

(* The setup does not wait for ever for the first signal, connected or     *)
(* not, unless a task that outlived its stop has sent it before.           *)
SetupEnds == setup = "waiting" ~> setup # "waiting" \/ ~ NoZombie

(* The task of the loaded entry has a connection and reads its messages.   *)
Reading == \E t \in Tasks : t = task /\ pc[t] = "read"

(* With a cloud that stays reachable, the task of an entry that stays      *)
(* loaded has a connection again after every one that broke, and the cloud *)
(* is shown online for good (cloud.py l.510-548).                          *)
Reconnects ==
  <>[](reachable /\ setup = "loaded") => []<>Reading /\ <>[](online = "yes")

(* A cloud that stays away is shown offline in the end, though the flag is *)
(* left as it was when the connection breaks (cloud.py l.513-514, l.536).  *)
OutageIsShown ==
  <>[](~ reachable /\ setup = "loaded") => <>[](online = "no")

=============================================================================

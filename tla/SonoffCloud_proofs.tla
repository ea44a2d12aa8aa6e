-------------------------- MODULE SonoffCloud_proofs --------------------------
(* Proofs of the invariants of SonoffCloud, for every set of tasks (loads  *)
(* of the entry), every mode and any number of outages.                    *)
EXTENDS SonoffCloud, TLAPS

NotLoaded == setup \in {"unloaded", "login", "devices"}

(* registry.cloud.task is set exactly from the start of a task to its stop *)
TaskInv ==
  /\ NotLoaded => task = NoTask
  /\ ~ NotLoaded => task \in Tasks

IInv == CloudTypeOK /\ TaskInv /\ QuietWhenUnloaded

LEMMA InitInv == Init => IInv
  <1> SUFFICES ASSUME Init PROVE IInv
    OBVIOUS
  <1> USE TasksAssumption DEF Init
  <1>1. CloudTypeOK
    BY DEF CloudTypeOK, Setups, Awaits
  <1>2. TaskInv
    BY DEF TaskInv, NotLoaded
  <1>3. QuietWhenUnloaded
    BY DEF QuietWhenUnloaded
  <1> QED BY <1>1, <1>2, <1>3 DEF IInv

-----------------------------------------------------------------------------
(* A step of task t that is not the delivery of a cancellation, seen from  *)
(* the entry: the task stays alive, and the setup may be told of a change. *)

Alive(t) ==
  /\ pc[t] \notin {"new", "ended"} /\ t \notin cancelled
  /\ \E await \in Awaits \ {"new", "ended"} : Goto(t, await)
  /\ UNCHANGED <<mode, task, cancelled, reachable, outages>>
  /\ auth' \in BOOLEAN
  /\ \/ UNCHANGED <<setup, online>>
     \/ \E value \in {"no", "yes"} : SetOnline(value)

LEMMA LiveSteps ==
  ASSUME NEW t \in Tasks, CloudTypeOK,
         \/ Begin(t) \/ Woke(t) \/ LoggedIn(t) \/ LoginFailed(t)
         \/ Connected(t) \/ ConnectFailed(t) \/ ReadEnded(t)
  PROVE  Alive(t)
  <1> DEFINE Live == Awaits \ {"new", "ended"}
  <1> USE DEF At, Awaits, CloudTypeOK
  <1>1. CASE Begin(t) \/ Woke(t) \/ ReadEnded(t)
    BY <1>1 DEF Begin, Woke, ReadEnded, Proceed, Alive
  <1>2. CASE LoggedIn(t)
    BY <1>2 DEF LoggedIn, Alive
  <1>3. CASE LoginFailed(t) \/ ConnectFailed(t)
    BY <1>3 DEF LoginFailed, ConnectFailed, Failed, Alive
  <1>4. CASE Connected(t)
    BY <1>4 DEF Connected, Alive
  <1> QED BY <1>1, <1>2, <1>3, <1>4

(* What a task reports leaves an entry that is not loaded as it is.        *)
LEMMA ReportInv ==
  ASSUME NEW value \in {"no", "yes"}, SetOnline(value), CloudTypeOK, TaskInv,
         UNCHANGED task
  PROVE  setup' \in Setups /\ online' \in {"none", "no", "yes"} /\ TaskInv'
  BY DEF SetOnline, CloudTypeOK, TaskInv, NotLoaded, Setups

LEMMA AliveInv ==
  ASSUME NEW t \in Tasks, IInv, Alive(t)
  PROVE  IInv'
  <1> USE DEF IInv
  <1>1. pc' \in [Tasks -> Awaits] /\ pc'[t] \notin {"new", "ended"}
    BY DEF Alive, Goto, CloudTypeOK, Awaits
  <1>2. setup' \in Setups /\ online' \in {"none", "no", "yes"} /\ TaskInv'
    BY ReportInv DEF Alive, CloudTypeOK, TaskInv, NotLoaded
  <1>3. CloudTypeOK'
    BY <1>1, <1>2 DEF Alive, CloudTypeOK
  <1>4. QuietWhenUnloaded'
    <2>1. SUFFICES ASSUME NotLoaded', NoZombie' PROVE FALSE
      BY DEF QuietWhenUnloaded, NotLoaded
    <2>2. t # task' /\ t \notin cancelled'
      BY <1>2, <2>1, TasksAssumption DEF TaskInv, Alive
    <2> QED BY <1>1, <2>1, <2>2 DEF NoZombie, Zombie
  <1> QED BY <1>2, <1>3, <1>4

(* A cancellation is delivered, or eaten by the login.                     *)
LEMMA CancelInv ==
  ASSUME NEW t \in Tasks, IInv, Cancelled(t) \/ CancelSwallowed(t)
  PROVE  IInv'
  <1> USE DEF IInv
  <1>1. CASE Cancelled(t)
    <2> USE <1>1 DEF Cancelled
    <2>1. CloudTypeOK'
      BY DEF CloudTypeOK, Goto, Awaits
    <2>2. TaskInv'
      BY DEF TaskInv, NotLoaded
    <2>3. NoZombie' => NoZombie
      BY DEF NoZombie, Zombie, Goto, CloudTypeOK
    <2>4. QuietWhenUnloaded'
      BY <2>3 DEF QuietWhenUnloaded
    <2> QED BY <2>1, <2>2, <2>4
  <1>2. CASE CancelSwallowed(t)
    <2> USE <1>2 DEF CancelSwallowed, Failed
    <2>1. setup' \in Setups /\ online' \in {"none", "no", "yes"} /\ TaskInv'
      BY ReportInv
    <2>2. pc' \in [Tasks -> Awaits] /\ pc'[t] = "retry"
      BY DEF CloudTypeOK, Goto, Awaits
    <2>3. CloudTypeOK'
      BY <2>1, <2>2 DEF CloudTypeOK
    <2>4. QuietWhenUnloaded'
      <3>1. SUFFICES ASSUME NotLoaded', NoZombie' PROVE FALSE
        BY DEF QuietWhenUnloaded, NotLoaded
      <3>2. t # task' /\ t \notin cancelled'
        BY <2>1, <3>1, TasksAssumption DEF TaskInv
      <3> QED BY <2>2, <3>1, <3>2 DEF NoZombie, Zombie
    <2> QED BY <2>1, <2>3, <2>4
  <1> QED BY <1>1, <1>2

(* The entry is set up and unloaded.                                       *)
LEMMA EntryInv ==
  ASSUME IInv, SetupBegin \/ SetupLogin \/ CloudStart \/ Unload
  PROVE  IInv'
  <1> USE DEF IInv
  <1>1. CASE SetupBegin \/ SetupLogin
    <2>1. /\ NotLoaded /\ NotLoaded' /\ setup' \in Setups /\ auth' \in BOOLEAN
          /\ UNCHANGED <<mode, task, pc, cancelled, online, reachable>>
      BY <1>1 DEF SetupBegin, SetupLogin, NotLoaded, Setups, CloudTypeOK
    <2>2. CloudTypeOK'
      BY <2>1 DEF CloudTypeOK
    <2>3. TaskInv'
      BY <2>1 DEF TaskInv
    <2>4. QuietWhenUnloaded'
      BY <2>1 DEF QuietWhenUnloaded, NoZombie, Zombie, NotLoaded
    <2> QED BY <2>2, <2>3, <2>4
  <1>2. CASE CloudStart
    <2> USE <1>2 DEF CloudStart
    <2>1. CloudTypeOK'
      BY DEF CloudTypeOK, Setups, Goto, Awaits
    <2>2. TaskInv' /\ QuietWhenUnloaded'
      BY DEF TaskInv, NotLoaded, QuietWhenUnloaded
    <2> QED BY <2>1, <2>2
  <1>3. CASE Unload
    <2> USE <1>3 DEF Unload
    <2>1. task \in Tasks
      BY DEF TaskInv, NotLoaded
    <2>2. CloudTypeOK'
      BY <2>1 DEF CloudTypeOK, Setups
    <2>3. TaskInv' /\ QuietWhenUnloaded'
      BY DEF TaskInv, NotLoaded, QuietWhenUnloaded
    <2> QED BY <2>2, <2>3
  <1> QED BY <1>1, <1>2, <1>3

LEMMA NextInv == IInv /\ [Next]_vars => IInv'
  <1> SUFFICES ASSUME IInv, [Next]_vars PROVE IInv'
    OBVIOUS
  <1>1. CASE \E t \in Tasks : TaskStep(t) \/ ReadEnded(t)
    <2>1. PICK t \in Tasks : TaskStep(t) \/ ReadEnded(t)
      BY <1>1
    <2>2. CASE Cancelled(t) \/ CancelSwallowed(t)
      BY <2>2, CancelInv
    <2>3. CASE ~ (Cancelled(t) \/ CancelSwallowed(t))
      BY <2>1, <2>3, LiveSteps, AliveInv DEF TaskStep, IInv
    <2> QED BY <2>2, <2>3
  <1>2. CASE SetupBegin \/ SetupStep \/ Unload
    BY <1>2, EntryInv DEF SetupStep
  <1>3. CASE Outage \/ Recovery \/ UNCHANGED vars
    <2>1. /\ UNCHANGED <<setup, mode, task, pc, cancelled, online, auth>>
          /\ reachable' \in BOOLEAN
      BY <1>3 DEF Outage, Recovery, vars, IInv, CloudTypeOK
    <2> QED BY <2>1 DEF IInv, CloudTypeOK, TaskInv, NotLoaded, QuietWhenUnloaded,
                        NoZombie, Zombie
  <1> QED BY <1>1, <1>2, <1>3 DEF Next

-----------------------------------------------------------------------------

(* Every variable of the connection keeps its type; only a task that is    *)
(* set is cancelled.                                                       *)
THEOREM CloudTypeCorrect == Spec => []CloudTypeOK
  <1>1. IInv => CloudTypeOK
    BY DEF IInv
  <1> QED BY <1>1, InitInv, NextInv, PTL DEF Spec

(* While the entry is not loaded nobody reports the cloud online or        *)
(* offline, unless a task outlived its stop (cloud.py l.496-501): the      *)
(* cancellation eaten by the login is the only way that happens.           *)
THEOREM UnloadedIsQuiet == Spec => []QuietWhenUnloaded
  <1>1. IInv => QuietWhenUnloaded
    BY DEF IInv
  <1> QED BY <1>1, InitInv, NextInv, PTL DEF Spec

=============================================================================

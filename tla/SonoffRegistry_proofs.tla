------------------------ MODULE SonoffRegistry_proofs ------------------------
(* Proofs of the invariants of SonoffRegistry, for every set of commands,  *)
(* every set of kinds and any number of requests in flight.                *)
EXTENDS SonoffRegistry, TLAPS

(* The parts of RegistryTypeOK, by the group of variables they are about.  *)
LanTyped ==
  /\ kind \in Kinds
  /\ lan \in BOOLEAN /\ host \in BOOLEAN /\ localtype \in BOOLEAN
  /\ localtype => host
  /\ local \in {"unknown", "yes", "no"}
  /\ local = "no" => host
  /\ localfail \in 0 .. 3
  /\ due \in BOOLEAN /\ recent \in BOOLEAN

RequestsTyped ==
  /\ pings \in 0 .. MaxRequests /\ polls \in 0 .. MaxRequests
  /\ pings > 0 \/ polls > 0 => host

CloudTyped == link \in BOOLEAN /\ online \in [Devices -> BOOLEAN]

EntitiesTyped == available \in [Devices -> BOOLEAN]

SendSteps == {"idle", "lan", "lan_or_cloud", "cloud", "cloud_after_lan", "crashed", "done"}

SendTyped ==
  /\ pc \in [Commands -> SendSteps]
  /\ target \in [Commands -> Devices]
  /\ got \subseteq Commands

Typed == LanTyped /\ RequestsTyped /\ CloudTyped /\ EntitiesTyped /\ SendTyped

LEMMA TypedParts == Typed <=> RegistryTypeOK
  BY DEF Typed, LanTyped, RequestsTyped, CloudTyped, EntitiesTyped, SendTyped,
         SendSteps, RegistryTypeOK

-----------------------------------------------------------------------------

(* An entity is available or not, whatever the signal.                     *)
LEMMA SignalTyped ==
  ASSUME NEW devices, Signal(devices), EntitiesTyped, CloudTyped'
  PROVE  EntitiesTyped'
  <1>1. \A d \in Devices : (CanCloud(d)' \/ CanLocal(d)') \in BOOLEAN
    BY DEF CanCloud, CanLocal
  <1> QED BY <1>1 DEF Signal, EntitiesTyped, Devices

(* A step that signals the main device leaves every entity right.          *)
LEMMA SignalledAll ==
  ASSUME NEW devices, "main" \in devices, Signal(devices)
  PROVE  AvailabilityTrue'
  BY DEF Signal, AvailabilityTrue

(* A step that changes nothing the entities depend on leaves them right.   *)
LEMMA NothingToSignal ==
  ASSUME AvailabilityTrue,
         UNCHANGED <<kind, localtype, local, cloudVars, available>>
  PROVE  AvailabilityTrue'
  BY DEF AvailabilityTrue, CanCloud, CanLocal, cloudVars

LEMMA CallMoves ==
  ASSUME NEW c \in Commands, NEW step \in SendSteps,
         pc \in [Commands -> SendSteps], Goto(c, step)
  PROVE  pc' \in [Commands -> SendSteps]
  BY DEF Goto

-----------------------------------------------------------------------------

IInv == Typed /\ AvailabilityTrue

LEMMA InitInv == Init => IInv
  <1> SUFFICES ASSUME Init PROVE IInv
    OBVIOUS
  <1> USE RegistryAssumption DEF Init
  <1>1. LanTyped
    <2>1. localfail \in 0 .. 3
      OBVIOUS
    <2>2. local \in {"unknown", "yes", "no"} /\ (local = "no" => host) /\ host \in BOOLEAN
      OBVIOUS
    <2>3. due \in BOOLEAN /\ recent \in BOOLEAN
      OBVIOUS
    <2> QED BY <2>1, <2>2, <2>3 DEF LanTyped
  <1>2. RequestsTyped
    BY DEF RequestsTyped
  <1>3. CloudTyped
    BY DEF CloudTyped
  <1>4. EntitiesTyped
    <2>1. \A d \in Devices : (link /\ online[d]) \in BOOLEAN
      OBVIOUS
    <2> QED BY <2>1 DEF EntitiesTyped
  <1>5. SendTyped
    BY DEF SendTyped, SendSteps, Devices
  <1>6. AvailabilityTrue
    BY DEF AvailabilityTrue, CanCloud, CanLocal
  <1> QED BY <1>1, <1>2, <1>3, <1>4, <1>5, <1>6 DEF IInv, Typed

(* A message from the local network.                                       *)
LEMMA AnnouncedInv == IInv /\ Announced => IInv'
  <1> SUFFICES ASSUME IInv, Announced PROVE IInv'
    OBVIOUS
  <1> USE DEF IInv, Typed, Announced
  <1>1. host' \in BOOLEAN /\ (host => host') /\ localtype' \in BOOLEAN /\ (localtype' => host')
    <2>1. HostAnnounced
      OBVIOUS
    <2>2. host \in BOOLEAN /\ localtype \in BOOLEAN /\ (localtype => host)
      BY DEF LanTyped
    <2>3. CASE UNCHANGED <<host, localtype>>
      <3>1. host' = host /\ localtype' = localtype
        BY <2>3
      <3> QED BY ONLY <2>2, <3>1, Zenon
    <2>4. CASE host' = TRUE /\ localtype' = TRUE
      BY ONLY <2>4
    <2> QED BY <2>1, <2>3, <2>4 DEF HostAnnounced
  <1>5. LanTyped'
    <2>1. localfail' \in 0 .. 3
      BY DEF Heard
    <2>2. local' \in {"unknown", "yes", "no"} /\ (local' = "no" => host')
      BY DEF Heard
    <2>3. due' \in BOOLEAN /\ recent' \in BOOLEAN
      BY DEF Heard
    <2> QED BY <1>1, <2>1, <2>2, <2>3 DEF LanTyped
  <1>2. RequestsTyped' /\ CloudTyped' /\ SendTyped'
    BY <1>1 DEF RequestsTyped, CloudTyped, SendTyped, requestVars, cloudVars, sendVars
  <1>3. EntitiesTyped'
    BY <1>2, SignalTyped
  <1>4. AvailabilityTrue'
    BY SignalledAll
  <1> QED BY <1>2, <1>3, <1>4, <1>5

(* The passes of run_forever and the end of its requests.                  *)
LEMMA BackgroundInv == IInv /\ Background => IInv'
  <1> SUFFICES ASSUME IInv, Background PROVE IInv'
    OBVIOUS
  <1> USE RegistryAssumption DEF IInv, Typed
  <1>1. CASE Tick
    <2> USE <1>1 DEF Tick
    <2>1. LanTyped'
      BY DEF LanTyped
    <2>2. RequestsTyped'
      BY DEF RequestsTyped, Start
    <2>3. CloudTyped' /\ EntitiesTyped' /\ SendTyped'
      BY DEF CloudTyped, EntitiesTyped, SendTyped, cloudVars, sendVars
    <2>4. AvailabilityTrue'
      BY NothingToSignal
    <2> QED BY <2>1, <2>2, <2>3, <2>4
  <1>2. CASE Lapse
    <2> USE <1>2 DEF Lapse
    <2>1. LanTyped'
      BY DEF LanTyped
    <2>2. RequestsTyped' /\ CloudTyped' /\ EntitiesTyped' /\ SendTyped'
      BY DEF RequestsTyped, CloudTyped, EntitiesTyped, SendTyped, requestVars,
             cloudVars, sendVars
    <2>3. AvailabilityTrue'
      BY NothingToSignal
    <2> QED BY <2>1, <2>2, <2>3
  <1>3. CASE PingAnswered \/ PollAnswered
    <2>1. /\ Answered
          /\ UNCHANGED <<kind, lan, host, localtype, cloudVars, sendVars>>
          /\ \/ pings > 0 /\ pings' = pings - 1 /\ polls' = polls
             \/ polls > 0 /\ polls' = polls - 1 /\ pings' = pings
      BY <1>3 DEF PingAnswered, PollAnswered
    <2>2. recent' \in BOOLEAN
      BY <2>1 DEF Answered, LanTyped
    <2>3. LanTyped'
      <3>1. localfail' \in 0 .. 3
        BY <2>1 DEF Answered, Heard
      <3>2. local' = "yes" /\ due' \in BOOLEAN
        BY <2>1 DEF Answered, Heard
      <3> QED BY <2>1, <2>2, <3>1, <3>2 DEF LanTyped
    <2>4. RequestsTyped'
      BY <2>1 DEF RequestsTyped
    <2>5. CloudTyped' /\ SendTyped'
      BY <2>1 DEF CloudTyped, SendTyped, cloudVars, sendVars
    <2>6. EntitiesTyped'
      BY <2>1, <2>5, SignalTyped DEF Answered
    <2>7. AvailabilityTrue'
      BY <2>1, SignalledAll DEF Answered
    <2> QED BY <2>3, <2>4, <2>5, <2>6, <2>7
  <1>4. CASE PingFailed
    <2> USE <1>4 DEF PingFailed
    <2>1. localfail' \in 0 .. 3
      BY DEF LanTyped, FailedOnce
    <2>2. RequestsTyped' /\ host
      BY DEF RequestsTyped
    <2>3. LanTyped'
      <3>1. local' \in {"unknown", "yes", "no"} /\ (local' = "no" => host')
        BY <2>2 DEF LanTyped
      <3>2. due' \in BOOLEAN /\ UNCHANGED <<kind, lan, host, localtype, recent>>
        BY DEF LanTyped
      <3> QED BY <2>1, <3>1, <3>2 DEF LanTyped
    <2>4. CloudTyped' /\ SendTyped'
      BY DEF CloudTyped, SendTyped, cloudVars, sendVars
    <2>5. EntitiesTyped'
      BY <2>4, SignalTyped
    <2>6. AvailabilityTrue'
      BY SignalledAll
    <2> QED BY <2>2, <2>3, <2>4, <2>5, <2>6
  <1>5. CASE PollFailed
    <2> USE <1>5 DEF PollFailed
    <2>1. LanTyped'
      BY DEF LanTyped, FailedOnce
    <2>2. RequestsTyped'
      BY DEF RequestsTyped
    <2>3. CloudTyped' /\ EntitiesTyped' /\ SendTyped'
      BY DEF CloudTyped, EntitiesTyped, SendTyped, cloudVars, sendVars
    <2>4. AvailabilityTrue'
      BY NothingToSignal
    <2> QED BY <2>1, <2>2, <2>3, <2>4
  <1> QED BY <1>1, <1>2, <1>3, <1>4, <1>5 DEF Background

(* The connection to the cloud and the messages of the cloud.              *)
LEMMA CloudInv == IInv /\ (LinkChanged \/ CloudUpdate) => IInv'
  <1> SUFFICES ASSUME IInv, LinkChanged \/ CloudUpdate PROVE IInv'
    OBVIOUS
  <1> USE DEF IInv, Typed
  <1>1. CASE LinkChanged
    <2> USE <1>1 DEF LinkChanged
    <2>1. LanTyped' /\ RequestsTyped' /\ SendTyped'
      BY DEF LanTyped, RequestsTyped, SendTyped, lanVars, requestVars, sendVars
    <2>2. CloudTyped'
      BY DEF CloudTyped
    <2>3. EntitiesTyped'
      BY <2>2, SignalTyped
    <2>4. AvailabilityTrue'
      BY SignalledAll DEF Devices
    <2> QED BY <2>1, <2>2, <2>3, <2>4
  <1>2. CASE CloudUpdate
    <2>1. PICK d \in Devices :
            /\ \E value \in BOOLEAN : online' = [online EXCEPT ![d] = value]
            /\ due' \in {due, TRUE, due \/ d = "main"}
            /\ UNCHANGED <<kind, lan, host, localtype, local, localfail, recent,
                           requestVars, link, sendVars>>
            /\ Signal({d})
      BY <1>2 DEF CloudUpdate
    <2>2. due' \in BOOLEAN
      BY <2>1 DEF LanTyped
    <2>3. LanTyped' /\ RequestsTyped' /\ SendTyped'
      BY <2>1, <2>2 DEF LanTyped, RequestsTyped, SendTyped, requestVars, sendVars
    <2>4. CloudTyped'
      BY <2>1 DEF CloudTyped
    <2>5. EntitiesTyped'
      BY <2>1, <2>4, SignalTyped
    <2>6. AvailabilityTrue'
      <3>1. \A e \in Devices \ {d} : online'[e] = online[e]
        BY <2>1 DEF CloudTyped
      <3>2. \A e \in Devices \ {d} : CanCloud(e)' = CanCloud(e) /\ CanLocal(e)' = CanLocal(e)
        BY <2>1, <3>1 DEF CanCloud, CanLocal
      <3> QED BY <2>1, <3>2 DEF Signal, AvailabilityTrue
    <2> QED BY <2>3, <2>4, <2>5, <2>6
  <1> QED BY <1>1, <1>2

(* The calls of send.                                                      *)
LEMMA SendInv ==
  ASSUME NEW c \in Commands, IInv, Send(c) \/ Call(c)
  PROVE  IInv'
  <1> USE DEF IInv, Typed
  <1>1. CASE Send(c)
    <2> USE <1>1 DEF Send
    <2>1. LanTyped' /\ RequestsTyped' /\ CloudTyped' /\ EntitiesTyped'
      BY DEF LanTyped, RequestsTyped, CloudTyped, EntitiesTyped, lanVars,
             requestVars, cloudVars
    <2>2. PICK d \in Devices, step \in SendSteps :
            target' = [target EXCEPT ![c] = d] /\ Goto(c, step)
      BY DEF SendSteps
    <2>3. SendTyped'
      BY <2>2, CallMoves DEF SendTyped
    <2>4. AvailabilityTrue'
      BY NothingToSignal DEF lanVars
    <2> QED BY <2>1, <2>3, <2>4
  <1>2. CASE LanAnswered(c)
    <2> USE <1>2 DEF LanAnswered
    <2>1. RequestsTyped' /\ CloudTyped' /\ UNCHANGED <<host, localtype>>
      BY DEF RequestsTyped, CloudTyped, requestVars, cloudVars, lanVars
    <2>2. SendTyped'
      BY CallMoves DEF SendTyped, SendSteps
    <2>3. CASE UNCHANGED <<host, localtype>> /\ Heard /\ recent' = TRUE /\ Signal({"main"})
      <3>1. localfail' \in 0 .. 3
        BY <2>3 DEF Heard
      <3>2. local' = "yes" /\ due' \in BOOLEAN
        BY <2>3 DEF Heard
      <3>3. LanTyped'
        BY <2>3, <3>1, <3>2 DEF LanTyped
      <3>4. EntitiesTyped' /\ AvailabilityTrue'
        BY <2>1, <2>3, SignalTyped, SignalledAll
      <3> QED BY <2>1, <2>2, <3>3, <3>4
    <2>4. CASE UNCHANGED <<lanVars, available>>
      <3>1. LanTyped' /\ EntitiesTyped'
        BY <2>4 DEF LanTyped, EntitiesTyped, lanVars
      <3>2. AvailabilityTrue'
        BY <2>4, NothingToSignal DEF lanVars
      <3> QED BY <2>1, <2>2, <3>1, <3>2
    <2> QED BY <2>3, <2>4
  <1>3. CASE LanFailed(c) \/ CloudSent(c)
    <2>1. UNCHANGED <<kind, lan, host, localtype, local, localfail, recent, requestVars,
                      cloudVars, available, target>>
      BY <1>3 DEF LanFailed, CloudSent
    <2>2. due' \in BOOLEAN
      BY <1>3 DEF LanFailed, CloudSent, LanTyped
    <2>3. PICK step \in SendSteps : Goto(c, step)
      BY <1>3 DEF LanFailed, CloudSent, SendSteps
    <2>4. got' \subseteq Commands
      BY <1>3 DEF LanFailed, CloudSent, SendTyped
    <2>5. LanTyped' /\ RequestsTyped' /\ CloudTyped' /\ EntitiesTyped'
      BY <2>1, <2>2 DEF LanTyped, RequestsTyped, CloudTyped, EntitiesTyped,
                        requestVars, cloudVars
    <2>6. SendTyped'
      BY <2>1, <2>3, <2>4, CallMoves DEF SendTyped
    <2>7. AvailabilityTrue'
      BY <2>1, NothingToSignal
    <2> QED BY <2>5, <2>6, <2>7
  <1> QED BY <1>1, <1>2, <1>3 DEF Call

-----------------------------------------------------------------------------

LEMMA NextInv == IInv /\ [Next]_vars => IInv'
  <1> SUFFICES ASSUME IInv, [Next]_vars PROVE IInv'
    OBVIOUS
  <1>1. CASE LanChanged
    <2> USE <1>1 DEF LanChanged, IInv, Typed
    <2>1. LanTyped'
      BY DEF LanTyped, lanVars
    <2>2. RequestsTyped' /\ CloudTyped' /\ EntitiesTyped' /\ SendTyped'
      BY DEF RequestsTyped, CloudTyped, EntitiesTyped, SendTyped, requestVars,
             cloudVars, sendVars, lanVars
    <2>3. AvailabilityTrue'
      BY NothingToSignal DEF lanVars
    <2> QED BY <2>1, <2>2, <2>3
  <1>2. CASE UNCHANGED vars
    <2> USE <1>2 DEF vars, lanVars, requestVars, cloudVars, sendVars, IInv, Typed
    <2>1. LanTyped' /\ RequestsTyped' /\ CloudTyped' /\ EntitiesTyped' /\ SendTyped'
      BY DEF LanTyped, RequestsTyped, CloudTyped, EntitiesTyped, SendTyped
    <2>2. AvailabilityTrue'
      BY NothingToSignal
    <2> QED BY <2>1, <2>2
  <1>3. CASE Announced \/ Background \/ LinkChanged \/ CloudUpdate
    BY <1>3, AnnouncedInv, BackgroundInv, CloudInv
  <1>4. CASE \E c \in Commands : Send(c) \/ Call(c)
    BY <1>4, SendInv
  <1> QED BY <1>1, <1>2, <1>3, <1>4 DEF Next

(* Every variable of the registry keeps its type, and what is offline or   *)
(* asked has a host.                                                       *)
THEOREM RegistryTypeCorrect == Spec => []RegistryTypeOK
  <1>1. IInv => RegistryTypeOK
    BY TypedParts DEF IInv
  <1> QED BY <1>1, InitInv, NextInv, PTL DEF Spec

(* Every entity shows at every moment whether its device can be reached:   *)
(* no change of the flags behind it goes without a signal (entity.py       *)
(* l.130-150).                                                             *)
THEOREM AvailabilityIsTrue == Spec => []AvailabilityTrue
  <1>1. IInv => AvailabilityTrue
    BY DEF IInv
  <1> QED BY <1>1, InitInv, NextInv, PTL DEF Spec

=============================================================================

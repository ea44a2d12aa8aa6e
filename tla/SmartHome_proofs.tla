--------------------------- MODULE SmartHome_proofs ---------------------------
(* Proofs about SmartHome, for any number of loads, any values and any     *)
(* number of POSTs at once.                                                *)
EXTENDS SmartHome, SequenceTheorems, TLAPS

(***************************************************************************)
(* What unloading leaves behind.                                           *)
(***************************************************************************)

Closing(g) == g < load \/ (g = load /\ entry # "loaded")

(* Loads that are to come are untouched; a manager that was told to stop   *)
(* only works if it was caught, and a notifier if it was left early.       *)
SoundAt(g) ==
  /\ g > load => con[g] = "none" /\ run[g] = "none"
  /\ Closing(g) =>
       /\ ~ active[g]
       /\ con[g] \in {"connecting", "open"} => caught[g]
       /\ con[g] = "answering" => caught[g] \/ ws[g] # "open"
       /\ con[g] = "waiting" => g = load /\ entry = "unloading"
       /\ run[g] \in {"listening", "running"} => early[g]

LoadSound == \A g \in Generations : SoundAt(g)

(* The types this needs.                                                   *)
LoadTypes ==
  /\ most \in Generations /\ load \in 0 .. most
  /\ entry \in {"loaded", "unloading", "unloaded"}
  /\ load = 0 => entry = "unloaded"
  /\ con = [g \in Managers |-> con[g]] /\ ws = [g \in Managers |-> ws[g]]
  /\ active = [g \in Managers |-> active[g]]
  /\ run = [g \in Generations |-> run[g]]
  /\ early = [g \in Generations |-> early[g]] /\ caught = [g \in Generations |-> caught[g]]

LInv == LoadTypes /\ LoadSound

LEMMA LInit == Init => LInv
  BY HomeAssumption, ReportAssumption
  DEF Init, ReportInit, CloudInit, LInv, LoadTypes, LoadSound, SoundAt, Closing, Generations

LEMMA LNext ==
  ASSUME LInv, Next
  PROVE  LInv'
  <1> USE HomeAssumption, ReportAssumption
      DEF LInv, LoadTypes, LoadSound, SoundAt, Closing, Generations, reportVars, cloudVars, entryVars
  <1>1. CASE Load
    BY <1>1 DEF Load, Goto, SetUpNotifiers
  <1>2. CASE Started
    BY <1>2 DEF Started, SetUpNotifiers
  <1>3. CASE Unload
    <2>1. /\ con' = [con EXCEPT ![load] = IF @ = "open" \/ (@ = "waiting" /\ ws[load] # "open") THEN "over" ELSE @]
          /\ ws' = [ws EXCEPT ![load] = IF @ = "open" THEN "closing" ELSE @]
          /\ active' = [active EXCEPT ![load] = FALSE]
          /\ run' = [run EXCEPT ![load] = IF @ = "listening" THEN @ ELSE "over"]
          /\ early' = [early EXCEPT ![load] = run[load] = "listening"]
          /\ caught' = [caught EXCEPT ![load] = con[load] = "connecting"]
          /\ entry = "loaded" /\ entry' \in {"unloading", "unloaded"}
          /\ entry' = "unloaded" => ws[load] # "open"
          /\ load' = load /\ most' = most
      BY <1>3 DEF Unload, NotifierUnload, DisconnectBegin
    <2>2. load \in Generations /\ load \in Managers
      BY <2>1
    <2>3. LoadTypes'
      BY <2>1
    <2>4. ASSUME NEW g \in Generations, g # load
          PROVE  /\ con'[g] = con[g] /\ ws'[g] = ws[g] /\ active'[g] = active[g]
                 /\ run'[g] = run[g] /\ early'[g] = early[g] /\ caught'[g] = caught[g]
      BY <2>1, <2>4
    <2>5. /\ ~ active'[load]
          /\ con'[load] \in {"connecting", "open"} => caught'[load]
          /\ con'[load] = "answering" => ws'[load] # "open"
          /\ con'[load] = "waiting" => entry' = "unloading"
          /\ run'[load] \in {"listening", "running"} => early'[load]
      BY <2>1, <2>2
    <2>6. SoundAt(load)'
      BY <2>1, <2>2, <2>5
    <2>7. ASSUME NEW g \in Generations, g # load PROVE SoundAt(g)'
      BY <2>1, <2>4, <2>7
    <2> QED BY <2>3, <2>6, <2>7, <2>1
  <1>4. CASE Unloaded
    BY <1>4 DEF Unloaded, DisconnectEnd
  <1>5. CASE Request
    BY <1>5 DEF Request, Asked, Link, Goto
  <1>6. ASSUME NEW g \in Generations, Manager(g) PROVE LInv'
    <2>1. CASE Connected(g)
      BY <1>6, <2>1 DEF Manager, Connected, Goto
    <2>2. CASE ConnectFailed(g)
      BY <1>6, <2>2 DEF Manager, ConnectFailed, TryReconnect, Goto
    <2>3. CASE Answered(g)
      BY <1>6, <2>3 DEF Manager, Answered, Goto
    <2>4. CASE AnswerFailed(g)
      BY <1>6, <2>4 DEF Manager, AnswerFailed, TryReconnect, Goto
    <2> QED BY <1>6, <2>1, <2>2, <2>3, <2>4 DEF Manager, CoroutineStep
  <1>7. ASSUME NEW g \in Generations, Cut(g) PROVE LInv'
    BY <1>7 DEF Cut, SocketStep, Broken, Disconnected, TryReconnect, Goto
  <1>8. ASSUME NEW g \in Generations, Dialled(g) PROVE LInv'
    BY <1>8 DEF Dialled, Redial, Goto
  <1>9. CASE Reported
    BY <1>9 DEF Reported, ReportStep, Change, Timers, InitialReport, ReportStates, Heartbeat,
       PostArrived, PostFailed, NetChanged
  <1>10. CASE Outage
    BY <1>10 DEF Outage, ReachChanged
  <1> QED BY <1>1, <1>2, <1>3, <1>4, <1>5, <1>6, <1>7, <1>8, <1>9, <1>10 DEF Next

LEMMA LInvariance == Spec => []LInv
  <1>1. LInv /\ UNCHANGED vars => LInv'
    BY DEF LInv, LoadTypes, LoadSound, SoundAt, Closing, vars, reportVars, cloudVars, entryVars
  <1> QED BY LInit, LNext, <1>1, PTL DEF Spec

(* Nobody works for an entry that was unloaded but who was caught in the   *)
(* middle of connecting, or waiting for the start.                         *)
THEOREM UnloadedQuiet == Spec => []UnloadedIsQuiet
  <1>1. LInv => UnloadedIsQuiet
    BY HomeAssumption DEF LInv, LoadTypes, LoadSound, SoundAt, Closing, UnloadedIsQuiet, Generations
  <1> QED BY <1>1, LInvariance, PTL

(***************************************************************************)
(* The sequence of POSTs.                                                  *)
(***************************************************************************)

(* The others move up when one is taken out.                               *)
LEMMA RemoveAtShape ==
  ASSUME NEW S, NEW s \in Seq(S), NEW i \in 1 .. Len(s)
  PROVE  /\ RemoveAt(s, i) \in Seq(S)
         /\ Len(RemoveAt(s, i)) = Len(s) - 1
         /\ \A j \in 1 .. Len(s) - 1 : RemoveAt(s, i)[j] = IF j < i THEN s[j] ELSE s[j + 1]
  <1> DEFINE a == SubSeq(s, 1, i - 1)
             b == SubSeq(s, i + 1, Len(s))
  <1>1. a \in Seq(S) /\ Len(a) = i - 1 /\ \A j \in 1 .. i - 1 : a[j] = s[j]
    OBVIOUS
  <1>2. b \in Seq(S) /\ Len(b) = Len(s) - i /\ \A j \in 1 .. Len(s) - i : b[j] = s[j + i]
    OBVIOUS
  <1> HIDE DEF a, b
  <1>0. Len(s) \in Nat /\ i \in Nat
    OBVIOUS
  <1>3. (a \o b) \in Seq(S) /\ Len(a \o b) = Len(s) - 1
    <2>1. (a \o b) \in Seq(S) /\ Len(a \o b) = Len(a) + Len(b)
      BY <1>1, <1>2, ConcatProperties
    <2> QED BY <1>0, <1>1, <1>2, <2>1
  <1>4. ASSUME NEW j \in 1 .. Len(s) - 1
        PROVE  (a \o b)[j] = IF j < i THEN s[j] ELSE s[j + 1]
    <2>1. CASE j < i
      <3>1. j \in 1 .. i - 1 /\ j \in 1 .. Len(a)
        BY <1>0, <1>1, <2>1
      <3>2. (a \o b)[j] = a[j]
        BY <1>1, <1>2, <3>1
      <3> QED BY <1>1, <2>1, <3>1, <3>2
    <2>2. CASE ~ (j < i)
      <3>1. j - (i - 1) \in 1 .. Len(s) - i /\ (j - (i - 1)) + i = j + 1
        BY <2>2
      <3>2. (a \o b)[j] = b[j - (i - 1)]
        BY <1>1, <1>2, <2>2, <3>1
      <3> QED BY <1>2, <2>2, <3>1, <3>2
    <2> QED BY <2>1, <2>2
  <1> QED BY <1>3, <1>4 DEF RemoveAt, a, b

(* The POSTs, once none of them is the newest.                             *)
LEMMA AgedShape ==
  ASSUME posts \in Seq(Posts)
  PROVE  /\ Aged \in Seq(Posts) /\ Len(Aged) = Len(posts)
         /\ \A i \in 1 .. Len(posts) : ~ Aged[i].latest
  <1>1. \A i \in 1 .. Len(posts) : posts[i] \in Posts
    OBVIOUS
  <1>2. \A i \in 1 .. Len(posts) :
          /\ [posts[i] EXCEPT !.latest = FALSE] \in Posts
          /\ ~ [posts[i] EXCEPT !.latest = FALSE].latest
    BY <1>1 DEF Posts
  <1>3. Len(posts) \in Nat
    OBVIOUS
  <1>4. Aged \in [1 .. Len(posts) -> Posts] /\ \A i \in 1 .. Len(posts) : ~ Aged[i].latest
    BY <1>2 DEF Aged
  <1>5. \A n \in Nat : \A f \in [1 .. n -> Posts] : f \in Seq(Posts) /\ Len(f) = n
    BY LenProperties
  <1> QED BY <1>3, <1>4, <1>5

(***************************************************************************)
(* The types.                                                              *)
(***************************************************************************)

LEMMA TInit == Init => SmartTypeOK
  <1> SUFFICES ASSUME Init PROVE SmartTypeOK
    OBVIOUS
  <1>1. PICK e \in Entries : cloud = e.cloud /\ kind = e.kind /\ most = e.loads
    BY DEF Init
  <1>2. cloud \in BOOLEAN /\ kind \in Kinds \cup {"none"} /\ most \in Generations
    BY <1>1, HomeAssumption
  <1>3. ReportTypeOK
    <2>1. posts \in Seq(Posts) /\ Len(posts) <= InFlight
      BY ReportAssumption DEF Init, ReportInit
    <2>2. actual \in Anything /\ known \in Anything
      BY DEF Init, ReportInit, Anything
    <2> QED BY <1>2, <2>1, <2>2 DEF Init, ReportInit, ReportTypeOK
  <1>4. CloudTypeOK
    BY DEF Init, CloudInit, CloudTypeOK
  <1>5. load \in 0 .. most
    BY <1>2 DEF Init, Generations
  <1> QED BY <1>2, <1>3, <1>4, <1>5 DEF Init, SmartTypeOK

(* The steps of the notifiers.                                             *)
LEMMA TReport ==
  ASSUME ReportTypeOK, ReportStep
  PROVE  ReportTypeOK'
  <1> USE ReportAssumption DEF ReportTypeOK
  <1>1. ASSUME NEW new \in Anything, Change(new) PROVE ReportTypeOK'
    BY <1>1 DEF Change, Schedule
  <1>2. ASSUME NEW g \in Generations, InitialReport(g) \/ Heartbeat(g) PROVE ReportTypeOK'
    BY <1>2 DEF InitialReport, Heartbeat, Collect, Schedule
  <1>3. ASSUME NEW g \in Generations, ReportStates(g) PROVE ReportTypeOK'
    <2>1. posts' \in Seq(Posts) /\ Len(posts') <= InFlight
      <3>1. CASE pend[g] \in Values
        <4>1. posts' = Append(Aged, [value |-> pend[g], latest |-> TRUE]) /\ Len(posts) < InFlight
          BY <1>3, <3>1 DEF ReportStates
        <4>2. Aged \in Seq(Posts) /\ Len(Aged) = Len(posts)
          BY AgedShape
        <4>3. [value |-> pend[g], latest |-> TRUE] \in Posts
          BY <3>1 DEF Posts
        <4> QED BY <4>1, <4>2, <4>3
      <3>2. CASE pend[g] \notin Values
        BY <1>3, <3>2 DEF ReportStates
      <3> QED BY <3>1, <3>2
    <2>2. lost' \in BOOLEAN
      BY <1>3 DEF ReportStates
    <2> QED BY <1>3, <2>1, <2>2 DEF ReportStates
  <1>4. ASSUME NEW i \in 1 .. Len(posts), PostArrived(i) \/ PostFailed(i) PROVE ReportTypeOK'
    <2>1. posts \in Seq(Posts) /\ posts' = RemoveAt(posts, i)
      BY <1>4 DEF PostArrived, PostFailed
    <2>2. posts' \in Seq(Posts) /\ Len(posts') = Len(posts) - 1
      BY <2>1, RemoveAtShape
    <2>3. posts[i].value \in Values /\ posts[i].latest \in BOOLEAN
      <3>1. posts[i] \in Posts
        BY <2>1
      <3> QED BY <3>1 DEF Posts
    <2>4. known' \in Anything /\ lost' \in BOOLEAN
      BY <1>4, <2>3 DEF PostArrived, PostFailed, Superseded, Anything
    <2> QED BY <1>4, <2>2, <2>4 DEF PostArrived, PostFailed
  <1>5. CASE NetChanged
    BY <1>5 DEF NetChanged
  <1> QED BY <1>1, <1>2, <1>3, <1>4, <1>5 DEF ReportStep, Timers

LEMMA TNext ==
  ASSUME SmartTypeOK, [Next]_vars
  PROVE  SmartTypeOK'
  <1> USE HomeAssumption, ReportAssumption DEF SmartTypeOK, CloudTypeOK, Generations
  <1>1. CASE Load
    <2>1. load' \in 0 .. most' /\ load + 1 \in Generations /\ entry' = "loaded"
      BY <1>1 DEF Load
    <2>2. UNCHANGED <<most, cloud, started, linked, due, early, caught>>
      BY <1>1 DEF Load
    <2>3. CloudTypeOK'
      BY <1>1, <2>1 DEF Load, Goto, cloudVars
    <2>4. ReportTypeOK'
      <3>1. UNCHANGED <<kind, actual, report, pend, posts, known, net, lost, missed>>
        BY <1>1 DEF Load, SetUpNotifiers
      <3>2. run' \in [Generations -> {"none", "listening", "running", "over"}] /\ first' \in [Generations -> BOOLEAN]
        <4>1. CASE started
          <5>1. /\ run' = [g \in Generations |->
                     IF g \notin {load + 1} THEN run[g] ELSE IF linked THEN "running" ELSE "over"]
                /\ first' = [g \in Generations |-> first[g] \/ (g \in {load + 1} /\ linked)]
            BY <1>1, <4>1 DEF Load, SetUpNotifiers
          <5> QED BY <5>1 DEF ReportTypeOK
        <4>2. CASE ~ started
          BY <1>1, <4>2 DEF Load, ReportTypeOK
        <4> QED BY <4>1, <4>2
      <3> QED BY <3>1, <3>2 DEF ReportTypeOK
    <2> QED BY <2>1, <2>2, <2>3, <2>4
  <1>2. CASE Started
    BY <1>2 DEF Started, SetUpNotifiers, ReportTypeOK, cloudVars
  <1>3. CASE Unload
    BY <1>3 DEF Unload, NotifierUnload, DisconnectBegin, ReportTypeOK
  <1>4. CASE Unloaded
    BY <1>4 DEF Unloaded, DisconnectEnd, ReportTypeOK, reportVars
  <1>5. CASE Request
    <2>1. UNCHANGED <<reportVars, most, cloud, started, entry, load, early, caught>>
      BY <1>5 DEF Request, Link
    <2>2. linked' \in BOOLEAN /\ due' \in BOOLEAN
      BY <1>5 DEF Request, Link
    <2>3. CloudTypeOK'
      <3>1. CASE UNCHANGED cloudVars
        BY <3>1 DEF cloudVars
      <3>2. ASSUME NEW g \in Generations, Asked(g) PROVE CloudTypeOK'
        BY <3>2 DEF Asked, Goto
      <3> QED BY <1>5, <3>1, <3>2 DEF Request
    <2> QED BY <2>1, <2>2, <2>3 DEF ReportTypeOK, reportVars
  <1>6. ASSUME NEW g \in Generations, Manager(g) PROVE SmartTypeOK'
    <2>1. CASE Connected(g)
      BY <1>6, <2>1 DEF Manager, Connected, Goto, ReportTypeOK, reportVars, entryVars
    <2>2. CASE ConnectFailed(g)
      BY <1>6, <2>2 DEF Manager, ConnectFailed, TryReconnect, Goto, ReportTypeOK, reportVars, entryVars
    <2>3. CASE Answered(g)
      BY <1>6, <2>3 DEF Manager, Answered, Goto, ReportTypeOK, reportVars, entryVars
    <2>4. CASE AnswerFailed(g)
      BY <1>6, <2>4 DEF Manager, AnswerFailed, TryReconnect, Goto, ReportTypeOK, reportVars, entryVars
    <2> QED BY <1>6, <2>1, <2>2, <2>3, <2>4 DEF Manager, CoroutineStep
  <1>7. ASSUME NEW g \in Generations, Cut(g) PROVE SmartTypeOK'
    <2>1. CASE Broken(g)
      BY <1>7, <2>1 DEF Cut, Broken, ReportTypeOK, reportVars, entryVars
    <2>2. CASE Disconnected(g)
      BY <1>7, <2>2 DEF Cut, Disconnected, TryReconnect, Goto, ReportTypeOK, reportVars, entryVars
    <2> QED BY <1>7, <2>1, <2>2 DEF Cut, SocketStep
  <1>8. ASSUME NEW g \in Generations, Dialled(g) PROVE SmartTypeOK'
    BY <1>8 DEF Dialled, Redial, Goto, ReportTypeOK, reportVars
  <1>9. CASE Reported
    BY <1>9, TReport DEF Reported, cloudVars, entryVars
  <1>10. CASE Outage
    BY <1>10 DEF Outage, ReachChanged, ReportTypeOK, reportVars, entryVars
  <1>11. CASE UNCHANGED vars
    BY <1>11 DEF vars, ReportTypeOK, reportVars, cloudVars, entryVars
  <1> QED BY <1>1, <1>2, <1>3, <1>4, <1>5, <1>6, <1>7, <1>8, <1>9, <1>10, <1>11 DEF Next

(* All variables of the three modules keep their types.                    *)
THEOREM SmartTypeCorrect == Spec => []SmartTypeOK
  BY TInit, TNext, PTL DEF Spec

(***************************************************************************)
(* What is reported.                                                       *)
(***************************************************************************)

RTypes ==
  /\ kind \in Kinds \cup {"none"} /\ actual \in Anything
  /\ report \in [Generations -> {"none", "armed"}]
  /\ pend \in [Generations -> Anything \cup {"none"}]
  /\ first \in [Generations -> BOOLEAN]
  /\ posts \in Seq(Posts)
  /\ load \in Nat /\ (load > 0 => load \in Generations)

(* One POST at most is the newest, and it is not lost.                     *)
PostsSound ==
  /\ \A i, j \in 1 .. Len(posts) : posts[i].latest /\ posts[j].latest => i = j
  /\ lost => \A i \in 1 .. Len(posts) : ~ posts[i].latest

(* What is pending has a timer, and is the actual value if that is there.  *)
PendSound == \A g \in Generations : pend[g] # "none" => run[g] = "running" /\ report[g] = "armed"

PendActual ==
  actual \in Values /\ (kind = "event" => ~ missed)
    => \A g \in Generations : pend[g] \in {"none", actual}

OnItsWay ==
  \/ \E g \in Generations : pend[g] = actual
  \/ \E i \in 1 .. Len(posts) : posts[i].value = actual /\ posts[i].latest
  \/ known = actual /\ \A i \in 1 .. Len(posts) : ~ posts[i].latest
  \/ lost

WaySound == actual \in Values /\ ~ missed => OnItsWay

(* Everything but an event is reported once at the start.                  *)
StartSound ==
  Reporting /\ ~ first[load] /\ actual \in Values /\ kind \in {"capability", "float"} => ~ missed

RInv == RTypes /\ PostsSound /\ PendSound /\ PendActual /\ WaySound /\ StartSound

LEMMA RInit == Init => RInv
  BY HomeAssumption, ReportAssumption
  DEF Init, ReportInit, RInv, RTypes, PostsSound, PendSound, PendActual, WaySound, StartSound,
      Reporting, Anything, Kinds, Posts

(* A step that leaves the reports alone, and the load's notifier.          *)
LEMMA ROther ==
  ASSUME RInv, UNCHANGED <<reportVars, load>>
  PROVE  RInv'
  BY DEF RInv, RTypes, PostsSound, PendSound, PendActual, WaySound, OnItsWay, StartSound, Reporting, reportVars

(* A POST that ends: the others keep their order.                          *)
LEMMA REnded ==
  ASSUME RInv, NEW i \in 1 .. Len(posts), PostArrived(i) \/ PostFailed(i), UNCHANGED load
  PROVE  RInv'
  <1> USE DEF RInv
  <1> DEFINE n == Len(posts) - 1
  <1>1. /\ posts' \in Seq(Posts) /\ Len(posts') = n
        /\ \A j \in 1 .. n : posts'[j] = IF j < i THEN posts[j] ELSE posts[j + 1]
    <2>1. posts \in Seq(Posts) /\ posts' = RemoveAt(posts, i)
      BY DEF PostArrived, PostFailed, RTypes
    <2> QED BY RemoveAtShape, <2>1
  <1>2. UNCHANGED <<kind, actual, run, first, report, pend, missed>>
    BY DEF PostArrived, PostFailed
  <1>3. Len(posts) \in Nat
    BY DEF RTypes
  <1>4. ASSUME NEW j \in 1 .. n
        PROVE  \E k \in 1 .. Len(posts) : k # i /\ posts'[j] = posts[k] /\ k = IF j < i THEN j ELSE j + 1
    BY <1>1, <1>3
  <1>5. ASSUME NEW k \in 1 .. Len(posts), k # i
        PROVE  \E j \in 1 .. n : posts'[j] = posts[k]
    <2>1. CASE k < i
      BY <1>1, <1>3, <2>1
    <2>2. CASE ~ (k < i)
      <3>1. k - 1 \in 1 .. n /\ ~ (k - 1 < i) /\ (k - 1) + 1 = k
        BY <1>3, <1>5, <2>2
      <3> QED BY <1>1, <3>1
    <2> QED BY <2>1, <2>2
  <1>6. lost' => \A j \in 1 .. n : ~ posts'[j].latest
    <2>1. lost' => lost \/ posts[i].latest \/ Superseded(i)
      BY DEF PostArrived, PostFailed
    <2>2. lost => \A k \in 1 .. Len(posts) : ~ posts[k].latest
      BY DEF PostsSound
    <2>3. posts[i].latest => \A k \in 1 .. Len(posts) : k # i => ~ posts[k].latest
      BY DEF PostsSound
    <2>4. Superseded(i) => \A k \in 1 .. Len(posts) : ~ posts[k].latest
      BY <1>3 DEF Superseded, RTypes
    <2> QED BY <1>4, <2>1, <2>2, <2>3, <2>4
  <1>7. PostsSound'
    <2>1. ASSUME NEW j \in 1 .. n, NEW k \in 1 .. n, posts'[j].latest, posts'[k].latest
          PROVE  j = k
      <3>1. PICK p \in 1 .. Len(posts) : posts'[j] = posts[p] /\ p = IF j < i THEN j ELSE j + 1
        BY <1>4
      <3>2. PICK q \in 1 .. Len(posts) : posts'[k] = posts[q] /\ q = IF k < i THEN k ELSE k + 1
        BY <1>4
      <3>3. p = q
        BY <2>1, <3>1, <3>2 DEF PostsSound
      <3> HIDE DEF RInv, n
      <3> j \in Int /\ k \in Int /\ i \in Int
        BY <1>3 DEF n
      <3> QED BY <3>1, <3>2, <3>3
    <2> QED BY <1>1, <1>6, <2>1 DEF PostsSound
  <1>8. WaySound'
    <2> SUFFICES ASSUME actual \in Values, ~ missed, ~ lost', \A g \in Generations : pend[g] # actual
                 PROVE  OnItsWay'
      BY <1>2 DEF WaySound, OnItsWay
    <2>1. ~ lost /\ ~ Superseded(i)
      BY DEF PostArrived, PostFailed
    <2>2. \/ \E k \in 1 .. Len(posts) : posts[k].value = actual /\ posts[k].latest
          \/ known = actual /\ \A k \in 1 .. Len(posts) : ~ posts[k].latest
      BY <2>1 DEF WaySound, OnItsWay
    <2>3. ~ \A k \in 1 .. Len(posts) : ~ posts[k].latest
      BY <2>1, <1>3 DEF Superseded, RTypes
    <2>4. PICK k \in 1 .. Len(posts) : posts[k].value = actual /\ posts[k].latest
      BY <2>2, <2>3
    <2>5. CASE k = i
      <3>1. PostArrived(i)
        BY <2>4, <2>5 DEF PostFailed
      <3>2. known' = actual'
        BY <1>2, <2>4, <2>5, <3>1 DEF PostArrived
      <3>3. \A j \in 1 .. n : ~ posts'[j].latest
        BY <1>4, <2>4, <2>5 DEF PostsSound
      <3> QED BY <1>1, <3>2, <3>3 DEF OnItsWay
    <2>6. CASE k # i
      BY <1>1, <1>2, <1>5, <2>4, <2>6 DEF OnItsWay
    <2> QED BY <2>5, <2>6
  <1>9. RTypes' /\ PendSound' /\ PendActual' /\ StartSound'
    BY <1>1, <1>2 DEF RTypes, PendSound, PendActual, StartSound, Reporting
  <1> QED BY <1>7, <1>8, <1>9

(* A change is told to every notifier that runs, or it is missed.          *)
LEMMA RChange ==
  ASSUME RInv, NEW new \in Anything, Change(new), UNCHANGED load
  PROVE  RInv'
  <1> USE ReportAssumption DEF RInv
  <1>1. /\ UNCHANGED <<kind, run, first, posts, lost, known>>
        /\ actual' = new /\ new # actual
    BY DEF Change
  <1>2. RTypes'
    BY <1>1 DEF RTypes, Change, Schedule
  <1>3. PostsSound'
    BY <1>1 DEF PostsSound
  <1>4. \A g \in Generations : pend'[g] = IF run[g] = "running" /\ Differs(actual, new) THEN new ELSE pend[g]
    BY DEF Change, Running
  <1>5. PendSound'
    <2>1. \A g \in Generations : report'[g] =
            IF run[g] = "running" /\ pend'[g] # "none" /\ report[g] = "none" THEN "armed" ELSE report[g]
      BY DEF Change, Schedule, Running
    <2> QED BY <1>1, <1>4, <2>1 DEF PendSound, RTypes
  <1>6. ASSUME actual' \in Values
        PROVE  /\ missed' = ~ (Differs(actual, new) /\ \E g \in Generations : run[g] = "running")
               /\ kind # "event" => Differs(actual, new)
    BY <1>1, <1>6 DEF Change, Running, Differs
  <1>7. PendActual'
    BY <1>1, <1>4, <1>6 DEF PendActual, PendSound
  <1>8. WaySound'
    BY <1>1, <1>4, <1>6 DEF WaySound, OnItsWay
  <1>9. StartSound'
    <2>1. kind # "event" /\ actual' \in Values /\ Reporting => ~ missed'
      BY <1>6 DEF Reporting, RTypes
    <2> QED BY <1>1, <2>1 DEF StartSound, Reporting
  <1> QED BY <1>2, <1>3, <1>5, <1>7, <1>8, <1>9

(* The initial report, and the heartbeat.                                  *)
LEMMA RCollect ==
  ASSUME RInv, NEW g \in Generations, InitialReport(g) \/ Heartbeat(g), UNCHANGED load
  PROVE  RInv'
  <1> USE ReportAssumption DEF RInv
  <1>1. PICK kinds \in SUBSET {"capability", "float"} :
          /\ Collect(g, kinds) /\ run[g] = "running"
          /\ UNCHANGED <<kind, actual, run, posts, known, lost>>
          /\ \/ UNCHANGED first
             \/ first' = [first EXCEPT ![g] = FALSE] /\ kinds = {"capability", "float"}
    BY DEF InitialReport, Heartbeat
  <1>2. /\ pend' = IF kind \in kinds THEN [pend EXCEPT ![g] = actual] ELSE pend
        /\ missed' = (missed /\ ~ (kind \in kinds /\ actual # "gone"))
        /\ report' = [h \in Generations |->
             IF h = g /\ pend'[h] # "none" /\ report[h] = "none" THEN "armed" ELSE report[h]]
    BY <1>1 DEF Collect, Schedule
  <1>3. RTypes'
    BY <1>1, <1>2 DEF RTypes
  <1>4. PostsSound' /\ PendSound' /\ PendActual' /\ WaySound'
    BY <1>1, <1>2 DEF PostsSound, PendSound, PendActual, WaySound, OnItsWay, RTypes
  <1>5. StartSound'
    BY <1>1, <1>2 DEF StartSound, Reporting, RTypes
  <1> QED BY <1>3, <1>4, <1>5

(* The timer fires: what was collected is in the newest POST.              *)
LEMMA RSent ==
  ASSUME RInv, NEW g \in Generations, ReportStates(g), UNCHANGED load
  PROVE  RInv'
  <1> USE ReportAssumption DEF RInv
  <1>1. /\ UNCHANGED <<kind, actual, run, first, known, missed>>
        /\ pend' = [pend EXCEPT ![g] = "none"] /\ report' = [report EXCEPT ![g] = "none"]
    BY DEF ReportStates
  <1>2. PendSound' /\ PendActual' /\ StartSound'
    BY <1>1 DEF RTypes, PendSound, PendActual, StartSound, Reporting
  <1>3. CASE pend[g] \in Values
    <2>1. /\ posts' = Append(Aged, [value |-> pend[g], latest |-> TRUE])
          /\ ~ lost' /\ lost' = FALSE
      BY <1>3 DEF ReportStates
    <2>2. /\ Aged \in Seq(Posts) /\ Len(Aged) = Len(posts)
          /\ \A i \in 1 .. Len(posts) : ~ Aged[i].latest
      BY AgedShape DEF RTypes
    <2>3. /\ posts' \in Seq(Posts) /\ Len(posts') = Len(posts) + 1 /\ Len(posts) \in Nat
          /\ posts'[Len(posts) + 1] = [value |-> pend[g], latest |-> TRUE]
          /\ \A i \in 1 .. Len(posts) : posts'[i] = Aged[i]
      BY <1>3, <2>1, <2>2 DEF Posts, RTypes
    <2>4. PostsSound'
      BY <2>1, <2>2, <2>3 DEF PostsSound
    <2>5. RTypes'
      BY <1>1, <2>3 DEF RTypes
    <2>6. WaySound'
      <3> SUFFICES ASSUME actual \in Values, ~ missed PROVE OnItsWay'
        BY <1>1 DEF WaySound
      <3>1. pend[g] = actual
        BY <1>3 DEF PendActual
      <3>2. Len(posts) + 1 \in 1 .. Len(posts')
        BY <2>3
      <3> QED BY <1>1, <2>3, <3>1, <3>2 DEF OnItsWay
    <2> QED BY <1>2, <2>4, <2>5, <2>6
  <1>4. CASE pend[g] \notin Values
    <2>1. UNCHANGED <<posts, lost>>
      BY <1>4 DEF ReportStates
    <2>2. RTypes' /\ PostsSound'
      BY <1>1, <2>1 DEF RTypes, PostsSound
    <2>3. WaySound'
      <3> SUFFICES ASSUME actual \in Values, ~ missed PROVE OnItsWay'
        BY <1>1 DEF WaySound
      <3>1. pend[g] # actual
        BY <1>4
      <3> QED BY <1>1, <2>1, <3>1 DEF OnItsWay, WaySound, RTypes
    <2> QED BY <1>2, <2>2, <2>3
  <1> QED BY <1>3, <1>4

(* A notifier that starts has its initial report before it.                *)
LEMMA RSetUp ==
  ASSUME RInv, NEW gs \in SUBSET Generations, SetUpNotifiers(gs),
         \A g \in gs : run[g] # "running",
         UNCHANGED load \/ load' \in gs
  PROVE  RInv'
  <1> USE DEF RInv
  <1>1. UNCHANGED <<kind, actual, report, pend, posts, known, lost, missed>>
    BY DEF SetUpNotifiers
  <1>2. PostsSound' /\ PendActual' /\ WaySound'
    BY <1>1 DEF PostsSound, PendActual, WaySound, OnItsWay
  <1>5. RTypes'
    <2>1. first' \in [Generations -> BOOLEAN]
      BY DEF RTypes, SetUpNotifiers
    <2>2. load' \in Nat /\ (load' > 0 => load' \in Generations)
      <3>1. load \in Nat /\ (load > 0 => load \in Generations)
        BY DEF RTypes
      <3>2. Generations \subseteq Nat
        BY DEF Generations
      <3> HIDE DEF RInv
      <3> QED BY <3>1, <3>2
    <2> QED BY <1>1, <2>1, <2>2 DEF RTypes
  <1>3. PendSound'
    BY <1>1 DEF PendSound, SetUpNotifiers
  <1>4. StartSound'
    <2> SUFFICES ASSUME Reporting', ~ first'[load'] PROVE UNCHANGED load /\ Reporting /\ ~ first[load]
      BY <1>1 DEF StartSound
    <2>1. load' \in Generations /\ run'[load'] = "running"
      BY <1>5 DEF Reporting, RTypes
    <2>2. load' \notin gs
      BY <2>1 DEF SetUpNotifiers
    <2>3. UNCHANGED load /\ run'[load] = run[load]
      BY <2>1, <2>2 DEF SetUpNotifiers
    <2> QED BY <2>1, <2>3 DEF Reporting, SetUpNotifiers
  <1> QED BY <1>5, <1>2, <1>3, <1>4

LEMMA RLoad ==
  ASSUME LInv, RInv, Load
  PROVE  RInv'
  <1>1. load + 1 \in Generations /\ load' = load + 1 /\ load + 1 > load
    BY ReportAssumption DEF LInv, LoadTypes, Load, Generations
  <1>2. run[load + 1] = "none"
    BY <1>1 DEF LInv, LoadSound, SoundAt
  <1>3. CASE started
    BY <1>1, <1>2, <1>3, RSetUp DEF Load
  <1>4. CASE ~ started
    BY <1>1, <1>2, <1>4
    DEF Load, RInv, RTypes, PostsSound, PendSound, PendActual, WaySound, OnItsWay, StartSound, Reporting,
        LInv, LoadTypes
  <1> QED BY <1>3, <1>4

(* What a notifier takes away with it is missed.                           *)
LEMMA RUnload ==
  ASSUME LInv, RInv, Unload
  PROVE  RInv'
  <1> USE ReportAssumption DEF RInv
  <1>1. /\ UNCHANGED <<kind, actual, posts, known, lost, load>>
        /\ run' = [run EXCEPT ![load] = IF @ = "listening" THEN @ ELSE "over"]
        /\ first' = [first EXCEPT ![load] = FALSE]
        /\ report' = [report EXCEPT ![load] = "none"]
        /\ pend' = [pend EXCEPT ![load] = "none"]
        /\ missed' = (missed \/ pend[load] # "none")
    BY DEF Unload, NotifierUnload
  <1>2. load \in Generations /\ run = [g \in Generations |-> run[g]]
    BY DEF Unload, LInv, LoadTypes, Generations
  <1>3. RTypes' /\ PostsSound' /\ PendActual'
    BY <1>1, <1>2 DEF RTypes, PostsSound, PendActual
  <1>4. PendSound'
    BY <1>1, <1>2 DEF PendSound, RTypes
  <1>5. StartSound'
    BY <1>1, <1>2 DEF StartSound, Reporting
  <1>6. WaySound'
    <2> SUFFICES ASSUME actual \in Values, ~ missed, pend[load] = "none" PROVE OnItsWay'
      BY <1>1 DEF WaySound
    <2>1. \A g \in Generations : pend[g] = actual => pend'[g] = actual
      BY <1>1, <1>2 DEF RTypes
    <2> QED BY <1>1, <2>1 DEF WaySound, OnItsWay
  <1> QED BY <1>3, <1>4, <1>5, <1>6

LEMMA RNext ==
  ASSUME LInv, RInv, Next
  PROVE  RInv'
  <1>1. CASE Load
    BY <1>1, RLoad
  <1>2. CASE Started
    BY <1>2, RSetUp DEF Started
  <1>3. CASE Unload
    BY <1>3, RUnload
  <1>4. CASE Unloaded
    BY <1>4, ROther DEF Unloaded
  <1>5. CASE Request
    BY <1>5, ROther DEF Request, Link, entryVars
  <1>6. ASSUME NEW g \in Generations, Manager(g) \/ Cut(g) \/ Dialled(g) PROVE RInv'
    BY <1>6, ROther DEF Manager, Cut, Dialled, entryVars
  <1>7. CASE Reported
    <2> UNCHANGED load
      BY <1>7 DEF Reported, entryVars
    <2>1. ASSUME NEW new \in Anything, Change(new) PROVE RInv'
      BY <2>1, RChange
    <2>2. ASSUME NEW g \in Generations, Timers(g) \/ Heartbeat(g) PROVE RInv'
      BY <2>2, RCollect, RSent DEF Timers
    <2>3. ASSUME NEW i \in 1 .. Len(posts), PostArrived(i) \/ PostFailed(i) PROVE RInv'
      BY <2>3, REnded
    <2>4. CASE NetChanged
      BY <2>4 DEF NetChanged, RInv, RTypes, PostsSound, PendSound, PendActual, WaySound, OnItsWay,
         StartSound, Reporting
    <2> QED BY <1>7, <2>1, <2>2, <2>3, <2>4 DEF Reported, ReportStep
  <1>8. CASE Outage
    BY <1>8, ROther DEF Outage, entryVars
  <1> QED BY <1>1, <1>2, <1>3, <1>4, <1>5, <1>6, <1>7, <1>8 DEF Next

(* What Yandex should know is pending with a timer, on its way, known, or  *)
(* was lost by the network.                                                *)
THEOREM StatesArrive == Spec => []NothingForgotten
  <1>1. RInv => NothingForgotten
    <2> SUFFICES ASSUME RInv, Reporting, ~ first[load], actual \in Values, kind # "none",
                        kind = "event" => ~ missed
                 PROVE  \/ \E g \in Generations : pend[g] = actual /\ report[g] = "armed"
                        \/ \E i \in DOMAIN posts : posts[i] = [value |-> actual, latest |-> TRUE]
                        \/ known = actual /\ \A i \in DOMAIN posts : ~ posts[i].latest
                        \/ lost
      BY DEF NothingForgotten
    <2>1. ~ missed
      BY DEF RInv, RTypes, Kinds, StartSound
    <2>2. OnItsWay
      BY <2>1 DEF RInv, WaySound
    <2>3. posts \in Seq(Posts) /\ DOMAIN posts = 1 .. Len(posts)
      BY DEF RInv, RTypes
    <2>4. \A g \in Generations : pend[g] = actual => report[g] = "armed"
      BY ReportAssumption DEF RInv, PendSound
    <2>5. ASSUME NEW i \in 1 .. Len(posts), posts[i].value = actual, posts[i].latest
          PROVE  posts[i] = [value |-> actual, latest |-> TRUE]
      <3>1. posts[i] \in Posts
        BY <2>3
      <3> QED BY <2>5, <3>1 DEF Posts
    <2> QED BY <2>2, <2>3, <2>4, <2>5 DEF OnItsWay
  <1>2. LInv /\ RInv /\ [Next]_vars => RInv'
    <2>1. LInv /\ RInv /\ UNCHANGED vars => RInv'
      BY ROther DEF vars, entryVars
    <2> QED BY <2>1, RNext
  <1> QED BY <1>1, <1>2, RInit, LInvariance, PTL DEF Spec

=============================================================================

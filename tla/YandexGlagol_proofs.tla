-------------------------- MODULE YandexGlagol_proofs --------------------------
(* Proofs about YandexGlagol, for any number of loops and addresses.       *)
EXTENDS YandexGlagol, TLAPS

(* A loop has a socket exactly while it reads it or closes it, and ws is   *)
(* the socket of such a loop.                                              *)
Sockets ==
  /\ \A l \in Loops : pc[l] \in {"reading", "cleaning"} <=> sock[l] # "none"
  /\ ws # None => sock[ws] # "none"

(* What holds of the only loop.                                            *)
Single ==
  ~ doubled =>
    /\ \A l, m \in Alive : l = m
    /\ \A l \in Loops : sock[l] # "none" => ws = l
    /\ local => ws # None

(* A loop that goes on without a url was connecting when it was dropped,   *)
(* or will be refused.                                                     *)
Dropped ==
  url = None /\ ~ doubled =>
    \A l \in Loops :
      /\ pc[l] = "connecting" => caught[l] \/ to[l] = None
      /\ pc[l] = "reading" /\ sock[l] = "open" => caught[l]

(* Whoever connects, or may have to start again, has been told a host.     *)
Known ==
  /\ local => Alive # {}
  /\ Alive # {} \/ restarting => host # None

IInv == GlagolTypeOK /\ Known /\ Sockets /\ Single /\ Dropped

LEMMA InitInv == Init => IInv
  BY AddressAssumption
  DEF Init, IInv, GlagolTypeOK, Places, Known, Sockets, Single, Dropped, Alive

LEMMA StartInv ==
  ASSUME IInv, NEW h \in Addresses, StartOrRestart(h), local' = local
  PROVE  Sockets' /\ Single' /\ Dropped' /\ Alive \subseteq Alive'
         /\ url' \in Addresses
         /\ ws' \in Loops \cup {None} /\ token' \in {"none", "good", "expired"}
         /\ doubled' \in BOOLEAN /\ pc' \in [Loops -> Places]
         /\ to' \in [Loops -> Addresses \cup {None}]
         /\ sock' \in [Loops -> {"none", "open", "closed", "broken"}]
         /\ caught' \in [Loops -> BOOLEAN]
  <1> USE AddressAssumption DEF IInv, GlagolTypeOK, Places
  <1>1. CASE url = None
    <2>1. /\ url' = h /\ UNCHANGED <<ws, token, to, sock, caught>>
          /\ \E l \in Loops \ Alive :
               Goto(l, "pausing") /\ doubled' = (doubled \/ Alive # {})
      BY <1>1, Zenon DEF StartOrRestart
    <2>2. PICK l \in Loops \ Alive :
            Goto(l, "pausing") /\ doubled' = (doubled \/ Alive # {})
      BY <2>1
    <2>3. Sockets'
      BY <2>1, <2>2 DEF Sockets, Goto, Alive
    <2>4. Single'
      BY <2>1, <2>2 DEF Single, Goto, Alive
    <2>5. Dropped' /\ Alive \subseteq Alive'
      BY <2>1, <2>2 DEF Dropped, Goto, Alive
    <2> QED BY <2>1, <2>2, <2>3, <2>4, <2>5 DEF Goto
  <1>2. CASE url # None /\ <<h, url>> \notin Within
    <2>1. url' = h /\ CloseSocket /\ UNCHANGED <<ws, token, pc, to, caught, doubled>>
      BY <1>2, Zenon DEF StartOrRestart
    <2> QED BY <2>1 DEF CloseSocket, Sockets, Single, Dropped, Alive
  <1>3. CASE url # None /\ <<h, url>> \in Within
    <2>1. UNCHANGED socketVars
      BY <1>3, Zenon DEF StartOrRestart
    <2> QED BY <1>3, <2>1 DEF socketVars, Sockets, Single, Dropped, Alive
  <1> QED BY <1>1, <1>2, <1>3

LEMMA StopInv ==
  ASSUME IInv, Stop, local' = local
  PROVE  Sockets' /\ Single' /\ Dropped' /\ url' = None
         /\ ws' = ws /\ token' = token /\ doubled' = doubled /\ pc' = pc /\ to' = to
         /\ Alive' = Alive
         /\ sock' \in [Loops -> {"none", "open", "closed", "broken"}]
         /\ caught' \in [Loops -> BOOLEAN]
  <1> USE AddressAssumption DEF IInv, GlagolTypeOK, Places
  <1>1. Sockets' /\ Single'
    BY DEF Stop, CloseSocket, Sockets, Single, Alive
  <1>2. Dropped'
    BY DEF Stop, CloseSocket, Sockets, Single, Dropped
  <1> QED BY <1>1, <1>2 DEF Stop, CloseSocket, Alive

LEMMA SameInv ==
  ASSUME IInv, UNCHANGED socketVars, UNCHANGED <<local, restarting>>,
         at' \in Addresses, news' \in BOOLEAN,
         life' \in {"new", "added", "removed"},
         host' \in Addresses \/ host' = host
  PROVE  IInv'
  <1> USE AddressAssumption DEF IInv, socketVars
  <1>1. GlagolTypeOK'
    BY DEF GlagolTypeOK
  <1>2. Known'
    BY DEF Known, Alive
  <1>3. Sockets' /\ Single' /\ Dropped'
    BY DEF Sockets, Single, Dropped, Alive
  <1> QED BY <1>1, <1>2, <1>3

LEMMA EntityInv ==
  ASSUME IInv,
         Announced \/ Added \/ Removed \/ RestartStops \/ RestartStarts
  PROVE  IInv'
  <1> USE AddressAssumption
  <1>1. CASE Announced
    <2> SUFFICES ASSUME ~ local PROVE IInv'
      BY <1>1, SameInv DEF Announced, IInv, GlagolTypeOK, Known
    <2>1. host' = at /\ at \in Addresses
      BY <1>1 DEF Announced, IInv, GlagolTypeOK
    <2>2. CASE life = "new"
      BY <1>1, <2>1, <2>2, SameInv DEF Announced
    <2>3. CASE life # "new"
      <3>1. StartOrRestart(at) /\ UNCHANGED <<at, life, local, restarting>> /\ news' = FALSE
        BY <1>1, <2>3, Zenon DEF Announced
      <3>2. GlagolTypeOK' /\ Sockets' /\ Single' /\ Dropped'
        BY <2>1, <3>1, StartInv DEF IInv, GlagolTypeOK
      <3>3. Known'
        BY <2>1, <3>1 DEF Known
      <3> QED BY <3>2, <3>3 DEF IInv
    <2> QED BY <2>2, <2>3
  <1>2. CASE Added
    <2>1. CASE host = None
      BY <1>2, <2>1, SameInv DEF Added, IInv, GlagolTypeOK
    <2>2. CASE host # None
      <3>1. host \in Addresses /\ StartOrRestart(host) /\ local' = local
        BY <1>2, <2>2 DEF Added, IInv, GlagolTypeOK
      <3> QED BY <1>2, <2>2, <3>1, StartInv DEF Added, IInv, GlagolTypeOK, Known
    <2> QED BY <2>1, <2>2
  <1>3. CASE Removed
    BY <1>3, StopInv DEF Removed, IInv, GlagolTypeOK, Known
  <1>4. CASE RestartStops
    BY <1>4, StopInv DEF RestartStops, IInv, GlagolTypeOK, Known
  <1>5. CASE RestartStarts
    <2>1. host \in Addresses
      BY <1>5 DEF RestartStarts, IInv, GlagolTypeOK, Known
    <2> QED BY <1>5, <2>1, StartInv DEF RestartStarts, IInv, GlagolTypeOK, Known
  <1> QED BY <1>1, <1>2, <1>3, <1>4, <1>5

(* After a failure, or the end of finally.                                 *)
LEMMA AgainInv ==
  ASSUME IInv, NEW l \in Loops, Failed(l) \/ Cleaned(l),
         UNCHANGED outsideVars
  PROVE  IInv'
  <1> USE AddressAssumption DEF IInv, outsideVars, CloudMode, LocalMode
  <1>1. l \in Alive /\ pc[l] \in {"token", "connecting", "cleaning"} /\ Again(l)
    BY DEF Failed, Cleaned, Alive, GlagolTypeOK, Places
  <1>2. GlagolTypeOK'
    BY DEF Failed, Cleaned, Again, Goto, GlagolTypeOK, Places
  <1>3. Alive' = IF url = None THEN Alive \ {l} ELSE Alive
    BY <1>1 DEF Again, Goto, Alive, GlagolTypeOK, Places
  <1>4. Known'
    BY <1>1, <1>3 DEF Known, Again
  <1>5. Sockets'
    BY <1>1 DEF Failed, Cleaned, Again, Goto, Sockets, GlagolTypeOK
  <1>6. UNCHANGED url /\ ~ local'
    BY DEF Failed, Cleaned, Again
  <1>7. CASE doubled' /\ doubled
    BY <1>2, <1>4, <1>5, <1>7 DEF Single, Dropped
  <1>8. CASE ~ doubled
    <2>1. ~ doubled' /\ \A m \in Alive : m = l
      BY <1>1, <1>8 DEF Again, Single
    <2>2. \A m \in Loops : sock'[m] # "none" => m = l /\ sock'[m] = sock[m]
      BY <2>1, <1>1 DEF Failed, Cleaned, Sockets, Alive, GlagolTypeOK
    <2>3. Single'
      BY <1>3, <1>5, <1>6, <1>8, <2>1, <2>2 DEF Single, Failed, Cleaned, Sockets, GlagolTypeOK
    <2>4. Dropped'
      BY <1>1, <1>8, <2>1 DEF Dropped, Failed, Cleaned, Again, Goto, GlagolTypeOK
    <2> QED BY <1>2, <1>4, <1>5, <2>3, <2>4
  <1>9. CASE doubled /\ ~ doubled'
    <2>1. url = None /\ Alive' = {}
      BY <1>1, <1>3, <1>9 DEF Again
    <2>2. \A m \in Loops : pc'[m] = "over"
      BY <2>1 DEF Alive
    <2>3. \A m \in Loops : sock'[m] = "none"
      BY <2>2, <1>5 DEF Sockets
    <2> QED BY <1>2, <1>4, <1>5, <1>6, <2>1, <2>2, <2>3 DEF Single, Dropped
  <1> QED BY <1>7, <1>8, <1>9

(* Every other step of an attempt leaves the loop alive.                   *)
LEMMA AttemptInv ==
  ASSUME IInv, NEW l \in Loops, Attempt(l)
  PROVE  IInv'
  <1> USE AddressAssumption DEF IInv, outsideVars, CloudMode, LocalMode
  <1>1. CASE Begin(l) \/ GotToken(l)
    <2>1. GlagolTypeOK'
      BY <1>1 DEF Attempt, Begin, GotToken, Goto, GlagolTypeOK, Places
    <2>2. Alive' = Alive /\ UNCHANGED <<url, ws, sock, caught, doubled, local, host, restarting>>
      BY <1>1 DEF Attempt, Begin, GotToken, Goto, Alive, GlagolTypeOK, Places
    <2>3. pc'[l] \in {"token", "connecting"} /\ pc[l] \in {"pausing", "token"}
          /\ \A m \in Loops \ {l} : pc'[m] = pc[m] /\ to'[m] = to[m]
      BY <1>1 DEF Begin, GotToken, Goto, GlagolTypeOK
    <2>4. pc'[l] = "connecting" => to'[l] = url
      BY <1>1 DEF Begin, GotToken, Goto, GlagolTypeOK
    <2>5. Known' /\ Sockets' /\ Single'
      BY <2>2, <2>3 DEF Known, Sockets, Single
    <2>6. Dropped'
      BY <2>2, <2>3, <2>4 DEF Dropped
    <2> QED BY <2>1, <2>5, <2>6
  <1>2. CASE Connected(l)
    <2>1. GlagolTypeOK'
      BY <1>2 DEF Attempt, Connected, Goto, GlagolTypeOK, Places
    <2>2. Alive' = Alive /\ l \in Alive /\ UNCHANGED <<url, caught, doubled, local, host, restarting>>
      BY <1>2 DEF Attempt, Connected, Goto, Alive, GlagolTypeOK, Places
    <2>3. to[l] # None
      BY <1>2 DEF Connected, GlagolTypeOK
    <2>4. Known' /\ Sockets'
      BY <1>2, <2>2 DEF Connected, Goto, Known, Sockets, GlagolTypeOK
    <2>5. Single'
      BY <1>2, <2>2 DEF Connected, Single, Sockets, Alive, GlagolTypeOK
    <2>6. Dropped'
      BY <1>2, <2>2, <2>3 DEF Connected, Goto, Dropped, GlagolTypeOK
    <2> QED BY <2>1, <2>4, <2>5, <2>6
  <1>3. CASE Message(l)
    <2>1. sock[l] # "none" /\ l \in Alive
      BY <1>3 DEF Message, Alive
    <2>2. GlagolTypeOK' /\ Known' /\ Sockets' /\ Dropped'
      BY <1>3, <2>1 DEF Attempt, Message, GlagolTypeOK, Known, Sockets, Dropped, Alive
    <2>3. Single'
      BY <1>3, <2>1 DEF Message, Single, Alive
    <2> QED BY <2>2, <2>3
  <1>4. CASE Choked(l) \/ Ended(l) \/ Lost(l)
    <2>1. GlagolTypeOK'
      BY <1>4 DEF Attempt, Choked, Ended, Lost, Finally, Goto, GlagolTypeOK, Places
    <2>2. /\ pc[l] = "reading" /\ pc'[l] \in {"reading", "cleaning"}
          /\ sock[l] # "none" /\ sock'[l] \in {"closed", "broken"}
          /\ \A m \in Loops \ {l} : pc'[m] = pc[m] /\ sock'[m] = sock[m]
                                    /\ to'[m] = to[m] /\ caught'[m] = caught[m]
          /\ UNCHANGED <<url, ws, doubled, local, host, restarting>>
      BY <1>4 DEF Attempt, Choked, Ended, Lost, Finally, Goto, GlagolTypeOK, Places
    <2>3. Alive' = Alive
      BY <2>2 DEF Alive
    <2>4. Known' /\ Sockets' /\ Single'
      BY <2>2, <2>3 DEF Known, Sockets, Single, GlagolTypeOK
    <2>5. Dropped'
      BY <2>2 DEF Dropped
    <2> QED BY <2>1, <2>4, <2>5
  <1>5. CASE Failed(l) \/ Cleaned(l)
    BY <1>5, AgainInv DEF Attempt
  <1> QED BY <1>1, <1>2, <1>3, <1>4, <1>5 DEF Attempt

LEMMA NextInv == IInv /\ [Next]_vars => IInv'
  <1> SUFFICES ASSUME IInv, [Next]_vars PROVE IInv'
    OBVIOUS
  <1>1. CASE Announced \/ Added \/ Removed \/ RestartStops \/ RestartStarts
    BY <1>1, EntityInv
  <1>2. CASE \E l \in Loops : Attempt(l)
    BY <1>2, AttemptInv
  <1>3. CASE Moved
    <2>1. /\ at' \in Addresses /\ news' \in BOOLEAN
          /\ UNCHANGED socketVars /\ UNCHANGED <<life, host, local, restarting>>
      BY <1>3 DEF Moved, entityVars
    <2> QED BY <2>1, SameInv DEF IInv, GlagolTypeOK
  <1>4. CASE Expired
    BY <1>4 DEF Expired, entityVars, IInv, GlagolTypeOK, Known, Sockets, Single,
                Dropped, Alive
  <1>5. CASE UNCHANGED vars
    <2>1. UNCHANGED socketVars /\ UNCHANGED <<at, news, life, host, local, restarting>>
      BY <1>5, Zenon DEF vars, entityVars
    <2> QED BY <2>1, SameInv DEF IInv, GlagolTypeOK
  <1> QED BY <1>1, <1>2, <1>3, <1>4, <1>5 DEF Next

LEMMA Invariance == Spec => []IInv
  BY InitInv, NextInv, PTL DEF Spec

(* Types, for any number of loops and addresses.                           *)
THEOREM GlagolTypeCorrect == Spec => []GlagolTypeOK
  <1>1. IInv => GlagolTypeOK
    BY DEF IInv
  <1> QED BY <1>1, Invariance, PTL

(* In local mode a command has a socket to go to, unless a restart has     *)
(* started a second loop.                                                  *)
THEOREM LocalSpeaks == Spec => []LocalCanSpeak
  <1>1. IInv => LocalCanSpeak
    BY DEF IInv, Single, Sockets, LocalCanSpeak
  <1> QED BY <1>1, Invariance, PTL

(* Nobody reads a connection that was stopped, unless it was being made.   *)
THEOREM StoppedQuiet == Spec => []StoppedIsQuiet
  <1>1. IInv => StoppedIsQuiet
    BY DEF IInv, Dropped, StoppedIsQuiet
  <1> QED BY <1>1, Invariance, PTL

=============================================================================

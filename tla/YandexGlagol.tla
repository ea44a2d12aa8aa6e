----------------------------- MODULE YandexGlagol -----------------------------
(***************************************************************************)
(* The local connection to a Yandex station (custom_components/            *)
(* yandex_station: core/yandex_glagol.py, and how core/yandex_station.py   *)
(* and __init__.py use it): mDNS announcements say where the station is, a *)
(* loop of attempts keeps a socket to it, and what comes over the socket   *)
(* switches the media player between the local and the cloud mode.  A loop *)
(* is a chain of _connect tasks, each of which creates the next.           *)
(*                                                                         *)
(* Left out: what the messages say, commands and their futures, the length *)
(* of the pauses between attempts (fails), the stop of Home Assistant.     *)
(***************************************************************************)
EXTENDS FiniteSets

CONSTANTS
  Loops,      \* loops that may be alive at once
  Addresses,  \* a host with its port
  Within,     \* <<a, b>>: the host of a occurs in the url of b
  None

ASSUME AddressAssumption ==
  /\ None \notin Addresses /\ None \notin Loops
  /\ Within \subseteq Addresses \X Addresses
  /\ \A a \in Addresses : <<a, a>> \in Within

VARIABLES
  at,          \* where the station really is
  news,        \* its announcement of that is under way
  life,        \* the entity: new, added, removed
  host,        \* device["host"], None when there is none
  url,         \* YandexGlagol.url
  ws,          \* YandexGlagol.ws, by the loop whose socket it is
  token,       \* device_token
  local,       \* local_state is set: commands go to the socket
  restarting,  \* the service call "restart" sleeps
  pc,          \* the await at which the loop is suspended
  to,          \* the url its attempt was given
  sock,        \* its socket
  caught,      \* it was connecting when the url was dropped
  doubled      \* a loop was started beside another

socketVars == <<url, ws, token, pc, to, sock, caught, doubled>>
entityVars == <<life, host, local, restarting>>
outsideVars == <<at, news, life, host, restarting>>
vars == <<at, news, socketVars, entityVars>>

Places ==
  {"over", "pausing", "token", "connecting", "reading", "cleaning"}

GlagolTypeOK ==
  /\ at \in Addresses /\ news \in BOOLEAN
  /\ life \in {"new", "added", "removed"}
  /\ host \in Addresses \cup {None}
  /\ url \in Addresses \cup {None}
  /\ ws \in Loops \cup {None}
  /\ token \in {"none", "good", "expired"}
  /\ local \in BOOLEAN /\ restarting \in BOOLEAN /\ doubled \in BOOLEAN
  /\ pc \in [Loops -> Places]
  /\ to \in [Loops -> Addresses \cup {None}]
  /\ sock \in [Loops -> {"none", "open", "closed", "broken"}]
  /\ caught \in [Loops -> BOOLEAN]

Init ==
  /\ at \in Addresses
  /\ life = "new" /\ host \in {None, at} /\ news = (host = None)
  /\ url = None /\ ws = None /\ token = "none"
  /\ local = FALSE /\ restarting = FALSE /\ doubled = FALSE
  /\ pc = [l \in Loops |-> "over"]
  /\ to = [l \in Loops |-> None]
  /\ sock = [l \in Loops |-> "none"]
  /\ caught = [l \in Loops |-> FALSE]

Goto(l, place) == pc' = [pc EXCEPT ![l] = place]

Alive == {l \in Loops : pc[l] # "over"}

(* ws.close(): the loop that reads the socket sees it closed.              *)
CloseSocket ==
  sock' = [l \in Loops |-> IF l = ws /\ sock[l] = "open" THEN "closed" ELSE sock[l]]

-----------------------------------------------------------------------------
(* start_or_restart and stop.                                              *)

StartOrRestart(h) ==
  \/ /\ url = None
     /\ url' = h
     /\ \E l \in Loops \ Alive :
          /\ Goto(l, "pausing")
          /\ doubled' = (doubled \/ Alive # {})
     /\ UNCHANGED <<ws, token, to, sock, caught>>
  \/ /\ url # None /\ <<h, url>> \notin Within
     /\ url' = h
     /\ CloseSocket
     /\ UNCHANGED <<ws, token, pc, to, caught, doubled>>
  \/ /\ url # None /\ <<h, url>> \in Within
     /\ UNCHANGED socketVars

(* Fault: the socket is left to itself.                                    *)
StopAttemptsOnly ==
  /\ url' = None
  /\ caught' = [l \in Loops |-> caught[l] \/ pc[l] = "connecting"]
  /\ UNCHANGED <<ws, token, pc, to, sock, doubled>>

Stop ==
  /\ url' = None
  /\ CloseSocket
  /\ caught' = [l \in Loops |-> caught[l] \/ pc[l] = "connecting"]
  /\ UNCHANGED <<ws, token, pc, to, doubled>>

-----------------------------------------------------------------------------
(* The entity.                                                             *)

(* found_local_speaker: in local mode the new address is not taken.  There *)
(* may be announcements without news.                                      *)
Announced ==
  /\ news' = FALSE
  /\ IF local
       THEN UNCHANGED <<host, socketVars>>
       ELSE /\ host' = at
            /\ IF life = "new" THEN UNCHANGED socketVars ELSE StartOrRestart(at)
  /\ UNCHANGED <<at, life, local, restarting>>

(* async_added_to_hass.                                                    *)
Added ==
  /\ life = "new"
  /\ life' = "added"
  /\ IF host = None THEN UNCHANGED socketVars ELSE StartOrRestart(host)
  /\ UNCHANGED <<at, news, host, local, restarting>>

(* async_will_remove_from_hass; the entity keeps its hass.                 *)
Removed ==
  /\ life = "added"
  /\ life' = "removed"
  /\ Stop
  /\ UNCHANGED <<at, news, host, local, restarting>>

(* play_media "restart" stops, sleeps, and starts.                         *)
RestartStops ==
  /\ life = "added" /\ local /\ ~ restarting
  /\ restarting' = TRUE
  /\ Stop
  /\ UNCHANGED <<at, news, life, host, local>>

RestartStarts ==
  /\ restarting
  /\ restarting' = FALSE
  /\ StartOrRestart(host)
  /\ UNCHANGED <<at, news, life, host, local>>

-----------------------------------------------------------------------------
(* An attempt: _connect.                                                   *)

(* async_set_state.                                                        *)
LocalMode == local' = TRUE

(* async_set_state(None).                                                  *)
CloudMode == local' = FALSE

(* finally closes the socket, if it has to, and ends keep_task.            *)
Finally(l) ==
  /\ Goto(l, "cleaning")
  /\ to' = [to EXCEPT ![l] = None]
  /\ sock' = [sock EXCEPT ![l] = "closed"]
  /\ caught' = [caught EXCEPT ![l] = FALSE]

(* update_handler(None), and the next attempt unless the url is gone; it   *)
(* does not look again after its pause.                                    *)
Again(l) ==
  /\ CloudMode
  /\ Goto(l, IF url = None THEN "over" ELSE "pausing")
  /\ doubled' = (doubled /\ (Alive # {l} \/ url # None))

(* The url is read when the socket is asked for; without one the attempt   *)
(* fails at once (Failed).                                                 *)
Begin(l) ==
  /\ pc[l] = "pausing"
  /\ IF token = "none"
       THEN Goto(l, "token") /\ UNCHANGED to
       ELSE Goto(l, "connecting") /\ to' = [to EXCEPT ![l] = url]
  /\ UNCHANGED <<url, ws, token, sock, caught, doubled, local>>

GotToken(l) ==
  /\ pc[l] = "token"
  /\ token' = "good"
  /\ Goto(l, "connecting") /\ to' = [to EXCEPT ![l] = url]
  /\ UNCHANGED <<url, ws, sock, caught, doubled, local>>

(* A station that is told an expired token closes the socket.              *)
Connected(l) ==
  /\ pc[l] = "connecting" /\ to[l] = at
  /\ Goto(l, "reading")
  /\ ws' = l
  /\ sock' = [sock EXCEPT ![l] = IF token = "expired" THEN "closed" ELSE "open"]
  /\ UNCHANGED <<url, token, to, caught, doubled, local>>

Failed(l) ==
  /\ pc[l] \in {"token", "connecting"}
  /\ Again(l)
  /\ to' = [to EXCEPT ![l] = None]
  /\ caught' = [caught EXCEPT ![l] = FALSE]
  /\ UNCHANGED <<url, ws, token, sock>>

(* A message of the station.                                               *)
Message(l) ==
  /\ pc[l] = "reading" /\ sock[l] = "open" /\ to[l] = at
  /\ LocalMode
  /\ UNCHANGED <<url, ws, token, pc, to, sock, caught, doubled>>

(* A message without a state: async_set_state raises.                      *)
Choked(l) ==
  /\ pc[l] = "reading" /\ sock[l] = "open" /\ to[l] = at
  /\ Finally(l)
  /\ UNCHANGED <<url, ws, token, doubled, local>>

(* Fault: the token that was refused is used again.                        *)
EndedKeepingToken(l) ==
  /\ pc[l] = "reading" /\ sock[l] \in {"closed", "broken"}
  /\ Finally(l)
  /\ UNCHANGED <<url, ws, token, doubled, local>>

(* CLOSE, CLOSING or CLOSED drop the token; an ERROR raises and keeps it.  *)
Ended(l) ==
  /\ pc[l] = "reading" /\ sock[l] \in {"closed", "broken"}
  /\ token' = IF sock[l] = "closed" THEN "none" ELSE token
  /\ Finally(l)
  /\ UNCHANGED <<url, ws, doubled, local>>

(* Fault: the mode is left when the url is gone only.                      *)
CleanedInLocalMode(l) ==
  /\ pc[l] = "cleaning"
  /\ sock' = [sock EXCEPT ![l] = "none"]
  /\ ws' = IF ws = l THEN None ELSE ws
  /\ local' = (local /\ url # None)
  /\ Goto(l, IF url = None THEN "over" ELSE "pausing")
  /\ doubled' = (doubled /\ (Alive # {l} \/ url # None))
  /\ UNCHANGED <<url, token, to, caught>>

(* finally has awaited keep_task and the close of the socket.              *)
Cleaned(l) ==
  /\ pc[l] = "cleaning"
  /\ sock' = [sock EXCEPT ![l] = "none"]
  /\ ws' = IF ws = l THEN None ELSE ws
  /\ Again(l)
  /\ UNCHANGED <<url, token, to, caught>>

(* The heartbeat, or _keep_connection, which closes.                       *)
Lost(l) ==
  /\ pc[l] = "reading" /\ sock[l] = "open"
  /\ \E end \in {"closed", "broken"} : sock' = [sock EXCEPT ![l] = end]
  /\ UNCHANGED <<url, ws, token, pc, to, caught, doubled, local>>

Attempt(l) ==
  /\ \/ Begin(l) \/ GotToken(l) \/ Connected(l) \/ Failed(l) \/ Message(l)
     \/ Choked(l) \/ Ended(l) \/ Cleaned(l) \/ Lost(l)
  /\ UNCHANGED outsideVars

-----------------------------------------------------------------------------
(* The station and the token service.                                      *)

Moved ==
  /\ \E a \in Addresses \ {at} : at' = a
  /\ news' = TRUE
  /\ UNCHANGED <<socketVars, entityVars>>

Expired ==
  /\ token = "good"
  /\ token' = "expired"
  /\ UNCHANGED <<at, news, url, ws, pc, to, sock, caught, doubled, entityVars>>

Next ==
  \/ Announced \/ Added \/ Removed \/ RestartStops \/ RestartStarts
  \/ \E l \in Loops : Attempt(l)
  \/ Moved \/ Expired

Spec == Init /\ [][Next]_vars

(* The event loop resumes what is due, every await of an attempt has a     *)
(* timeout and a station that does not answer loses its heartbeat.  A      *)
(* station announces a new address once; it and the token service may      *)
(* fail, but not every time.                                               *)
Fairness ==
  /\ WF_vars(Added) /\ WF_vars(RestartStarts) /\ WF_vars(news /\ Announced)
  /\ \A l \in Loops :
       /\ WF_vars(Attempt(l) /\ pc[l] # "reading")
       /\ WF_vars(Ended(l) /\ UNCHANGED outsideVars)
       /\ WF_vars(to[l] # at /\ Lost(l) /\ UNCHANGED outsideVars)
       /\ SF_vars(GotToken(l) /\ UNCHANGED outsideVars)
       /\ SF_vars(Connected(l) /\ UNCHANGED outsideVars)
       /\ SF_vars(Message(l) /\ UNCHANGED outsideVars)

FairSpec == Spec /\ Fairness

-----------------------------------------------------------------------------
(* Properties.                                                             *)

(* In local mode commands have a socket to go to, unless two loops share   *)
(* the one ws (yandex_glagol.py l.99-103, l.213-218; yandex_station.py     *)
(* sends them there without asking).                                       *)
LocalCanSpeak == local /\ ~ doubled => ws # None /\ sock[ws] # "none"

(* A connection that was stopped is not read any more, unless it was being *)
(* made at the time, or was not the only one (l.77-81).                    *)
StoppedIsQuiet ==
  url = None /\ ~ doubled =>
    \A l \in Loops : pc[l] = "reading" /\ sock[l] = "open" => caught[l]

(* The announced host occurs in the url of another: start_or_restart takes *)
(* it for the same.                                                        *)
Mistaken == url # None /\ host # url /\ <<host, url>> \in Within

(* The announcement was skipped because the lost connection was not known  *)
(* to be lost.                                                             *)
Missed == host # at /\ ~ news

(* A station that stays where it is comes back into local mode whatever    *)
(* happened before, unless its address was missed or is mistaken for the   *)
(* old one (yandex_glagol.py l.63-75, l.217-230; __init__.py l.227-238).   *)
LocalReturns ==
  (<>[](url # None) /\ <>[][FALSE]_at
     /\ <>[][token' = "expired" => token = "expired"]_token)
    => []<>(local \/ Mistaken \/ Missed)

=============================================================================

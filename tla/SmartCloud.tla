------------------------------ MODULE SmartCloud ------------------------------
(***************************************************************************)
(* The cloud manager of custom_components/yandex_smart_home (cloud.py): a  *)
(* coroutine that connects a socket, answers the requests that come in by  *)
(* it and, when it breaks, calls itself again by a timer.  Every load of   *)
(* the entry has a manager of its own; SmartHome loads and unloads.  How   *)
(* long the timer waits (2 to 180 s) is left out.                          *)
(***************************************************************************)

CONSTANTS Managers  \* a manager for every load of the entry

VARIABLES
  reachable,  \* the cloud accepts connections
  con,        \* async_connect of the manager of a load
  ws,         \* _ws, the manager's socket
  active      \* _ws_active

cloudVars == <<reachable, con, ws, active>>

CloudTypeOK ==
  /\ reachable \in BOOLEAN
  /\ con \in [Managers -> {"none", "connecting", "open", "answering", "waiting", "over"}]
  /\ ws \in [Managers -> {"none", "open", "closing", "closed"}]
  /\ active \in [Managers -> BOOLEAN]

CloudInit ==
  /\ reachable = TRUE
  /\ con = [g \in Managers |-> "none"]
  /\ ws = [g \in Managers |-> "none"]
  /\ active = [g \in Managers |-> TRUE]

Goto(g, place) == con' = [con EXCEPT ![g] = place]

(* Fault: a connection that could not be made is not tried again.          *)
TryReconnectNever(g) == Goto(g, "over")

(* _try_reconnect.                                                         *)
TryReconnect(g) == Goto(g, IF active[g] THEN "waiting" ELSE "over")

-----------------------------------------------------------------------------

Connected(g) ==
  /\ con[g] = "connecting" /\ reachable
  /\ Goto(g, "open") /\ ws' = [ws EXCEPT ![g] = "open"]
  /\ UNCHANGED <<reachable, active>>

ConnectFailed(g) ==
  /\ con[g] = "connecting" /\ ~ reachable
  /\ TryReconnect(g)
  /\ UNCHANGED <<reachable, ws, active>>

(* A request: _on_message calls the handler and awaits it.                 *)
Asked(g) ==
  /\ con[g] = "open" /\ ws[g] = "open"
  /\ Goto(g, "answering")
  /\ UNCHANGED <<reachable, ws, active>>

(* A socket that is being closed ends the loop.                            *)
Answered(g) ==
  /\ con[g] = "answering" /\ ws[g] \in {"open", "closing"}
  /\ Goto(g, IF ws[g] = "open" THEN "open" ELSE "over")
  /\ UNCHANGED <<reachable, ws, active>>

(* A message that cannot be read or sent: the exception leaves the loop,   *)
(* and the socket open.                                                    *)
AnswerFailed(g) ==
  /\ con[g] = "answering"
  /\ TryReconnect(g)
  /\ UNCHANGED <<reachable, ws, active>>

(* The socket breaks, with nobody or with a handler at work.               *)
Broken(g) ==
  /\ ws[g] \in {"open", "closing"} /\ con[g] # "open"
  /\ ws' = [ws EXCEPT ![g] = "closed"]
  /\ UNCHANGED <<reachable, con, active>>

(* The loop over the messages ends.                                        *)
Disconnected(g) ==
  /\ con[g] = "open"
  /\ ws' = [ws EXCEPT ![g] = "closed"]
  /\ TryReconnect(g)
  /\ UNCHANGED <<reachable, active>>

(* The timer of _try_reconnect; async_connect does not look at _ws_active. *)
Redial(g) ==
  /\ con[g] = "waiting"
  /\ Goto(g, "connecting")
  /\ UNCHANGED <<reachable, ws, active>>

ReachChanged ==
  /\ reachable' = ~ reachable
  /\ UNCHANGED <<con, ws, active>>

(* async_disconnect, before it waits for the socket to close.  The loop    *)
(* over the messages ends at once, and sees no close_code; a timer is      *)
(* cancelled only after the socket.                                        *)
DisconnectBegin(g) ==
  /\ active' = [active EXCEPT ![g] = FALSE]
  /\ ws' = [ws EXCEPT ![g] = IF @ = "open" THEN "closing" ELSE @]
  /\ con' = [con EXCEPT ![g] = IF @ = "open" \/ (@ = "waiting" /\ ws[g] # "open") THEN "over" ELSE @]
  /\ UNCHANGED reachable

(* Fault: the timer is not cancelled.                                      *)
DisconnectEndTimer(g) ==
  /\ ws' = [ws EXCEPT ![g] = IF @ = "closing" THEN "closed" ELSE @]
  /\ UNCHANGED <<reachable, con, active>>

(* A socket that was opened meanwhile is not closed.                       *)
DisconnectEnd(g) ==
  /\ ws' = [ws EXCEPT ![g] = IF @ = "closing" THEN "closed" ELSE @]
  /\ con' = [con EXCEPT ![g] = IF @ = "waiting" THEN "over" ELSE @]
  /\ UNCHANGED <<reachable, active>>

CoroutineStep(g) == Connected(g) \/ ConnectFailed(g) \/ Answered(g) \/ AnswerFailed(g)

SocketStep(g) == Broken(g) \/ Disconnected(g)

=============================================================================

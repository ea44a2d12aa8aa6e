------------------------------ MODULE RemoteCall ------------------------------
(***************************************************************************)
(* What sending a command through the cloud promises to each caller: a     *)
(* request is made once, after it was asked for, and carried out once at   *)
(* most; "online" is told for a request that was carried out, and what has *)
(* been told is not taken back.  A call that is told "failed" may have     *)
(* been carried out all the same, or be carried out later.                 *)
(***************************************************************************)
CONSTANT Calls

VARIABLES
  stage,     \* "new", "open", "sent", then "online" or "failed"; "over" for a
             \* call without a request of its own
  requests,  \* calls whose request is on its way
  executed   \* calls whose request has been carried out

callVars == <<stage, requests, executed>>

Init ==
  /\ stage \in [Calls -> {"new", "over"}]
  /\ requests = {}
  /\ executed = {}

Move(c, from, to) ==
  /\ stage[c] = from
  /\ stage' = [stage EXCEPT ![c] = to]

Open(c) == Move(c, "new", "open") /\ UNCHANGED <<requests, executed>>

(* Another call has taken its command along.                               *)
Join(c) == Move(c, "open", "over") /\ UNCHANGED <<requests, executed>>

Request(c) ==
  /\ Move(c, "open", "sent")
  /\ requests' = requests \cup {c}
  /\ UNCHANGED executed

Serve(c) ==
  /\ c \in requests
  /\ requests' = requests \ {c}
  /\ executed' \in {executed, executed \cup {c}}
  /\ UNCHANGED stage

Succeed(c) ==
  /\ c \in executed
  /\ Move(c, "sent", "online")
  /\ UNCHANGED <<requests, executed>>

Fail(c) ==
  /\ Move(c, "open", "failed") \/ Move(c, "sent", "failed")
  /\ UNCHANGED <<requests, executed>>

Next ==
  \E c \in Calls :
    Open(c) \/ Join(c) \/ Request(c) \/ Serve(c) \/ Succeed(c) \/ Fail(c)

Spec == Init /\ [][Next]_callVars

=============================================================================

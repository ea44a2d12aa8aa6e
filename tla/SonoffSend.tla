------------------------------ MODULE SonoffSend ------------------------------
(***************************************************************************)
(* Commands of the Sonoff integration on their way through the cloud:      *)
(* XRegistry.send_bulk (custom_components/sonoff/core/ewelink/__init__.py) *)
(* collects the switches of one device, XRegistryCloud.send (cloud.py)     *)
(* spaces the messages and waits for the answer with the right sequence    *)
(* (ResponseWaiter, and XRegistryBase.sequence of base.py).                *)
(*                                                                         *)
(* Each call is a coroutine; what it does between two awaits is one step.  *)
(* Time runs in tenths of a second, scaled by the constants.               *)
(***************************************************************************)

EXTENDS Naturals

CONSTANTS
  BulkCalls,   \* calls of send_bulk
  UiCalls,     \* calls of send_cloud with uiActive
  Mixes,       \* the calls that may meet in a behaviour
  Outlets,     \* switches of the device
  Values,      \* what a switch can be set to
  Wishes,      \* what each bulk call may ask: pairs of a switch and a value
  None,        \* no value
  BulkDelay,   \* the sleep of send_bulk
  Gap,         \* least time between two messages
  UiGap,       \* least time between two uiActive
  Timeout      \* how long an answer is awaited

ASSUME SendAssumption ==
  /\ None \notin Values
  /\ Wishes \in [BulkCalls -> SUBSET (Outlets \X Values)]
  /\ BulkCalls \cap UiCalls = {}
  /\ Mixes \subseteq SUBSET (BulkCalls \cup UiCalls)
  /\ BulkDelay \in Nat /\ Gap \in Nat /\ UiGap \in Nat /\ Timeout \in Nat

VARIABLES
  pc,         \* where a call is
  timer,      \* what is left of its sleep or timeout
  seq,        \* the sequence of its message, 0 for none yet
  querying,   \* calls that have gone on to the query after their update
  reply,      \* the result of its future
  result,     \* what the last cloud.send of an update has returned
  bulk,       \* device["params_bulk"], None everywhere when there is none
  wanted,     \* the last value asked of each switch
  handed,     \* the last value handed to XRegistry.send
  lastSeq,    \* XRegistryBase._sequence
  waiters,    \* sequences in ResponseWaiter._waiters
  sinceSend,  \* time since last_ts, no further than Gap
  sinceUi,    \* time since last_ui_active, no further than UiGap
  quiet,      \* time since a message has left, no further than Gap
  sent,       \* messages on their way: the call, its sequence, query or not
  answers,    \* answers on their way back
  executed    \* calls whose update the cloud has carried out

callVars == <<pc, timer, seq, querying, reply, result>>
bulkVars == <<bulk, wanted, handed>>
paceVars == <<sinceSend, sinceUi, quiet>>
netVars == <<sent, answers, executed>>

vars == <<callVars, bulkVars, lastSeq, waiters, paceVars, netVars>>

Calls == BulkCalls \cup UiCalls

Steps == {"idle", "bulk", "ui", "gap", "sending", "wait", "done"}

Replies == {"none", "online", "error"}

(* "failed" stands for every result that is not "online".                  *)
Results == {"none", "online", "failed"}

Longest == BulkDelay + Gap + UiGap + Timeout

SendTypeOK ==
  /\ pc \in [Calls -> Steps]
  /\ timer \in [Calls -> 0 .. Longest]
  /\ seq \in [Calls -> 0 .. lastSeq]
  /\ querying \subseteq Calls
  /\ reply \in [Calls -> Replies]
  /\ result \in [Calls -> Results]
  /\ bulk \in [Outlets -> Values \cup {None}]
  /\ wanted \in [Outlets -> Values \cup {None}]
  /\ handed \in [Outlets -> Values \cup {None}]
  /\ lastSeq \in Nat
  /\ waiters \subseteq 1 .. lastSeq
  /\ sinceSend \in 0 .. Gap /\ sinceUi \in 0 .. UiGap /\ quiet \in 0 .. Gap
  /\ sent \subseteq Calls \X (1 .. lastSeq) \X BOOLEAN
  /\ executed \subseteq Calls
  /\ answers \subseteq (1 .. lastSeq) \X {"online", "error"}

NoBulk == [o \in Outlets |-> None]

Init ==
  /\ \E mix \in Mixes : pc = [c \in Calls |-> IF c \in mix THEN "idle" ELSE "done"]
  /\ timer = [c \in Calls |-> 0]
  /\ seq = [c \in Calls |-> 0]
  /\ querying = {}
  /\ reply = [c \in Calls |-> "none"]
  /\ result = [c \in Calls |-> "none"]
  /\ bulk = NoBulk /\ wanted = NoBulk /\ handed = NoBulk
  /\ lastSeq = 0
  /\ waiters = {}
  /\ sinceSend = Gap /\ sinceUi = UiGap /\ quiet = Gap
  /\ sent = {} /\ answers = {} /\ executed = {}

-----------------------------------------------------------------------------

Goto(c, step, time) ==
  /\ pc' = [pc EXCEPT ![c] = step]
  /\ timer' = [timer EXCEPT ![c] = time]

Awake(c, step) == pc[c] = step /\ timer[c] = 0

(* The next sequence for a clock that shows t: the clock may stand, or go  *)
(* back.                                                                   *)
Clock == {lastSeq, lastSeq + 1}

(* Fault: the sequence is the clock.                                       *)
SequenceOfClock(t) == t

SequenceAt(t) == IF t > lastSeq THEN t ELSE lastSeq + 1

(* XRegistryBase.sequence; nothing is awaited while its lock is held.      *)
Draw(c) ==
  \E t \in Clock :
    /\ seq' = [seq EXCEPT ![c] = SequenceAt(t)]
    /\ lastSeq' = SequenceAt(t)

-----------------------------------------------------------------------------
(* XRegistry.send_bulk.                                                    *)

(* Fault: a call replaces the switches that are collected already.         *)
AskedAlone(c) ==
  /\ c \in BulkCalls /\ pc[c] = "idle"
  /\ \E w \in Wishes[c] :
       /\ bulk' = [NoBulk EXCEPT ![w[1]] = w[2]]
       /\ wanted' = [wanted EXCEPT ![w[1]] = w[2]]
  /\ Goto(c, "bulk", BulkDelay)
  /\ UNCHANGED <<seq, querying, reply, result, handed, lastSeq, waiters, paceVars, netVars>>

Asked(c) ==
  /\ c \in BulkCalls /\ pc[c] = "idle"
  /\ \E w \in Wishes[c] :
       /\ bulk' = [bulk EXCEPT ![w[1]] = w[2]]
       /\ wanted' = [wanted EXCEPT ![w[1]] = w[2]]
  /\ Goto(c, "bulk", BulkDelay)
  /\ UNCHANGED <<seq, querying, reply, result, handed, lastSeq, waiters, paceVars, netVars>>

(* The first call to wake takes all that is collected, with a sequence of  *)
(* XRegistry.send; the others find nothing and end.                        *)
Popped(c) ==
  /\ Awake(c, "bulk")
  /\ IF bulk = NoBulk
       THEN Goto(c, "done", 0) /\ UNCHANGED <<seq, lastSeq, handed>>
       ELSE /\ Goto(c, "gap", 0)
            /\ Draw(c)
            /\ handed' = [o \in Outlets |-> IF bulk[o] = None THEN handed[o] ELSE bulk[o]]
  /\ bulk' = NoBulk
  /\ UNCHANGED <<querying, reply, result, wanted, waiters, paceVars, netVars>>

-----------------------------------------------------------------------------
(* XRegistryCloud.send.                                                    *)

(* A send_cloud with uiActive.                                             *)
UiAsked(c) ==
  /\ c \in UiCalls /\ pc[c] = "idle"
  /\ Goto(c, "ui", 0)
  /\ UNCHANGED <<seq, querying, reply, result, bulkVars, lastSeq, waiters, paceVars, netVars>>

(* uiActive: one second after the last one.                                *)
UiTurn(c) ==
  /\ Awake(c, "ui")
  /\ IF sinceUi < UiGap
       THEN Goto(c, "ui", UiGap - sinceUi) /\ UNCHANGED sinceUi
       ELSE Goto(c, "gap", 0) /\ sinceUi' = 0
  /\ UNCHANGED <<seq, querying, reply, result, bulkVars, lastSeq, waiters, sinceSend, quiet, netVars>>

(* Too early: sleep and look again.                                        *)
GapSleep(c) ==
  /\ Awake(c, "gap") /\ sinceSend < Gap
  /\ Goto(c, "gap", Gap - sinceSend)
  /\ UNCHANGED <<seq, querying, reply, result, bulkVars, lastSeq, waiters, paceVars, netVars>>

(* Fault: last_ts is not stored.                                           *)
TransmitUnmarked(c) ==
  /\ Awake(c, "gap") /\ sinceSend = Gap
  /\ sinceSend' = sinceSend /\ quiet' = 0
  /\ IF seq[c] = 0 THEN Draw(c) ELSE UNCHANGED <<seq, lastSeq>>
  /\ sent' = sent \cup {<<c, seq'[c], c \in querying>>}
  /\ Goto(c, "sending", 0)
  /\ UNCHANGED <<querying, reply, result, bulkVars, waiters, sinceUi, answers, executed>>

(* The message leaves: send_json writes before it suspends, if it does.    *)
Transmit(c) ==
  /\ Awake(c, "gap") /\ sinceSend = Gap
  /\ sinceSend' = 0 /\ quiet' = 0
  /\ IF seq[c] = 0 THEN Draw(c) ELSE UNCHANGED <<seq, lastSeq>>
  /\ sent' = sent \cup {<<c, seq'[c], c \in querying>>}
  /\ Goto(c, "sending", 0)
  /\ UNCHANGED <<querying, reply, result, bulkVars, waiters, sinceUi, answers, executed>>

(* No connection: nothing leaves, and the call ends.                       *)
TransmitFailed(c) ==
  /\ Awake(c, "gap") /\ sinceSend = Gap
  /\ sinceSend' = 0
  /\ IF seq[c] = 0 THEN Draw(c) ELSE UNCHANGED <<seq, lastSeq>>
  /\ result' = IF c \in querying THEN result ELSE [result EXCEPT ![c] = "failed"]
  /\ Goto(c, "done", 0)
  /\ UNCHANGED <<querying, reply, bulkVars, waiters, sinceUi, quiet, netVars>>

(* _wait_response; a query is not waited for.                              *)
Awaited(c) ==
  /\ Awake(c, "sending")
  /\ IF c \in querying
       THEN Goto(c, "done", 0) /\ UNCHANGED waiters
       ELSE /\ Goto(c, "wait", Timeout)
            /\ waiters' = waiters \cup {seq[c]}
  /\ UNCHANGED <<seq, querying, reply, result, bulkVars, lastSeq, paceVars, netVars>>

(* An update that succeeded is followed by a query, with a sequence of its *)
(* own, unless the caller does not want one (sensor.py l.274).             *)
Return(c, value) ==
  /\ result' = [result EXCEPT ![c] = value]
  /\ \/ /\ value = "online"
        /\ querying' = querying \cup {c}
        /\ seq' = [seq EXCEPT ![c] = 0]
        /\ Goto(c, "gap", 0)
     \/ /\ value = "online" => c \in UiCalls
        /\ Goto(c, "done", 0)
        /\ UNCHANGED <<querying, seq>>

Answered(c) ==
  /\ pc[c] = "wait" /\ reply[c] # "none"
  /\ waiters' = waiters \ {seq[c]}
  /\ Return(c, IF reply[c] = "online" THEN "online" ELSE "failed")
  /\ reply' = [reply EXCEPT ![c] = "none"]
  /\ UNCHANGED <<bulkVars, lastSeq, paceVars, netVars>>

(* Fault: a timeout leaves its future among the waiters.                   *)
TimedOutLeaking(c) ==
  /\ Awake(c, "wait") /\ reply[c] = "none"
  /\ Return(c, "failed")
  /\ UNCHANGED <<waiters, reply, bulkVars, lastSeq, paceVars, netVars>>

(* Fault: an answer is awaited without a limit.                            *)
TimedOutNever(c) ==
  /\ Awake(c, "wait") /\ reply[c] = "none"
  /\ UNCHANGED vars

(* Fault: an update that was not answered is sent again.                   *)
TimedOutAgain(c) ==
  /\ Awake(c, "wait") /\ reply[c] = "none"
  /\ waiters' = waiters \ {seq[c]}
  /\ Goto(c, "gap", 0)
  /\ UNCHANGED <<seq, querying, reply, result, bulkVars, lastSeq, paceVars, netVars>>

TimedOut(c) ==
  /\ Awake(c, "wait") /\ reply[c] = "none"
  /\ waiters' = waiters \ {seq[c]}
  /\ Return(c, "failed")
  /\ UNCHANGED <<reply, bulkVars, lastSeq, paceVars, netVars>>

-----------------------------------------------------------------------------
(* The cloud, and what it sends back.                                      *)

(* A message is carried out or refused.  A message or an answer that is    *)
(* lost stays where it is.                                                 *)
Served ==
  \E m \in sent, value \in {"online", "error"} :
    /\ sent' = sent \ {m}
    /\ executed' = IF value = "online" /\ ~ m[3] THEN executed \cup {m[1]} ELSE executed
    /\ answers' = answers \cup {<<m[2], value>>}
    /\ UNCHANGED <<callVars, bulkVars, lastSeq, waiters, paceVars>>

(* _set_response: an answer nobody waits for is dropped.                   *)
Response ==
  \E a \in answers :
    /\ answers' = answers \ {a}
    /\ reply' = [c \in Calls |->
         IF a[1] \in waiters /\ pc[c] = "wait" /\ seq[c] = a[1] /\ reply[c] = "none"
           THEN a[2] ELSE reply[c]]
    /\ UNCHANGED <<pc, timer, seq, querying, result, bulkVars, lastSeq, waiters,
                   paceVars, sent, executed>>

Less(n) == IF n = 0 THEN 0 ELSE n - 1
More(n, limit) == IF n < limit THEN n + 1 ELSE n

Ready(c) ==
  \/ pc[c] \notin {"idle", "done"} /\ timer[c] = 0
  \/ pc[c] = "wait" /\ reply[c] # "none"

(* Calls that are ready run before a tenth of a second has passed.         *)
Tick ==
  /\ \A c \in Calls : ~ Ready(c)
  /\ timer' = [c \in Calls |-> Less(timer[c])]
  /\ sinceSend' = More(sinceSend, Gap)
  /\ sinceUi' = More(sinceUi, UiGap)
  /\ quiet' = More(quiet, Gap)
  /\ UNCHANGED <<pc, seq, querying, reply, result, bulkVars, lastSeq, waiters, netVars>>

-----------------------------------------------------------------------------

Progress(c) ==
  \/ Popped(c) \/ UiTurn(c) \/ GapSleep(c)
  \/ Transmit(c) \/ TransmitFailed(c) \/ Awaited(c)
  \/ Answered(c) \/ TimedOut(c)

Next ==
  \/ \E c \in Calls : Asked(c) \/ UiAsked(c) \/ Progress(c)
  \/ Served \/ Response \/ Tick

Spec == Init /\ [][Next]_vars

(* The event loop resumes every coroutine that is ready, and time passes.  *)
(* The cloud need not answer.                                              *)
Fairness ==
  /\ \A c \in Calls : WF_vars(Progress(c))
  /\ WF_vars(Tick)

FairSpec == Spec /\ Fairness

-----------------------------------------------------------------------------
(* Properties.                                                             *)

(* A call returns "online" only for a command the cloud has carried out:   *)
(* the answer to one command never completes another (sequences are unique *)
(* and the waiters keyed by them).                                         *)
OnlineIsTrue == \A c \in Calls : result[c] = "online" => c \in executed

(* No future stays behind in the waiters when its call has gone on.        *)
NoWaiterLeaks ==
  waiters = {seq[c] : c \in {d \in Calls : pc[d] = "wait"}}

(* "Protect cloud from DDoS": however many calls wake together, messages   *)
(* leave at least Gap apart (cloud.py l.456-460).                          *)
Spaced == [][sent' \ sent # {} => quiet = Gap]_vars

(* Whichever of the calls takes the collected switches, once no call is in *)
(* its sleep the last value asked of every switch has been handed on.      *)
NothingLost ==
  (\A c \in BulkCalls : pc[c] # "bulk") => handed = wanted

Running == {c \in Calls : pc[c] \notin {"idle", "done"}}

(* Every call ends, answered or not, also when others wait with it: the    *)
(* registry always comes to rest.                                          *)
CallsEnd == Running # {} ~> Running = {}

(* Where a call is, as its caller may see it.                              *)
Stage(c) ==
  IF result[c] # "none" THEN result[c]
  ELSE CASE pc[c] = "idle"               -> "new"
         [] pc[c] = "done"               -> "over"
         [] pc[c] \in {"sending", "wait"} -> "sent"
         [] OTHER                        -> "open"

UnderWay == {m[1] : m \in {n \in sent : ~ n[3]}}

(* Each call is a remote call: its update leaves once and is carried out   *)
(* once at most, "online" is only told of an update that was carried out,  *)
(* and neither a late answer nor the query after it changes what was told  *)
(* (core/ewelink/__init__.py l.146-149, cloud.py l.261-286).               *)
Remote == INSTANCE RemoteCall WITH
  stage <- [c \in Calls |-> Stage(c)], requests <- UnderWay

ImplementsRemoteCall == Remote!Spec

=============================================================================

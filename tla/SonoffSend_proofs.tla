--------------------------- MODULE SonoffSend_proofs ---------------------------
(* Proofs about SonoffSend, for every number of calls, switches and        *)
(* values, every delay and every clock: the switches that calls collect    *)
(* are handed on, an answer completes its own command, no future stays     *)
(* behind, messages keep their distance, and each call is a remote call.   *)
EXTENDS SonoffSend, TLAPS

BulkTyped ==
  /\ pc \in [Calls -> Steps]
  /\ bulk \in [Outlets -> Values \cup {None}]
  /\ wanted \in [Outlets -> Values \cup {None}]
  /\ handed \in [Outlets -> Values \cup {None}]

(* What is asked of a switch is collected, or else handed on last.         *)
Accounted ==
  \A o \in Outlets : wanted[o] = IF bulk[o] = None THEN handed[o] ELSE bulk[o]

(* Switches that are collected have a call that will wake for them.        *)
Attended == bulk # NoBulk => \E c \in BulkCalls : pc[c] = "bulk"

IInv == BulkTyped /\ Accounted /\ Attended

LEMMA InitInv == Init => IInv
  <1> SUFFICES ASSUME Init PROVE IInv
    OBVIOUS
  <1> USE DEF Init, NoBulk
  <1>1. BulkTyped
    BY DEF BulkTyped, Steps
  <1>2. Accounted /\ Attended
    BY DEF Accounted, Attended
  <1> QED BY <1>1, <1>2 DEF IInv

LEMMA AskedInv ==
  ASSUME NEW c \in Calls, IInv, Asked(c)
  PROVE  IInv'
  <1> USE SendAssumption DEF IInv
  <1>1. c \in BulkCalls /\ Goto(c, "bulk", BulkDelay) /\ handed' = handed
    BY DEF Asked
  <1>2. PICK w \in Wishes[c] :
          /\ bulk' = [bulk EXCEPT ![w[1]] = w[2]]
          /\ wanted' = [wanted EXCEPT ![w[1]] = w[2]]
    BY DEF Asked
  <1>3. w[1] \in Outlets /\ w[2] \in Values /\ w[2] # None
    BY <1>1
  <1>4. pc' \in [Calls -> Steps] /\ pc'[c] = "bulk"
    BY <1>1 DEF BulkTyped, Goto, Steps
  <1>5. BulkTyped'
    BY <1>1, <1>2, <1>3, <1>4 DEF BulkTyped
  <1>6. Accounted'
    BY <1>1, <1>2, <1>3 DEF Accounted, BulkTyped
  <1>7. Attended'
    BY <1>1, <1>4 DEF Attended
  <1> QED BY <1>5, <1>6, <1>7

LEMMA PoppedInv ==
  ASSUME NEW c \in Calls, IInv, Popped(c)
  PROVE  IInv'
  <1> USE DEF IInv
  <1>1. bulk' = NoBulk /\ wanted' = wanted
    BY DEF Popped
  <1>2. pc' \in [Calls -> Steps]
    BY DEF Popped, Goto, BulkTyped, Steps
  <1>3. handed' \in [Outlets -> Values \cup {None}]
        /\ \A o \in Outlets : handed'[o] = IF bulk[o] = None THEN handed[o] ELSE bulk[o]
    <2>1. CASE bulk = NoBulk
      BY <2>1 DEF Popped, NoBulk, BulkTyped
    <2>2. CASE bulk # NoBulk
      BY <2>2 DEF Popped, BulkTyped
    <2> QED BY <2>1, <2>2
  <1>4. BulkTyped'
    BY <1>1, <1>2, <1>3 DEF BulkTyped, NoBulk
  <1>5. Accounted'
    BY <1>1, <1>3 DEF Accounted, NoBulk
  <1>6. Attended'
    BY <1>1 DEF Attended, NoBulk
  <1> QED BY <1>4, <1>5, <1>6

(* Every other step leaves the collected switches and their calls alone.   *)
LEMMA OtherInv ==
  ASSUME IInv, UNCHANGED bulkVars, pc' \in [Calls -> Steps],
         \A c \in Calls : pc[c] = "bulk" => pc'[c] = "bulk"
  PROVE  IInv'
  <1> USE DEF IInv, bulkVars
  <1>1. BulkTyped' /\ Accounted'
    BY DEF BulkTyped, Accounted
  <1>2. Attended'
    BY DEF Attended, Calls, NoBulk
  <1> QED BY <1>1, <1>2

LEMMA CloudSendInv ==
  ASSUME NEW c \in Calls, IInv,
         \/ UiAsked(c) \/ UiTurn(c) \/ GapSleep(c) \/ Transmit(c)
         \/ TransmitFailed(c) \/ Awaited(c) \/ Answered(c) \/ TimedOut(c)
  PROVE  IInv'
  <1>1. PICK step \in Steps : pc' = [pc EXCEPT ![c] = step]
    BY DEF UiAsked, UiTurn, GapSleep, Transmit, TransmitFailed, Awaited, Answered,
           TimedOut, Return, Goto, Steps
  <1>2. pc[c] # "bulk"
    BY DEF UiAsked, UiTurn, GapSleep, Transmit, TransmitFailed, Awaited, Answered,
           TimedOut, Awake
  <1>3. UNCHANGED bulkVars
    BY DEF UiAsked, UiTurn, GapSleep, Transmit, TransmitFailed, Awaited, Answered,
           TimedOut
  <1>4. /\ pc' \in [Calls -> Steps]
        /\ \A d \in Calls : pc[d] = "bulk" => pc'[d] = "bulk"
    BY <1>1, <1>2 DEF IInv, BulkTyped
  <1> QED BY <1>3, <1>4, OtherInv

LEMMA NextInv == IInv /\ [Next]_vars => IInv'
  <1> SUFFICES ASSUME IInv, [Next]_vars PROVE IInv'
    OBVIOUS
  <1>1. CASE \E c \in Calls : Asked(c) \/ UiAsked(c) \/ Progress(c)
    BY <1>1, AskedInv, PoppedInv, CloudSendInv DEF Progress
  <1>2. CASE Served \/ Response \/ Tick \/ UNCHANGED vars
    <2>1. UNCHANGED <<pc, bulkVars>>
      BY <1>2 DEF Served, Response, Tick, vars, callVars
    <2> QED BY <2>1, OtherInv DEF IInv, BulkTyped
  <1> QED BY <1>1, <1>2 DEF Next

(* Whichever of the calls takes the collected switches, once no call is in *)
(* its sleep the last value asked of every switch has been handed on       *)
(* (send_bulk l.154-174).                                                  *)
THEOREM NothingIsLost == Spec => []NothingLost
  <1>1. IInv => NothingLost
    <2> SUFFICES ASSUME IInv, \A c \in BulkCalls : pc[c] # "bulk"
                 PROVE  handed = wanted
      BY DEF NothingLost
    <2>1. bulk = NoBulk
      BY DEF IInv, Attended
    <2> QED BY <2>1 DEF IInv, Accounted, BulkTyped, NoBulk
  <1> QED BY <1>1, InitInv, NextInv, PTL DEF Spec

-----------------------------------------------------------------------------
(* Types.                                                                  *)

LEMMA TypeInit == Init => SendTypeOK
  <1> SUFFICES ASSUME Init PROVE SendTypeOK
    OBVIOUS
  <1> USE SendAssumption
  <1>1. Longest \in Nat
    BY DEF Longest
  <1> QED
    BY <1>1 DEF Init, SendTypeOK, NoBulk, Steps, Replies, Results

(* A call that has sent its message has a sequence.                        *)
Numbered == \A c \in Calls : pc[c] \in {"sending", "wait"} => seq[c] # 0

(* What a call that draws a sequence leaves behind.                        *)
LEMMA DrawType ==
  ASSUME SendTypeOK, NEW c \in Calls, Draw(c)
  PROVE  /\ lastSeq' \in Nat /\ lastSeq' > lastSeq
         /\ seq' = [seq EXCEPT ![c] = lastSeq']
         /\ seq' \in [Calls -> 0 .. lastSeq']
  <1> USE DEF SendTypeOK
  <1>1. PICK t \in Clock :
          /\ seq' = [seq EXCEPT ![c] = SequenceAt(t)]
          /\ lastSeq' = SequenceAt(t)
    BY DEF Draw
  <1>2. SequenceAt(t) \in Nat /\ SequenceAt(t) > lastSeq
    BY DEF Clock, SequenceAt
  <1> QED BY <1>1, <1>2

(* The part of the types that a step of one call can disturb.              *)
CallTyped ==
  /\ pc \in [Calls -> Steps]
  /\ timer \in [Calls -> 0 .. Longest]
  /\ reply \in [Calls -> Replies]
  /\ result \in [Calls -> Results]
  /\ querying \subseteq Calls

SeqTyped ==
  /\ lastSeq \in Nat
  /\ seq \in [Calls -> 0 .. lastSeq]
  /\ waiters \subseteq 1 .. lastSeq

NetTyped ==
  /\ sent \subseteq Calls \X (1 .. lastSeq) \X BOOLEAN
  /\ executed \subseteq Calls
  /\ answers \subseteq (1 .. lastSeq) \X {"online", "error"}

PaceTyped ==
  /\ sinceSend \in 0 .. Gap /\ sinceUi \in 0 .. UiGap /\ quiet \in 0 .. Gap

BulkValues ==
  /\ bulk \in [Outlets -> Values \cup {None}]
  /\ wanted \in [Outlets -> Values \cup {None}]
  /\ handed \in [Outlets -> Values \cup {None}]

LEMMA TypeParts ==
  SendTypeOK <=> CallTyped /\ SeqTyped /\ NetTyped /\ PaceTyped /\ BulkValues
  BY DEF SendTypeOK, CallTyped, SeqTyped, NetTyped, PaceTyped, BulkValues

LEMMA TimesType ==
  /\ Longest \in Nat
  /\ 0 \in 0 .. Longest /\ BulkDelay \in 0 .. Longest /\ Timeout \in 0 .. Longest
  /\ sinceUi \in 0 .. UiGap => UiGap - sinceUi \in 0 .. Longest
  /\ sinceSend \in 0 .. Gap => Gap - sinceSend \in 0 .. Longest
  BY SendAssumption DEF Longest

LEMMA GotoType ==
  ASSUME SendTypeOK, NEW c \in Calls, NEW step \in Steps, NEW time \in 0 .. Longest,
         Goto(c, step, time)
  PROVE  pc' \in [Calls -> Steps] /\ timer' \in [Calls -> 0 .. Longest]
  BY DEF SendTypeOK, Goto

(* Drawing a sequence does not disturb the messages that are under way.    *)
LEMMA LaterMessages ==
  ASSUME SendTypeOK, NEW n \in Nat, n >= lastSeq
  PROVE  /\ sent \subseteq Calls \X (1 .. n) \X BOOLEAN
         /\ answers \subseteq (1 .. n) \X {"online", "error"}
         /\ waiters \subseteq 1 .. n
  <1>1. 1 .. lastSeq \subseteq 1 .. n
    BY DEF SendTypeOK
  <1> QED BY <1>1 DEF SendTypeOK

(* send_bulk.                                                              *)
LEMMA BulkType ==
  ASSUME SendTypeOK, NEW c \in Calls, Asked(c) \/ Popped(c)
  PROVE  SendTypeOK'
  <1> USE SendAssumption, TimesType
  <1>1. CASE Asked(c)
    <2>1. pc' \in [Calls -> Steps] /\ timer' \in [Calls -> 0 .. Longest]
      BY <1>1, GotoType DEF Asked, Steps
    <2>2. BulkValues'
      <3>1. PICK w \in Wishes[c] :
              /\ bulk' = [bulk EXCEPT ![w[1]] = w[2]]
              /\ wanted' = [wanted EXCEPT ![w[1]] = w[2]]
        BY <1>1 DEF Asked
      <3>2. w[2] \in Values /\ handed' = handed
        BY <1>1 DEF Asked
      <3> QED BY <3>1, <3>2 DEF BulkValues, SendTypeOK
    <2>3. CallTyped' /\ SeqTyped' /\ NetTyped' /\ PaceTyped'
      BY <1>1, <2>1, TypeParts
         DEF Asked, CallTyped, SeqTyped, NetTyped, PaceTyped, paceVars, netVars
    <2> QED BY <2>2, <2>3, TypeParts DEF SendTypeOK, CallTyped, SeqTyped, NetTyped, PaceTyped, BulkValues
  <1>2. CASE Popped(c)
    <2>1. pc' \in [Calls -> Steps] /\ timer' \in [Calls -> 0 .. Longest]
      BY <1>2, GotoType DEF Popped, Steps
    <2>2. BulkValues'
      BY <1>2 DEF Popped, BulkValues, SendTypeOK, NoBulk
    <2>3. lastSeq' \in Nat /\ lastSeq' >= lastSeq /\ seq' \in [Calls -> 0 .. lastSeq']
      BY <1>2, DrawType DEF Popped, SendTypeOK
    <2>4. CallTyped' /\ SeqTyped' /\ NetTyped' /\ PaceTyped'
      BY <1>2, <2>1, <2>3, LaterMessages
         DEF Popped, SendTypeOK, CallTyped, SeqTyped, NetTyped, PaceTyped, paceVars, netVars
    <2> QED BY <2>2, <2>4 DEF SendTypeOK, CallTyped, SeqTyped, NetTyped, PaceTyped, BulkValues
  <1> QED BY <1>1, <1>2

(* The way of a message up to the cloud.                                   *)
LEMMA SendingType ==
  ASSUME SendTypeOK, NEW c \in Calls,
         UiAsked(c) \/ UiTurn(c) \/ GapSleep(c) \/ Transmit(c) \/ TransmitFailed(c)
  PROVE  SendTypeOK'
  <1> USE SendAssumption, TimesType
  <1>1. pc' \in [Calls -> Steps] /\ timer' \in [Calls -> 0 .. Longest]
    <2>1. sinceUi \in 0 .. UiGap /\ sinceSend \in 0 .. Gap
      BY DEF SendTypeOK
    <2> QED BY <2>1, GotoType DEF UiAsked, UiTurn, GapSleep, Transmit, TransmitFailed, Steps
  <1>2. PaceTyped' /\ BulkValues'
    BY DEF SendTypeOK, UiAsked, UiTurn, GapSleep, Transmit, TransmitFailed, PaceTyped,
           BulkValues, paceVars, bulkVars
  <1>3. lastSeq' \in Nat /\ lastSeq' >= lastSeq /\ seq' \in [Calls -> 0 .. lastSeq']
    <2>1. UNCHANGED <<seq, lastSeq>> \/ Draw(c)
      BY DEF UiAsked, UiTurn, GapSleep, Transmit, TransmitFailed
    <2> QED BY <2>1, DrawType DEF SendTypeOK
  <1>4. sent' \subseteq Calls \X (1 .. lastSeq') \X BOOLEAN
    <2>1. CASE Transmit(c)
      <3>1. seq'[c] \in 1 .. lastSeq'
        BY <2>1, <1>3, DrawType DEF Transmit, SendTypeOK
      <3>2. sent' = sent \cup {<<c, seq'[c], c \in querying>>}
        BY <2>1 DEF Transmit
      <3>3. <<c, seq'[c], c \in querying>> \in Calls \X (1 .. lastSeq') \X BOOLEAN
        <4>1. CASE c \in querying
          BY <3>1, <4>1, (c \in querying) = TRUE
        <4>2. CASE c \notin querying
          BY <3>1, <4>2, (c \in querying) = FALSE
        <4> QED BY <4>1, <4>2
      <3>4. sent \subseteq Calls \X (1 .. lastSeq') \X BOOLEAN
        BY <1>3, LaterMessages DEF SendTypeOK
      <3> QED BY <3>2, <3>3, <3>4
    <2>2. CASE ~ Transmit(c)
      <3>1. sent' = sent
        BY <2>2 DEF UiAsked, UiTurn, GapSleep, TransmitFailed, netVars
      <3> QED BY <3>1, <1>3, LaterMessages DEF SendTypeOK
    <2> QED BY <2>1, <2>2
  <1>5. result' \in [Calls -> Results]
    BY DEF SendTypeOK, UiAsked, UiTurn, GapSleep, Transmit, TransmitFailed, Results
  <1>6. UNCHANGED <<reply, querying, waiters, executed, answers>>
    BY DEF UiAsked, UiTurn, GapSleep, Transmit, TransmitFailed, netVars
  <1> QED BY <1>1, <1>2, <1>3, <1>4, <1>5, <1>6, LaterMessages DEF SendTypeOK, PaceTyped, BulkValues

(* The way of an answer.                                                   *)
LEMMA AnswerType ==
  ASSUME SendTypeOK, Numbered, NEW c \in Calls, Awaited(c) \/ Answered(c) \/ TimedOut(c)
  PROVE  SendTypeOK'
  <1> USE SendAssumption, TimesType
  <1>1. pc' \in [Calls -> Steps] /\ timer' \in [Calls -> 0 .. Longest]
    BY GotoType DEF Awaited, Answered, TimedOut, Return, Steps
  <1>2. reply' \in [Calls -> Replies] /\ result' \in [Calls -> Results]
        /\ querying' \subseteq Calls /\ seq' \in [Calls -> 0 .. lastSeq]
    BY DEF SendTypeOK, Awaited, Answered, TimedOut, Return, Replies, Results
  <1>3. waiters' \subseteq 1 .. lastSeq
    <2>1. CASE Awaited(c)
      <3>1. seq[c] \in 1 .. lastSeq
        BY <2>1 DEF SendTypeOK, Numbered, Awaited, Awake
      <3> QED BY <2>1, <3>1 DEF SendTypeOK, Awaited
    <2>2. CASE Answered(c) \/ TimedOut(c)
      BY <2>2 DEF SendTypeOK, Answered, TimedOut
    <2> QED BY <2>1, <2>2
  <1>4. UNCHANGED <<bulkVars, lastSeq, paceVars, netVars>>
    BY DEF Awaited, Answered, TimedOut
  <1> QED BY <1>1, <1>2, <1>3, <1>4 DEF SendTypeOK, bulkVars, paceVars, netVars

LEMMA OutsideType ==
  ASSUME SendTypeOK, Served \/ Response \/ Tick \/ UNCHANGED vars
  PROVE  SendTypeOK'
  <1> USE SendAssumption
  <1>1. CASE Served
    <2>1. PICK m \in sent, value \in {"online", "error"} :
            /\ sent' = sent \ {m}
            /\ executed' = IF value = "online" /\ ~ m[3] THEN executed \cup {m[1]} ELSE executed
            /\ answers' = answers \cup {<<m[2], value>>}
      BY <1>1 DEF Served
    <2>2. m[1] \in Calls /\ m[2] \in 1 .. lastSeq
      BY DEF SendTypeOK
    <2>3. UNCHANGED <<callVars, bulkVars, lastSeq, waiters, paceVars>>
      BY <1>1 DEF Served
    <2> QED BY <2>1, <2>2, <2>3 DEF SendTypeOK, callVars, bulkVars, paceVars
  <1>2. CASE Response
    <2>1. reply' \in [Calls -> Replies] /\ answers' \subseteq answers
      BY <1>2 DEF Response, SendTypeOK, Replies
    <2>2. UNCHANGED <<pc, timer, seq, querying, result, bulkVars, lastSeq, waiters,
                      paceVars, sent, executed>>
      BY <1>2 DEF Response
    <2> QED BY <2>1, <2>2 DEF SendTypeOK, bulkVars, paceVars
  <1>3. CASE Tick
    <2>1. timer' \in [Calls -> 0 .. Longest]
      <3>1. \A n \in 0 .. Longest : Less(n) \in 0 .. Longest
        BY TimesType DEF Less
      <3> QED BY <1>3, <3>1 DEF Tick, SendTypeOK
    <2>2. PaceTyped'
      BY <1>3 DEF Tick, SendTypeOK, PaceTyped, More
    <2>3. UNCHANGED <<pc, seq, querying, reply, result, bulkVars, lastSeq, waiters, netVars>>
      BY <1>3 DEF Tick
    <2> QED BY <2>1, <2>2, <2>3 DEF SendTypeOK, PaceTyped, bulkVars, netVars
  <1>4. CASE UNCHANGED vars
    BY <1>4 DEF SendTypeOK, vars, callVars, bulkVars, paceVars, netVars
  <1> QED BY <1>1, <1>2, <1>3, <1>4

LEMMA TypeNext == SendTypeOK /\ Numbered /\ [Next]_vars => SendTypeOK'
  <1> SUFFICES ASSUME SendTypeOK, Numbered, [Next]_vars PROVE SendTypeOK'
    OBVIOUS
  <1>1. CASE \E c \in Calls : Asked(c) \/ UiAsked(c) \/ Progress(c)
    BY <1>1, BulkType, SendingType, AnswerType DEF Progress
  <1>2. CASE Served \/ Response \/ Tick \/ UNCHANGED vars
    BY <1>2, OutsideType
  <1> QED BY <1>1, <1>2 DEF Next

-----------------------------------------------------------------------------
(* Sequences, and what they lead to.                                       *)

(* No two calls have the same sequence.                                    *)
Unique == \A c, d \in Calls : seq[c] = seq[d] /\ seq[c] # 0 => c = d

(* A message with the sequence of a call is a message of that call, and a  *)
(* query only when the call has come to its query.                         *)
OwnMessages ==
  \A m \in sent, c \in Calls : m[2] = seq[c] => m[1] = c /\ (m[3] => c \in querying)

(* A good answer with the sequence of an update is about that update.      *)
TrueAnswers ==
  \A a \in answers, c \in Calls :
    a[1] = seq[c] /\ a[2] = "online" /\ c \notin querying => c \in executed

TrueReplies ==
  \A c \in Calls :
    /\ reply[c] = "online" => c \in executed
    /\ pc[c] = "wait" => c \notin querying

SeqInv ==
  SendTypeOK /\ Numbered /\ Unique /\ OwnMessages /\ TrueAnswers /\ TrueReplies
    /\ OnlineIsTrue /\ NoWaiterLeaks

LEMMA SeqInit == Init => SeqInv
  <1> SUFFICES ASSUME Init PROVE SeqInv
    OBVIOUS
  <1>1. \A c \in Calls : pc[c] \in {"idle", "done"} /\ seq[c] = 0
                         /\ reply[c] = "none" /\ result[c] = "none"
    BY DEF Init
  <1>2. waiters = {} /\ sent = {} /\ answers = {} /\ querying = {}
    BY DEF Init
  <1>3. NoWaiterLeaks
    BY <1>1, <1>2 DEF NoWaiterLeaks
  <1> QED
    BY <1>1, <1>2, <1>3, TypeInit
       DEF SeqInv, Numbered, Unique, OwnMessages, TrueAnswers, TrueReplies, OnlineIsTrue

(* A step that leaves the waiting calls and their sequences alone leaves   *)
(* no future behind.                                                       *)
LEMMA WaitersKept ==
  ASSUME NoWaiterLeaks, waiters' = waiters,
         \A c \in Calls : (pc'[c] = "wait") <=> (pc[c] = "wait"),
         \A c \in Calls : pc[c] = "wait" => seq'[c] = seq[c]
  PROVE  NoWaiterLeaks'
  <1>1. {c \in Calls : pc'[c] = "wait"} = {c \in Calls : pc[c] = "wait"}
    OBVIOUS
  <1>2. {seq'[c] : c \in {d \in Calls : pc'[d] = "wait"}}
          = {seq[c] : c \in {d \in Calls : pc[d] = "wait"}}
    BY <1>1
  <1> QED BY <1>2 DEF NoWaiterLeaks

(* Drawing a sequence: it is newer than all there are.                     *)
LEMMA Drawn ==
  ASSUME SeqInv, NEW c \in Calls, Draw(c), pc[c] # "wait",
         UNCHANGED <<answers, querying, executed>>
  PROVE  /\ Unique' /\ TrueAnswers' /\ seq'[c] # 0
         /\ \A d \in Calls : d # c => seq'[d] = seq[d]
         /\ \A m \in sent, d \in Calls : m[2] = seq'[d] => m[1] = d /\ (m[3] => d \in querying)
  <1> USE DEF SeqInv
  <1>1. /\ lastSeq \in Nat /\ lastSeq' \in Nat /\ lastSeq' > lastSeq
        /\ seq' = [seq EXCEPT ![c] = lastSeq']
        /\ seq \in [Calls -> 0 .. lastSeq]
    BY DrawType DEF SendTypeOK
  <1>2. seq'[c] = lastSeq' /\ \A d \in Calls : d # c => seq'[d] = seq[d] /\ seq[d] # lastSeq'
    BY <1>1
  <1>3. \A m \in sent : m[2] # lastSeq'
    BY <1>1 DEF SendTypeOK
  <1>4. \A a \in answers : a[1] # lastSeq'
    BY <1>1 DEF SendTypeOK
  <1>5. Unique'
    BY <1>2 DEF Unique
  <1>6. \A m \in sent, d \in Calls : m[2] = seq'[d] => m[1] = d /\ (m[3] => d \in querying)
    BY <1>2, <1>3 DEF OwnMessages
  <1>7. TrueAnswers'
    BY <1>2, <1>4 DEF TrueAnswers
  <1> QED BY <1>1, <1>2, <1>5, <1>6, <1>7

LEMMA BulkSeq ==
  ASSUME SeqInv, NEW c \in Calls,
         Asked(c) \/ Popped(c) \/ UiAsked(c) \/ UiTurn(c) \/ GapSleep(c) \/ TransmitFailed(c)
  PROVE  SeqInv'
  <1> USE DEF SeqInv
  <1>1. SendTypeOK'
    BY BulkType, SendingType
  <1>2. UNCHANGED <<sent, answers, querying, executed, reply, waiters>>
    BY DEF Asked, Popped, UiAsked, UiTurn, GapSleep, TransmitFailed, netVars
  <1>3. PICK step \in {"bulk", "done", "gap", "ui"} : pc' = [pc EXCEPT ![c] = step]
    BY DEF Asked, Popped, UiAsked, UiTurn, GapSleep, TransmitFailed, Goto
  <1>4. pc[c] \notin {"sending", "wait"}
    BY DEF Asked, Popped, UiAsked, UiTurn, GapSleep, TransmitFailed, Awake
  <1>5. UNCHANGED seq \/ Draw(c)
    BY DEF Asked, Popped, UiAsked, UiTurn, GapSleep, TransmitFailed
  <1>6. Unique' /\ OwnMessages' /\ TrueAnswers' /\ \A d \in Calls : d # c => seq'[d] = seq[d]
    <2>1. CASE UNCHANGED seq
      BY <2>1, <1>2 DEF Unique, OwnMessages, TrueAnswers
    <2>2. CASE Draw(c)
      BY <2>2, <1>2, <1>4, Drawn DEF OwnMessages
    <2> QED BY <2>1, <2>2, <1>5
  <1>7. \A d \in Calls : pc'[d] \in {"sending", "wait"} <=> pc[d] \in {"sending", "wait"}
    BY <1>3, <1>4 DEF SendTypeOK
  <1>8. \A d \in Calls : (pc'[d] = "wait") <=> (pc[d] = "wait")
    BY <1>3, <1>4 DEF SendTypeOK
  <1>9. Numbered' /\ TrueReplies'
    BY <1>2, <1>4, <1>6, <1>7, <1>8 DEF Numbered, TrueReplies
  <1>10. NoWaiterLeaks'
    BY <1>2, <1>4, <1>6, <1>8, WaitersKept
  <1>11. OnlineIsTrue'
    <2>1. \A d \in Calls : result'[d] = "online" => result[d] = "online"
      BY DEF Asked, Popped, UiAsked, UiTurn, GapSleep, TransmitFailed, SendTypeOK
    <2> QED BY <2>1, <1>2 DEF OnlineIsTrue
  <1> QED BY <1>1, <1>6, <1>9, <1>10, <1>11

LEMMA TripleParts ==
  ASSUME NEW m, NEW a, NEW b, NEW q, m = <<a, b, q>>
  PROVE  m[1] = a /\ m[2] = b /\ m[3] = q
  OBVIOUS

LEMMA TransmitSeq ==
  ASSUME SeqInv, NEW c \in Calls, Transmit(c)
  PROVE  SeqInv'
  <1> USE DEF SeqInv
  <1>1. SendTypeOK'
    BY SendingType
  <1>2. UNCHANGED <<answers, querying, executed, reply, result, waiters>>
        /\ pc[c] = "gap" /\ pc' = [pc EXCEPT ![c] = "sending"]
    BY DEF Transmit, Goto, Awake
  <1>3. Unique' /\ TrueAnswers' /\ seq'[c] # 0 /\ \A d \in Calls : d # c => seq'[d] = seq[d]
    <2>1. CASE seq[c] # 0
      BY <2>1, <1>2 DEF Transmit, Unique, TrueAnswers
    <2>2. CASE seq[c] = 0
      <3>1. Draw(c)
        BY <2>2 DEF Transmit
      <3> QED BY <3>1, <2>2, <1>2, Drawn
    <2> QED BY <2>1, <2>2
  <1>4. \A m \in sent, d \in Calls : m[2] = seq'[d] => m[1] = d /\ (m[3] => d \in querying)
    <2>1. CASE seq[c] # 0
      BY <2>1 DEF Transmit, OwnMessages
    <2>2. CASE seq[c] = 0
      <3>1. Draw(c)
        BY <2>2 DEF Transmit
      <3> QED BY <3>1, <2>2, <1>2, Drawn
    <2> QED BY <2>1, <2>2
  <1>5. OwnMessages'
    <2>1. \A m \in sent' : m \in sent \/ (m[1] = c /\ m[2] = seq'[c] /\ (m[3] => c \in querying))
      <3>1. \A m \in sent' \ sent : m = <<c, seq'[c], c \in querying>>
        BY DEF Transmit
      <3>2. \A m \in sent' \ sent : m[1] = c /\ m[2] = seq'[c] /\ m[3] = (c \in querying)
        BY <3>1, TripleParts, Zenon
      <3> QED BY <3>2, Zenon
    <2> QED BY <1>2, <1>3, <1>4, <2>1 DEF OwnMessages, Unique
  <1>6. \A d \in Calls : (pc'[d] = "wait") <=> (pc[d] = "wait")
    BY <1>2 DEF SendTypeOK
  <1>7. Numbered' /\ TrueReplies'
    BY <1>2, <1>3, <1>6 DEF Numbered, TrueReplies, SendTypeOK
  <1>8. NoWaiterLeaks'
    BY <1>2, <1>3, <1>6, WaitersKept
  <1> QED BY <1>1, <1>2, <1>3, <1>5, <1>7, <1>8 DEF OnlineIsTrue

LEMMA AwaitedSeq ==
  ASSUME SeqInv, NEW c \in Calls, Awaited(c)
  PROVE  SeqInv'
  <1> USE DEF SeqInv
  <1>1. SendTypeOK'
    BY AnswerType
  <1>2. UNCHANGED <<seq, sent, answers, querying, executed, reply, result>> /\ pc[c] = "sending"
    BY DEF Awaited, Awake, netVars
  <1>3. Unique' /\ OwnMessages' /\ TrueAnswers' /\ OnlineIsTrue'
    BY <1>2 DEF Unique, OwnMessages, TrueAnswers, OnlineIsTrue
  <1>4. CASE c \in querying
    <2>1. pc' = [pc EXCEPT ![c] = "done"] /\ waiters' = waiters
      BY <1>4 DEF Awaited, Goto
    <2>2. \A d \in Calls : (pc'[d] = "wait") <=> (pc[d] = "wait")
      BY <1>2, <2>1 DEF SendTypeOK
    <2>3. Numbered' /\ TrueReplies'
      BY <1>2, <2>1, <2>2 DEF Numbered, TrueReplies, SendTypeOK
    <2> QED BY <1>1, <1>2, <1>3, <2>1, <2>2, <2>3, WaitersKept
  <1>5. CASE c \notin querying
    <2>1. pc' = [pc EXCEPT ![c] = "wait"] /\ waiters' = waiters \cup {seq[c]}
      BY <1>5 DEF Awaited, Goto
    <2>2. Numbered' /\ TrueReplies'
      BY <1>2, <1>5, <2>1 DEF Numbered, TrueReplies, SendTypeOK
    <2>3. {d \in Calls : pc'[d] = "wait"} = {d \in Calls : pc[d] = "wait"} \cup {c}
      BY <2>1 DEF SendTypeOK
    <2>4. NoWaiterLeaks'
      BY <1>2, <2>1, <2>3 DEF NoWaiterLeaks
    <2> QED BY <1>1, <1>3, <2>2, <2>4
  <1> QED BY <1>4, <1>5

LEMMA ReturnSeq ==
  ASSUME SeqInv, NEW c \in Calls, Answered(c) \/ TimedOut(c)
  PROVE  SeqInv'
  <1> USE DEF SeqInv
  <1>1. SendTypeOK'
    BY AnswerType
  <1>2. UNCHANGED <<sent, answers, executed>> /\ pc[c] = "wait" /\ waiters' = waiters \ {seq[c]}
    BY DEF Answered, TimedOut, Awake, netVars
  <1>3. PICK step \in {"gap", "done"} : pc' = [pc EXCEPT ![c] = step]
    BY DEF Answered, TimedOut, Return, Goto
  <1>4. /\ seq'[c] \in {0, seq[c]} /\ \A d \in Calls : d # c => seq'[d] = seq[d]
        /\ querying \subseteq querying' /\ querying' \subseteq querying \cup {c}
    BY DEF Answered, TimedOut, Return, SendTypeOK
  <1>5. Unique'
    BY <1>4 DEF Unique
  <1>6. \A m \in sent : m[2] # 0
    BY DEF SendTypeOK
  <1>7. \A a \in answers : a[1] # 0
    BY DEF SendTypeOK
  <1>8. OwnMessages'
    BY <1>2, <1>4, <1>6 DEF OwnMessages
  <1>9. TrueAnswers'
    BY <1>2, <1>4, <1>7 DEF TrueAnswers
  <1>10. \A d \in Calls : (pc'[d] = "wait") <=> (pc[d] = "wait" /\ d # c)
    BY <1>2, <1>3 DEF SendTypeOK
  <1>11. Numbered'
    BY <1>3, <1>4 DEF Numbered, SendTypeOK
  <1>12. TrueReplies'
    <2>1. \A d \in Calls : reply'[d] = "online" => reply[d] = "online"
      BY DEF Answered, TimedOut, SendTypeOK
    <2> QED BY <1>2, <1>4, <1>10, <2>1 DEF TrueReplies
  <1>13. OnlineIsTrue'
    <2>1. \A d \in Calls : result'[d] = "online" => result[d] = "online" \/ reply[d] = "online"
      BY DEF Answered, TimedOut, Return, SendTypeOK
    <2> QED BY <1>2, <2>1 DEF OnlineIsTrue, TrueReplies
  <1>14. NoWaiterLeaks'
    <2>1. {d \in Calls : pc'[d] = "wait"} = {d \in Calls : pc[d] = "wait"} \ {c}
      BY <1>10
    <2>2. \A d \in Calls : pc[d] = "wait" /\ seq[d] = seq[c] => d = c
      BY <1>2 DEF Unique, Numbered
    <2>3. {seq'[d] : d \in {e \in Calls : pc'[e] = "wait"}}
            = {seq[d] : d \in {e \in Calls : pc[e] = "wait"}} \ {seq[c]}
      BY <2>1, <2>2, <1>4
    <2> QED BY <1>2, <2>3 DEF NoWaiterLeaks
  <1> QED BY <1>1, <1>5, <1>8, <1>9, <1>11, <1>12, <1>13, <1>14

LEMMA OutsideSeq ==
  ASSUME SeqInv, Served \/ Response \/ Tick \/ UNCHANGED vars
  PROVE  SeqInv'
  <1> USE DEF SeqInv
  <1>1. SendTypeOK'
    BY OutsideType
  <1>2. UNCHANGED <<pc, seq, querying, result, waiters>>
    BY DEF Served, Response, Tick, vars, callVars
  <1>3. Numbered' /\ Unique' /\ NoWaiterLeaks'
    BY <1>2 DEF Numbered, Unique, NoWaiterLeaks
  <1>4. CASE Served
    <2>1. PICK m \in sent, value \in {"online", "error"} :
            /\ sent' = sent \ {m}
            /\ executed' = IF value = "online" /\ ~ m[3] THEN executed \cup {m[1]} ELSE executed
            /\ answers' = answers \cup {<<m[2], value>>}
            /\ UNCHANGED reply
      BY <1>4 DEF Served, callVars
    <2>2. OwnMessages'
      BY <1>2, <2>1 DEF OwnMessages
    <2>3. TrueAnswers'
      <3> SUFFICES ASSUME NEW a \in answers', NEW c \in Calls,
                          a[1] = seq[c], a[2] = "online", c \notin querying
                   PROVE  c \in executed'
        BY <1>2 DEF TrueAnswers
      <3>1. CASE a \in answers
        BY <3>1, <2>1 DEF TrueAnswers
      <3>2. CASE a = <<m[2], value>>
        BY <3>2, <2>1 DEF OwnMessages
      <3> QED BY <3>1, <3>2, <2>1
    <2>4. TrueReplies' /\ OnlineIsTrue'
      BY <1>2, <2>1 DEF TrueReplies, OnlineIsTrue
    <2> QED BY <1>1, <1>3, <2>2, <2>3, <2>4
  <1>5. CASE Response
    <2>1. PICK a \in answers :
            /\ answers' = answers \ {a}
            /\ reply' = [c \in Calls |->
                 IF a[1] \in waiters /\ pc[c] = "wait" /\ seq[c] = a[1] /\ reply[c] = "none"
                   THEN a[2] ELSE reply[c]]
            /\ UNCHANGED <<sent, executed>>
      BY <1>5 DEF Response
    <2>2. OwnMessages' /\ TrueAnswers' /\ OnlineIsTrue'
      BY <1>2, <2>1 DEF OwnMessages, TrueAnswers, OnlineIsTrue
    <2>3. TrueReplies'
      BY <1>2, <2>1 DEF TrueReplies, TrueAnswers
    <2> QED BY <1>1, <1>3, <2>2, <2>3
  <1>6. CASE Tick \/ UNCHANGED vars
    <2>1. UNCHANGED <<reply, netVars>>
      BY <1>6 DEF Tick, vars, callVars
    <2>2. OwnMessages' /\ TrueAnswers' /\ OnlineIsTrue' /\ TrueReplies'
      BY <1>2, <2>1 DEF OwnMessages, TrueAnswers, OnlineIsTrue, TrueReplies, netVars
    <2> QED BY <1>1, <1>3, <2>2
  <1> QED BY <1>4, <1>5, <1>6

LEMMA SeqNext == SeqInv /\ [Next]_vars => SeqInv'
  <1> SUFFICES ASSUME SeqInv, [Next]_vars PROVE SeqInv'
    OBVIOUS
  <1>1. CASE \E c \in Calls : Asked(c) \/ UiAsked(c) \/ Progress(c)
    BY <1>1, BulkSeq, TransmitSeq, AwaitedSeq, ReturnSeq DEF Progress
  <1>2. CASE Served \/ Response \/ Tick \/ UNCHANGED vars
    BY <1>2, OutsideSeq
  <1> QED BY <1>1, <1>2 DEF Next

LEMMA SeqCorrect == Spec => []SeqInv
  BY SeqInit, SeqNext, PTL DEF Spec

(* Every variable of the calls, the clocks and the network keeps its type. *)
THEOREM SendTypeCorrect == Spec => []SendTypeOK
  <1>1. SeqInv => SendTypeOK
    BY DEF SeqInv
  <1> QED BY <1>1, SeqCorrect, PTL

(* A call returns "online" only for a command the cloud has carried out,   *)
(* whatever the clock shows and however late an answer is (base.py         *)
(* l.50-59, cloud.py l.261-271).                                           *)
THEOREM AnswersAreOwn == Spec => []OnlineIsTrue
  <1>1. SeqInv => OnlineIsTrue
    BY DEF SeqInv
  <1> QED BY <1>1, SeqCorrect, PTL

(* The futures are exactly those of the calls that wait (cloud.py          *)
(* l.273-283).                                                             *)
THEOREM WaitersAreWaiting == Spec => []NoWaiterLeaks
  <1>1. SeqInv => NoWaiterLeaks
    BY DEF SeqInv
  <1> QED BY <1>1, SeqCorrect, PTL

-----------------------------------------------------------------------------
(* The distance between messages.                                          *)

(* last_ts is never older than the last message: a send that fails moves   *)
(* it as well.                                                             *)
PaceInv == SendTypeOK /\ sinceSend <= quiet

LEMMA PaceNext ==
  ASSUME PaceInv, SeqInv, [Next]_vars
  PROVE  PaceInv' /\ (sent' \ sent # {} => quiet = Gap)
  <1> USE DEF PaceInv
  <1>1. SendTypeOK'
    BY SeqNext DEF SeqInv
  <1>2. CASE \E c \in Calls : Transmit(c)
    BY <1>1, <1>2, SendAssumption DEF Transmit, SendTypeOK
  <1>3. CASE \E c \in Calls : TransmitFailed(c)
    BY <1>1, <1>3, SendAssumption DEF TransmitFailed, SendTypeOK, netVars
  <1>4. CASE Tick
    BY <1>1, <1>4, SendAssumption DEF Tick, SendTypeOK, netVars, More
  <1>5. CASE Served
    <2>1. PICK m \in sent : sent' = sent \ {m}
      BY <1>5 DEF Served
    <2> QED BY <1>1, <1>5, <2>1 DEF Served, paceVars
  <1>6. CASE Response \/ UNCHANGED vars
    BY <1>1, <1>6 DEF Response, vars, paceVars, netVars
  <1>7. CASE \E c \in Calls : Asked(c) \/ Popped(c) \/ UiAsked(c) \/ UiTurn(c) \/ GapSleep(c)
                              \/ Awaited(c) \/ Answered(c) \/ TimedOut(c)
    <2>1. UNCHANGED <<sinceSend, quiet, sent>>
      BY <1>7 DEF Asked, Popped, UiAsked, UiTurn, GapSleep, Awaited, Answered, TimedOut,
                  paceVars, netVars
    <2> QED BY <1>1, <2>1
  <1> QED BY <1>2, <1>3, <1>4, <1>5, <1>6, <1>7 DEF Next, Progress

(* However many calls wake together, messages leave at least Gap apart     *)
(* (cloud.py l.456-460, "Protect cloud from DDoS").                        *)
THEOREM MessagesAreSpaced == Spec => Spaced
  <1>1. Init => PaceInv
    BY TypeInit, SendAssumption DEF Init, PaceInv
  <1>2. PaceInv /\ SeqInv /\ [Next]_vars => PaceInv'
    BY PaceNext
  <1>3. PaceInv /\ SeqInv /\ [Next]_vars => [sent' \ sent # {} => quiet = Gap]_vars
    BY PaceNext
  <1> QED BY <1>1, <1>2, <1>3, SeqCorrect, PTL DEF Spec, Spaced

-----------------------------------------------------------------------------
(* Each call is a remote call.                                             *)

(* The result of a call is there while it asks for the state and when it   *)
(* is over, and at no other time.                                          *)
Told ==
  \A c \in Calls :
    /\ c \in querying => result[c] = "online" /\ pc[c] \in {"gap", "sending", "done"}
    /\ result[c] # "none" => c \in querying \/ pc[c] = "done"

Updates == {m \in sent : ~ m[3]}

(* The update of a call is on its way once at most, and only after the     *)
(* call has sent it.                                                       *)
Requested ==
  /\ \A m \in Updates : Stage(m[1]) \notin {"new", "open"}
  /\ \A m, n \in Updates : m[1] = n[1] => m = n

CallInv == SeqInv /\ Told /\ Requested

LEMMA CallInit == Init => CallInv /\ Remote!Init
  <1> SUFFICES ASSUME Init PROVE CallInv /\ Remote!Init
    OBVIOUS
  <1>1. \A c \in Calls : Stage(c) \in {"new", "over"}
    BY DEF Init, Stage
  <1>2. Updates = {} /\ UnderWay = {}
    BY DEF Init, Updates, UnderWay
  <1>3. Told /\ Requested
    BY <1>2 DEF Init, Told, Requested
  <1>4. Remote!Init
    BY <1>1, <1>2 DEF Init, Remote!Init
  <1> QED BY <1>3, <1>4, SeqInit DEF CallInv

Remains == [Remote!Next]_(Remote!callVars)

(* A step that changes neither what callers see nor the updates.           *)
LEMMA SameCalls ==
  ASSUME CallInv, \A c \in Calls : Stage(c)' = Stage(c), Updates' = Updates,
         UNCHANGED executed
  PROVE  Requested' /\ Remains
  <1>1. UnderWay' = UnderWay
    BY DEF UnderWay, Updates
  <1>2. [c \in Calls |-> Stage(c)]' = [c \in Calls |-> Stage(c)]
    OBVIOUS
  <1>3. Remains
    BY <1>1, <1>2 DEF Remains, Remote!callVars
  <1>4. \A m \in Updates : m[1] \in Calls
    BY DEF CallInv, SeqInv, SendTypeOK, Updates
  <1>5. Requested'
    BY <1>4 DEF CallInv, Requested
  <1> QED BY <1>3, <1>5

(* A step that moves one call on, and leaves the updates alone.            *)
LEMMA OneMoves ==
  ASSUME CallInv, NEW c \in Calls, NEW from, NEW to,
         Stage(c) = from, Stage(c)' = to, to \notin {"new", "open"} \/ from = "new",
         \A d \in Calls \ {c} : Stage(d)' = Stage(d),
         Updates' = Updates, UNCHANGED executed
  PROVE  Requested' /\ Remote!Move(c, from, to) /\ UNCHANGED <<UnderWay, executed>>
  <1>1. UnderWay' = UnderWay
    BY DEF UnderWay, Updates
  <1>2. \A m \in Updates : m[1] \in Calls
    BY DEF CallInv, SeqInv, SendTypeOK, Updates
  <1>3. Requested'
    BY <1>2 DEF CallInv, Requested
  <1>4. [d \in Calls |-> Stage(d)]' = [[d \in Calls |-> Stage(d)] EXCEPT ![c] = to]
    OBVIOUS
  <1>5. Remote!Move(c, from, to)
    BY <1>4 DEF Remote!Move
  <1> QED BY <1>1, <1>3, <1>5

(* The other calls do not notice.                                          *)
LEMMA OtherCalls ==
  ASSUME SendTypeOK, NEW c \in Calls, Asked(c) \/ UiAsked(c) \/ Progress(c)
  PROVE  \A d \in Calls \ {c} :
           /\ pc'[d] = pc[d] /\ result'[d] = result[d] /\ (d \in querying' <=> d \in querying)
           /\ Stage(d)' = Stage(d)
  <1>1. \E step \in Steps : pc' = [pc EXCEPT ![c] = step]
    BY DEF Asked, UiAsked, Progress, Popped, UiTurn, GapSleep, Transmit, TransmitFailed,
           Awaited, Answered, TimedOut, Return, Goto, Steps
  <1>2. result' = result \/ \E value : result' = [result EXCEPT ![c] = value]
    BY DEF Asked, UiAsked, Progress, Popped, UiTurn, GapSleep, Transmit, TransmitFailed,
           Awaited, Answered, TimedOut, Return
  <1>3. querying' = querying \/ querying' = querying \cup {c}
    BY DEF Asked, UiAsked, Progress, Popped, UiTurn, GapSleep, Transmit, TransmitFailed,
           Awaited, Answered, TimedOut, Return
  <1> QED BY <1>1, <1>2, <1>3 DEF SendTypeOK, Stage

(* Told from what it says of the one call that has moved.                  *)
LEMMA ToldOne ==
  ASSUME SendTypeOK, Told, NEW c \in Calls, Asked(c) \/ UiAsked(c) \/ Progress(c),
         c \in querying' => result'[c] = "online" /\ pc'[c] \in {"gap", "sending", "done"},
         result'[c] # "none" => c \in querying' \/ pc'[c] = "done"
  PROVE  Told'
  BY OtherCalls DEF Told

LEMMA SameUpdates ==
  ASSUME sent' = sent
  PROVE  Updates' = Updates
  BY DEF Updates

(* send_bulk, and the call of uiActive.                                    *)
LEMMA OpeningCalls ==
  ASSUME CallInv, NEW c \in Calls, Asked(c) \/ UiAsked(c)
  PROVE  Told' /\ Requested' /\ Remains
  <1> USE DEF CallInv, SeqInv
  <1>1. /\ pc[c] = "idle" /\ pc'[c] \in {"bulk", "ui"}
        /\ UNCHANGED <<querying, result, sent, executed>>
    BY DEF Asked, UiAsked, Goto, SendTypeOK, netVars
  <1>2. c \notin querying /\ result[c] = "none"
    BY <1>1 DEF Told
  <1>3. Told'
    BY <1>1, <1>2, ToldOne
  <1>4. Stage(c) = "new" /\ Stage(c)' = "open"
    BY <1>1, <1>2 DEF Stage
  <1>5. Requested' /\ Remote!Move(c, "new", "open") /\ UNCHANGED <<UnderWay, executed>>
    BY <1>1, <1>4, OtherCalls, SameUpdates, OneMoves
  <1>6. Remote!Open(c)
    BY <1>5 DEF Remote!Open
  <1> QED BY <1>3, <1>5, <1>6 DEF Remains, Remote!Next

(* A call that finds nothing collected; one that takes all.                *)
LEMMA PoppedCalls ==
  ASSUME CallInv, NEW c \in Calls, Popped(c)
  PROVE  Told' /\ Requested' /\ Remains
  <1> USE DEF CallInv, SeqInv
  <1>1. /\ pc[c] = "bulk" /\ pc'[c] \in {"gap", "done"}
        /\ UNCHANGED <<querying, result, sent, executed>>
    BY DEF Popped, Awake, Goto, SendTypeOK, netVars
  <1>2. c \notin querying /\ result[c] = "none"
    BY <1>1 DEF Told
  <1>3. Told'
    BY <1>1, <1>2, ToldOne DEF Progress
  <1>4. \A d \in Calls \ {c} : Stage(d)' = Stage(d)
    BY OtherCalls DEF Progress
  <1>5. CASE pc'[c] = "gap"
    <2>1. Stage(c) = "open" /\ Stage(c)' = "open"
      BY <1>1, <1>2, <1>5 DEF Stage
    <2> QED BY <1>1, <1>3, <1>4, <2>1, SameUpdates, SameCalls
  <1>6. CASE pc'[c] = "done"
    <2>1. Stage(c) = "open" /\ Stage(c)' = "over"
      BY <1>1, <1>2, <1>6 DEF Stage
    <2>2. Requested' /\ Remote!Move(c, "open", "over") /\ UNCHANGED <<UnderWay, executed>>
      BY <1>1, <1>4, <2>1, SameUpdates, OneMoves
    <2>3. Remote!Join(c)
      BY <2>2 DEF Remote!Join
    <2> QED BY <1>3, <2>2, <2>3 DEF Remains, Remote!Next
  <1> QED BY <1>1, <1>5, <1>6

(* Waiting for the distance, and the query of a call that has been told.   *)
LEMMA WaitingCalls ==
  ASSUME CallInv, NEW c \in Calls, UiTurn(c) \/ GapSleep(c) \/ Awaited(c)
  PROVE  Told' /\ Requested' /\ Remains
  <1> USE DEF CallInv, SeqInv
  <1>1. /\ UNCHANGED <<querying, result, sent, executed>>
        /\ \/ pc[c] \in {"ui", "gap"} /\ pc'[c] \in {"ui", "gap"}
              /\ (pc[c] = "gap" => pc'[c] = "gap")
           \/ pc[c] = "sending" /\ pc'[c] = IF c \in querying THEN "done" ELSE "wait"
    BY DEF UiTurn, GapSleep, Awaited, Awake, Goto, SendTypeOK, netVars
  <1>2. Told'
    BY <1>1, ToldOne DEF Told, Progress
  <1>3. Stage(c)' = Stage(c)
    BY <1>1 DEF Told, Stage
  <1>4. \A d \in Calls : Stage(d)' = Stage(d)
    BY <1>3, OtherCalls DEF Progress
  <1> QED BY <1>1, <1>2, <1>4, SameUpdates, SameCalls

LEMMA NewMessage ==
  ASSUME NEW c, NEW n, NEW query \in BOOLEAN, sent' = sent \cup {<<c, n, query>>}
  PROVE  Updates' = IF query THEN Updates ELSE Updates \cup {<<c, n, query>>}
  <1> DEFINE new == <<c, n, query>>
  <1>1. new[3] = query
    BY TripleParts
  <1> HIDE DEF new
  <1>2. sent' = sent \cup {new}
    BY DEF new
  <1>3. Updates' = IF query THEN Updates ELSE Updates \cup {new}
    BY <1>1, <1>2 DEF Updates
  <1> QED BY <1>3 DEF new

(* The message of an update is the request; that of a query is not.        *)
LEMMA TransmitCalls ==
  ASSUME CallInv, NEW c \in Calls, Transmit(c)
  PROVE  Told' /\ Requested' /\ Remains
  <1> USE DEF CallInv, SeqInv
  <1>1. /\ pc[c] = "gap" /\ pc'[c] = "sending" /\ UNCHANGED <<querying, result, executed>>
        /\ sent' = sent \cup {<<c, seq'[c], c \in querying>>}
    BY DEF Transmit, Awake, Goto, SendTypeOK
  <1>2. Told'
    BY <1>1, ToldOne DEF Told, Progress
  <1>3. \A d \in Calls \ {c} : Stage(d)' = Stage(d)
    BY OtherCalls DEF Progress
  <1>4. CASE c \in querying
    <2>1. result[c] = "online"
      BY <1>4 DEF Told
    <2>2. \A d \in Calls : Stage(d)' = Stage(d)
      BY <1>1, <1>3, <2>1 DEF Stage
    <2>3. Updates' = Updates
      BY <1>1, <1>4, (c \in querying) = TRUE, NewMessage
    <2> QED BY <1>1, <1>2, <2>2, <2>3, SameCalls
  <1>5. CASE c \notin querying
    <2> DEFINE new == <<c, seq'[c], FALSE>>
    <2>1. result[c] = "none"
      BY <1>1, <1>5 DEF Told
    <2>2. Stage(c) = "open" /\ Stage(c)' = "sent"
      BY <1>1, <2>1 DEF Stage
    <2>3. Updates' = Updates \cup {new}
      BY <1>1, <1>5, (c \in querying) = FALSE, NewMessage
    <2>4. new[1] = c /\ \A m \in Updates : m[1] \in Calls /\ m[1] # c
      BY <2>2 DEF SendTypeOK, Updates, Requested
    <2>5. Requested'
      BY <1>3, <2>2, <2>3, <2>4 DEF Requested
    <2>6. UnderWay' = UnderWay \cup {c}
      BY <2>3, <2>4 DEF UnderWay, Updates
    <2>7. [d \in Calls |-> Stage(d)]' = [[d \in Calls |-> Stage(d)] EXCEPT ![c] = "sent"]
      BY <1>3, <2>2
    <2>8. Remote!Request(c)
      BY <1>1, <2>2, <2>6, <2>7 DEF Remote!Request, Remote!Move
    <2> QED BY <1>2, <2>5, <2>8 DEF Remains, Remote!Next
  <1> QED BY <1>4, <1>5

(* What callers see of a call that has been told something.                *)
LEMMA ToldStage ==
  ASSUME NEW c \in Calls
  PROVE  /\ result[c] # "none" => Stage(c) = result[c]
         /\ result'[c] # "none" => Stage(c)' = result'[c]
  BY DEF Stage

(* A call that ends or is told how it went.                                *)
LEMMA FailedCalls ==
  ASSUME CallInv, NEW c \in Calls, TransmitFailed(c)
  PROVE  Told' /\ Requested' /\ Remains
  <1> USE DEF CallInv, SeqInv
  <1>1. /\ pc[c] = "gap" /\ pc'[c] = "done" /\ UNCHANGED <<querying, sent, executed>>
        /\ result'[c] = IF c \in querying THEN result[c] ELSE "failed"
    BY DEF TransmitFailed, Awake, Goto, SendTypeOK, netVars
  <1>2. Told'
    BY <1>1, ToldOne DEF Told, Progress
  <1>3. \A d \in Calls \ {c} : Stage(d)' = Stage(d)
    BY OtherCalls DEF Progress
  <1>4. CASE c \in querying
    <2>1. Stage(c) = "online" /\ Stage(c)' = "online"
      BY <1>1, <1>4, ToldStage DEF Told
    <2> QED BY <1>1, <1>2, <1>3, <2>1, SameUpdates, SameCalls
  <1>5. CASE c \notin querying
    <2>1. result[c] = "none" /\ Stage(c)' = "failed"
      BY <1>1, <1>5, ToldStage DEF Told
    <2>2. Stage(c) = "open"
      BY <1>1, <2>1 DEF Stage
    <2>3. Requested' /\ Remote!Move(c, "open", "failed") /\ UNCHANGED <<UnderWay, executed>>
      BY <1>1, <1>3, <2>1, <2>2, SameUpdates, OneMoves
    <2>4. Remote!Fail(c)
      BY <2>3 DEF Remote!Fail
    <2> QED BY <1>2, <2>3, <2>4 DEF Remains, Remote!Next
  <1> QED BY <1>4, <1>5

LEMMA ReturnedCalls ==
  ASSUME CallInv, NEW c \in Calls, Answered(c) \/ TimedOut(c)
  PROVE  Told' /\ Requested' /\ Remains
  <1> USE DEF CallInv, SeqInv
  <1>1. /\ pc[c] = "wait" /\ c \notin querying /\ result[c] = "none"
        /\ UNCHANGED <<sent, executed>>
    BY DEF Answered, TimedOut, Awake, netVars, TrueReplies, Told
  <1>2. /\ result'[c] \in {"online", "failed"}
        /\ result'[c] = "online" => c \in executed
        /\ \/ result'[c] = "online" /\ c \in querying' /\ pc'[c] = "gap"
           \/ c \notin querying' /\ pc'[c] = "done"
    BY <1>1 DEF Answered, TimedOut, Return, Goto, SendTypeOK, TrueReplies
  <1>3. Told'
    BY <1>2, ToldOne DEF Progress
  <1>4. \A d \in Calls \ {c} : Stage(d)' = Stage(d)
    BY OtherCalls DEF Progress
  <1>5. Stage(c) = "sent" /\ Stage(c)' = result'[c]
    <2>1. Stage(c) = "sent"
      BY <1>1 DEF Stage
    <2> QED BY <1>2, <2>1, ToldStage
  <1>6. /\ Requested' /\ Remote!Move(c, "sent", result'[c])
        /\ UNCHANGED <<UnderWay, executed>>
    BY <1>1, <1>2, <1>4, <1>5, SameUpdates, OneMoves
  <1>7. Remote!Succeed(c) \/ Remote!Fail(c)
    BY <1>2, <1>6 DEF Remote!Succeed, Remote!Fail
  <1> QED BY <1>3, <1>6, <1>7 DEF Remains, Remote!Next

(* The cloud carries out or refuses an update, or answers a query.         *)
LEMMA ServedCalls ==
  ASSUME CallInv, Served
  PROVE  Told' /\ Requested' /\ Remains
  <1> USE DEF CallInv, SeqInv
  <1>1. PICK m \in sent, value \in {"online", "error"} :
          /\ sent' = sent \ {m}
          /\ executed' = IF value = "online" /\ ~ m[3] THEN executed \cup {m[1]} ELSE executed
          /\ UNCHANGED callVars
    BY DEF Served
  <1>2. UNCHANGED <<pc, querying, result>>
    BY <1>1 DEF callVars
  <1>3. Told'
    BY <1>2 DEF Told
  <1>4. \A c \in Calls : Stage(c)' = Stage(c)
    BY <1>2 DEF Stage
  <1>5. CASE m[3]
    <2>1. Updates' = Updates /\ executed' = executed
      BY <1>1, <1>5 DEF Updates
    <2> QED BY <1>3, <1>4, <2>1, SameCalls
  <1>6. CASE ~ m[3]
    <2>1. m \in Updates /\ Updates' = Updates \ {m} /\ m[1] \in Calls
      BY <1>1, <1>6 DEF Updates, SendTypeOK
    <2>2. \A n \in Updates : n[1] \in Calls
      BY DEF Updates, SendTypeOK
    <2>3. Requested'
      BY <1>4, <2>1, <2>2 DEF Requested
    <2>4. m[1] \in UnderWay /\ UnderWay' = UnderWay \ {m[1]}
      BY <2>1 DEF UnderWay, Updates, Requested
    <2>5. [c \in Calls |-> Stage(c)]' = [c \in Calls |-> Stage(c)]
      BY <1>4
    <2>6. Remote!Serve(m[1])
      BY <1>1, <2>4, <2>5 DEF Remote!Serve
    <2> QED BY <1>3, <2>1, <2>3, <2>6 DEF Remains, Remote!Next
  <1> QED BY <1>5, <1>6

LEMMA CallNext ==
  ASSUME CallInv, [Next]_vars
  PROVE  CallInv' /\ Remains
<1>1. SeqInv'
  BY SeqNext DEF CallInv
<1>2. CASE \E c \in Calls : Asked(c) \/ UiAsked(c) \/ Progress(c)
  BY <1>1, <1>2, OpeningCalls, PoppedCalls, WaitingCalls, TransmitCalls, FailedCalls,
     ReturnedCalls DEF Progress, CallInv
<1>3. CASE Served
  BY <1>1, <1>3, ServedCalls DEF CallInv
<1>4. CASE Response \/ Tick \/ UNCHANGED vars
  <2>1. UNCHANGED <<pc, querying, result, sent, executed>>
    BY <1>4 DEF Response, Tick, vars, callVars, netVars
  <2>2. Told' /\ \A c \in Calls : Stage(c)' = Stage(c)
    BY <2>1 DEF CallInv, Told, Stage
  <2> QED BY <1>1, <2>1, <2>2, SameUpdates, SameCalls DEF CallInv
<1> QED BY <1>2, <1>3, <1>4 DEF Next

(* Every call through the cloud is a remote call, whatever wakes together, *)
(* is lost, late or refused: one request, carried out once at most, and    *)
(* "online" for no other (core/ewelink/__init__.py l.146-149, cloud.py     *)
(* l.261-286).                                                             *)
THEOREM CallsAreRemoteCalls == Spec => ImplementsRemoteCall
<1>1. Init => CallInv /\ Remote!Init
  BY CallInit
<1>2. CallInv /\ [Next]_vars => CallInv'
  BY CallNext
<1>3. CallInv /\ [Next]_vars => [Remote!Next]_(Remote!callVars)
  BY CallNext DEF Remains
<1> QED BY <1>1, <1>2, <1>3, PTL DEF Spec, ImplementsRemoteCall, Remote!Spec

=============================================================================

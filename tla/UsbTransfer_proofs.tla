--------------------------- MODULE UsbTransfer_proofs ---------------------------
(* Proofs about UsbTransfer, for any number of transfers at once.  The      *)
(* inductive invariant follows one context through its life: every state    *)
(* of the caller, the transfer and the context that can meet is listed.     *)
EXTENDS UsbTransfer, TLAPS

Shared(r) == ctx[r] = "live" /\ frees[r] = 0

(* No context yet, or none ever.                                           *)
Unborn(r) ==
  /\ \/ pc[r] = "idle" /\ reply[r] = "none"
     \/ pc[r] = "done" /\ reply[r] = "failed"
  /\ wire[r] = "none" /\ ~ given[r] /\ ~ abandoned[r]
  /\ ctx[r] = "none" /\ frees[r] = 0

(* The caller is still there.                                              *)
Waited(r) ==
  /\ pc[r] \in {"waiting", "late"} /\ reply[r] = "none"
  /\ Shared(r) /\ ~ abandoned[r]
  /\ \/ wire[r] \in {"flying", "completed", "giving"} /\ ~ given[r]
     \/ wire[r] = "over" /\ given[r] /\ result[r] # "timeout"

(* The caller took the semaphore and freed.                                *)
Served(r) ==
  /\ pc[r] = "done" /\ reply[r] # "timeout" /\ ~ abandoned[r]
  /\ wire[r] = "over" /\ given[r]
  /\ ctx[r] = "freed" /\ frees[r] = 1

(* The caller gave up.                                                     *)
Orphaned(r) ==
  /\ pc[r] = "done" /\ abandoned[r]
  /\ \/ Shared(r) /\ wire[r] \in {"flying", "completed"} /\ ~ given[r]
     \/ Shared(r) /\ wire[r] = "giving" /\ crossed[r] /\ ~ given[r]
     \/ Shared(r) /\ wire[r] = "over" /\ crossed[r] /\ given[r]
     \/ ctx[r] = "freed" /\ frees[r] = 1 /\ wire[r] = "over" /\ ~ given[r]

Life(r) == Unborn(r) \/ Waited(r) \/ Served(r) \/ Orphaned(r)

IInv == UsbTypeOK /\ \A r \in Requests : Life(r)

LEMMA InitInv == Init => IInv
  BY DEF Init, IInv, UsbTypeOK, Replies, Life, Unborn

(* What a step does to another transfer's state: nothing.                  *)
Untouched(r) ==
  /\ pc'[r] = pc[r] /\ reply'[r] = reply[r] /\ wire'[r] = wire[r]
  /\ given'[r] = given[r] /\ result'[r] = result[r]
  /\ abandoned'[r] = abandoned[r] /\ ctx'[r] = ctx[r]
  /\ frees'[r] = frees[r] /\ crossed'[r] = crossed[r]

LEMMA UntouchedLife ==
  ASSUME NEW r \in Requests, Life(r), Untouched(r)
  PROVE  Life(r)'
  BY DEF Untouched, Life, Unborn, Waited, Served, Orphaned, Shared

Steps(r) == Refused(r) \/ Submitted(r) \/ Caller(r) \/ Completed(r) \/ ClientTask(r)

LEMMA StepTypes ==
  ASSUME IInv, NEW r \in Requests, Steps(r)
  PROVE  UsbTypeOK'
  <1> USE DEF IInv, UsbTypeOK, Replies
  <1>1. CASE Refused(r)
    BY <1>1 DEF Refused, Return
  <1>2. CASE Submitted(r)
    BY <1>2 DEF Submitted
  <1>3. CASE Taken(r)
    <2>1. result[r] # "timeout"
      BY <1>3 DEF Taken, Life, Unborn, Waited, Served, Orphaned
    <2> QED BY <1>3, <2>1 DEF Taken, Return, Free
  <1>4. CASE GaveUp(r)
    BY <1>4 DEF GaveUp
  <1>5. CASE Abandoned(r)
    BY <1>5 DEF Abandoned, Return
  <1>6. CASE Completed(r)
    BY <1>6 DEF Completed
  <1>7. CASE Callback(r)
    BY <1>7 DEF Callback, Free
  <1>8. CASE Gives(r)
    BY <1>8 DEF Gives
  <1> QED
    BY <1>1, <1>2, <1>3, <1>4, <1>5, <1>6, <1>7, <1>8 DEF Steps, Caller, ClientTask

(* The transfer that takes a step stays in one of the listed states.       *)
LEMMA OwnLife ==
  ASSUME IInv, NEW r \in Requests, Steps(r)
  PROVE  Life(r)'
  <1> USE DEF IInv, UsbTypeOK, Life, Unborn, Waited, Served, Orphaned, Shared
  <1>1. CASE Refused(r)
    BY <1>1 DEF Refused, Return
  <1>2. CASE Submitted(r)
    BY <1>2 DEF Submitted
  <1>3. CASE Taken(r)
    BY <1>3 DEF Taken, Return, Free
  <1>4. CASE GaveUp(r)
    BY <1>4 DEF GaveUp
  <1>5. CASE Abandoned(r)
    BY <1>5 DEF Abandoned, Return
  <1>6. CASE Completed(r)
    BY <1>6 DEF Completed
  <1>7. CASE Callback(r)
    BY <1>7 DEF Callback, Free
  <1>8. CASE Gives(r)
    BY <1>8 DEF Gives
  <1> QED
    BY <1>1, <1>2, <1>3, <1>4, <1>5, <1>6, <1>7, <1>8 DEF Steps, Caller, ClientTask

LEMMA OthersUntouched ==
  ASSUME UsbTypeOK, NEW r \in Requests, Steps(r), NEW q \in Requests, q # r
  PROVE  Untouched(q)
  BY DEF Steps, Caller, ClientTask, Refused, Submitted, Taken, GaveUp, Abandoned,
         Completed, Callback, Gives, Return, Free, Untouched, UsbTypeOK

LEMMA NextInv == IInv /\ [Next]_vars => IInv'
  <1> SUFFICES ASSUME IInv, [Next]_vars PROVE IInv'
    OBVIOUS
  <1>1. ASSUME NEW r \in Requests, Steps(r) PROVE IInv'
    <2>1. UsbTypeOK'
      BY <1>1, StepTypes
    <2>2. ASSUME NEW q \in Requests PROVE Life(q)'
      <3>1. CASE q = r
        BY <1>1, <3>1, OwnLife
      <3>2. CASE q # r
        BY <1>1, <3>2, OthersUntouched, UntouchedLife DEF IInv
      <3> QED BY <3>1, <3>2
    <2> QED BY <2>1, <2>2 DEF IInv
  <1>2. CASE UNCHANGED vars
    BY <1>2 DEF vars, IInv, UsbTypeOK, Life, Unborn, Waited, Served, Orphaned, Shared
  <1> QED BY <1>1, <1>2 DEF Next, Steps

LEMMA Invariance == Spec => []IInv
  BY InitInv, NextInv, PTL DEF Spec

(* Types, and a caller that took the semaphore has a result.               *)
THEOREM TransferTypeCorrect == Spec => []UsbTypeOK
  <1>1. IInv => UsbTypeOK
    BY DEF IInv
  <1> QED BY <1>1, Invariance, PTL

(* Neither side ever touches a context that has been freed, nor frees it   *)
(* again.                                                                  *)
THEOREM ContextsAreSafe == Spec => []NoUseAfterFree
  <1>1. ASSUME IInv, NEW r \in Requests PROVE frees[r] <= 1
    <2>1. frees[r] \in {0, 1}
      BY <1>1 DEF IInv, Life, Unborn, Waited, Served, Orphaned, Shared
    <2>2. \A n \in {0, 1} : n <= 1
      BY SMT
    <2> QED BY <2>1, <2>2, Zenon
  <1>2. ASSUME IInv, NEW r \in Requests,
               \/ pc[r] \in {"waiting", "late"}
               \/ wire[r] \in {"flying", "completed", "giving"}
        PROVE  ctx[r] = "live"
    BY <1>2 DEF IInv, Life, Unborn, Waited, Served, Orphaned, Shared
  <1>3. IInv => NoUseAfterFree
    BY <1>1, <1>2, Zenon DEF NoUseAfterFree
  <1> QED BY <1>3, Invariance, PTL

(* A context leaks only if the callback looked before the caller gave up.  *)
THEOREM LeakNeedsCrossing == Spec => []LeaksOnlyCrossed
  <1>1. IInv => LeaksOnlyCrossed
    BY DEF IInv, LeaksOnlyCrossed, Over, Life, Unborn, Waited, Served, Orphaned, Shared
  <1> QED BY <1>1, Invariance, PTL

=============================================================================

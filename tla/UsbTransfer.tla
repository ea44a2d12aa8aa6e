------------------------------ MODULE UsbTransfer ------------------------------
(***************************************************************************)
(* HID transfers to the UPS: hid_get_report, hid_set_report,               *)
(* hid_interrupt_read and get_string_descriptor of                         *)
(* esphome/custom_components/ups_hid/transport_esp32.cpp, which wrap an    *)
(* asynchronous USB transfer in a semaphore with a timeout.                *)
(*                                                                         *)
(* The caller (the main loop or the task of the NUT server) and the        *)
(* callback (the USB client task, one callback at a time) share a context  *)
(* on the heap.  The caller frees it when it has taken the semaphore; a    *)
(* caller that gives up sets abandoned and leaves it to the callback.      *)
(* Every access to the shared context is a step of its own.                *)
(***************************************************************************)
EXTENDS Naturals

CONSTANT Requests  \* calls of the four functions, in any thread

VARIABLES
  pc,         \* where the caller is
  reply,      \* what the call has returned
  wire,       \* where the transfer is, callback included
  given,      \* the semaphore has been given
  result,     \* ctx->result
  abandoned,  \* ctx->abandoned
  ctx,        \* the context, with its semaphore and its transfer
  frees,      \* how often it has been freed
  crossed     \* the callback had looked at abandoned before it was stored

vars == <<pc, reply, wire, given, result, abandoned, ctx, frees, crossed>>

Replies == {"none", "ok", "failed", "timeout"}

UsbTypeOK ==
  /\ pc \in [Requests -> {"idle", "waiting", "late", "done"}]
  /\ reply \in [Requests -> Replies]
  /\ wire \in [Requests -> {"none", "flying", "completed", "giving", "over"}]
  /\ given \in [Requests -> BOOLEAN]
  /\ result \in [Requests -> {"timeout", "ok", "failed"}]
  /\ abandoned \in [Requests -> BOOLEAN]
  /\ ctx \in [Requests -> {"none", "live", "freed"}]
  /\ frees \in [Requests -> Nat]
  /\ crossed \in [Requests -> BOOLEAN]
  /\ \A r \in Requests : reply[r] = "timeout" => abandoned[r]

Init ==
  /\ pc = [r \in Requests |-> "idle"]
  /\ reply = [r \in Requests |-> "none"]
  /\ wire = [r \in Requests |-> "none"]
  /\ given = [r \in Requests |-> FALSE]
  /\ result = [r \in Requests |-> "timeout"]
  /\ abandoned = [r \in Requests |-> FALSE]
  /\ ctx = [r \in Requests |-> "none"]
  /\ frees = [r \in Requests |-> 0]
  /\ crossed = [r \in Requests |-> FALSE]

Free(r) ==
  /\ ctx' = [ctx EXCEPT ![r] = "freed"]
  /\ frees' = [frees EXCEPT ![r] = @ + 1]

Return(r, value) ==
  /\ pc' = [pc EXCEPT ![r] = "done"]
  /\ reply' = [reply EXCEPT ![r] = value]

-----------------------------------------------------------------------------
(* The caller.                                                             *)

(* No device, no memory, or the transfer is refused: all is freed at once. *)
Refused(r) ==
  /\ pc[r] = "idle"
  /\ Return(r, "failed")
  /\ UNCHANGED <<wire, given, result, abandoned, ctx, frees, crossed>>

Submitted(r) ==
  /\ pc[r] = "idle"
  /\ pc' = [pc EXCEPT ![r] = "waiting"]
  /\ wire' = [wire EXCEPT ![r] = "flying"]
  /\ ctx' = [ctx EXCEPT ![r] = "live"]
  /\ UNCHANGED <<reply, given, result, abandoned, frees, crossed>>

Taken(r) ==
  /\ pc[r] = "waiting" /\ given[r]
  /\ Return(r, result[r])
  /\ Free(r)
  /\ UNCHANGED <<wire, given, result, abandoned, crossed>>

(* Fault: the caller waits for ever.                                       *)
GaveUpNever(r) ==
  /\ pc[r] = "waiting" /\ ~ given[r]
  /\ UNCHANGED vars

(* xSemaphoreTake has returned pdFALSE; abandoned is not stored yet.       *)
GaveUp(r) ==
  /\ pc[r] = "waiting" /\ ~ given[r]
  /\ pc' = [pc EXCEPT ![r] = "late"]
  /\ UNCHANGED <<reply, wire, given, result, abandoned, ctx, frees, crossed>>

(* Fault: the caller frees what it abandons (the original implementation). *)
AbandonedAndFreed(r) ==
  /\ pc[r] = "late"
  /\ abandoned' = [abandoned EXCEPT ![r] = TRUE]
  /\ crossed' = [crossed EXCEPT ![r] = wire[r] \in {"giving", "over"}]
  /\ Return(r, "timeout")
  /\ Free(r)
  /\ UNCHANGED <<wire, given, result>>

Abandoned(r) ==
  /\ pc[r] = "late"
  /\ abandoned' = [abandoned EXCEPT ![r] = TRUE]
  /\ crossed' = [crossed EXCEPT ![r] = wire[r] \in {"giving", "over"}]
  /\ Return(r, "timeout")
  /\ UNCHANGED <<wire, given, result, ctx, frees>>

-----------------------------------------------------------------------------
(* The bus and the callback.                                               *)

Completed(r) ==
  /\ wire[r] = "flying"
  /\ wire' = [wire EXCEPT ![r] = "completed"]
  /\ UNCHANGED <<pc, reply, given, result, abandoned, ctx, frees, crossed>>

(* Fault: the callback does not look whether the caller is still there.    *)
CallbackBlind(r) ==
  /\ wire[r] = "completed" /\ \A q \in Requests : wire[q] # "giving"
  /\ wire' = [wire EXCEPT ![r] = "giving"]
  /\ UNCHANGED <<pc, reply, given, result, abandoned, ctx, frees, crossed>>

(* c->abandoned.load(): the callback frees, or goes on to give.            *)
Callback(r) ==
  /\ wire[r] = "completed" /\ \A q \in Requests : wire[q] # "giving"
  /\ IF abandoned[r]
       THEN Free(r) /\ wire' = [wire EXCEPT ![r] = "over"]
       ELSE wire' = [wire EXCEPT ![r] = "giving"] /\ UNCHANGED <<ctx, frees>>
  /\ UNCHANGED <<pc, reply, given, result, abandoned, crossed>>

Gives(r) ==
  /\ wire[r] = "giving"
  /\ \E status \in {"ok", "failed"} : result' = [result EXCEPT ![r] = status]
  /\ given' = [given EXCEPT ![r] = TRUE]
  /\ wire' = [wire EXCEPT ![r] = "over"]
  /\ UNCHANGED <<pc, reply, abandoned, ctx, frees, crossed>>

-----------------------------------------------------------------------------

Caller(r) == Taken(r) \/ GaveUp(r) \/ Abandoned(r)

ClientTask(r) == Callback(r) \/ Gives(r)

Next ==
  \E r \in Requests :
    Refused(r) \/ Submitted(r) \/ Caller(r) \/ Completed(r) \/ ClientTask(r)

Spec == Init /\ [][Next]_vars

(* Both tasks run and the wait has a timeout; a transfer need not complete.*)
Fairness == \A r \in Requests : WF_vars(Caller(r)) /\ WF_vars(ClientTask(r))

FairSpec == Spec /\ Fairness

-----------------------------------------------------------------------------
(* Properties.                                                             *)

(* Whoever will still touch the context finds it alive, however late the   *)
(* transfer completes (l.31-40: what the original implementation broke),   *)
(* and the two sides never both free it (l.42-43: "never both").           *)
NoUseAfterFree ==
  \A r \in Requests :
    /\ frees[r] <= 1
    /\ pc[r] \in {"waiting", "late"} => ctx[r] = "live"
    /\ wire[r] \in {"flying", "completed", "giving"} => ctx[r] = "live"

Over(r) == pc[r] = "done" /\ wire[r] = "over"

(* When both sides are through, a context is left over only if the         *)
(* callback had looked just before the caller gave up: a transfer that     *)
(* completes later is always cleaned up (l.44-46).                         *)
LeaksOnlyCrossed ==
  \A r \in Requests : Over(r) /\ ctx[r] = "live" => crossed[r]

(* A caller always gets away, whatever the device does: the main loop and  *)
(* the NUT server wait here (l.204, l.297, l.373).                         *)
CallsReturn == \A r \in Requests : pc[r] = "waiting" ~> pc[r] = "done"

(* The comment's claim: when both sides are through, one has freed.        *)
NeverNeither == \A r \in Requests : Over(r) => ctx[r] # "live"

=============================================================================

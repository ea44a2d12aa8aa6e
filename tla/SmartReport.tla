------------------------------ MODULE SmartReport ------------------------------
(***************************************************************************)
(* The notifier of custom_components/yandex_smart_home (notifier.py): it   *)
(* collects changed states, and once its timer fires sends them to Yandex  *)
(* in one POST, whose task nobody waits for and nobody repeats.            *)
(*                                                                         *)
(* One state of one device is followed.  What it is decides when it is     *)
(* reported: a capability on a change and at the start, a float property   *)
(* also every hour, an event only on a change.  Everything a notifier does *)
(* between two awaits that suspend is one step; its lock never suspends,   *)
(* because nobody awaits while holding it.  Every load of the entry has a  *)
(* notifier of its own; SmartHome loads and unloads.                       *)
(***************************************************************************)
EXTENDS Naturals, Sequences, SequencesExt

CONSTANTS
  Loads,     \* the entry is loaded so often at most
  Values,    \* what the state can be
  InFlight   \* so many POSTs at once at most

ASSUME ReportAssumption ==
  /\ Loads \in Nat \ {0} /\ InFlight \in Nat \ {0}
  /\ Values \cap {"gone", "none"} = {}

VARIABLES
  kind,      \* what the followed state is
  actual,    \* its value in Home Assistant, "gone" when unavailable
  run,       \* the notifier of a load
  first,     \* its initial report is still to come
  report,    \* _unsub_report_states, the timer of the next report
  pend,      \* _pending, the value to report
  posts,     \* the POSTs that have not ended, in the order they were sent
  known,     \* the value Yandex has
  net,       \* POSTs arrive
  lost,      \* the newest POST has failed, or an older one came after it
  missed     \* no POST was due for the actual value

reportVars == <<kind, actual, run, first, report, pend, posts, known, net, lost, missed>>

Generations == 1 .. Loads

Kinds == {"capability", "float", "event"}

Anything == Values \cup {"gone"}

Posts == [value : Values, latest : BOOLEAN]

ReportTypeOK ==
  /\ kind \in Kinds \cup {"none"} /\ actual \in Anything
  /\ run \in [Generations -> {"none", "listening", "running", "over"}]
  /\ first \in [Generations -> BOOLEAN]
  /\ report \in [Generations -> {"none", "armed"}]
  /\ pend \in [Generations -> Anything \cup {"none"}]
  /\ posts \in Seq(Posts) /\ Len(posts) <= InFlight
  /\ known \in Anything /\ net \in BOOLEAN
  /\ lost \in BOOLEAN /\ missed \in BOOLEAN

ReportInit ==
  /\ actual = "gone" /\ known = "gone"
  /\ run = [g \in Generations |-> "none"]
  /\ first = [g \in Generations |-> FALSE]
  /\ report = [g \in Generations |-> "none"]
  /\ pend = [g \in Generations |-> "none"]
  /\ posts = <<>> /\ net = TRUE
  /\ lost = FALSE /\ missed = TRUE

-----------------------------------------------------------------------------

(* Fault: nothing differs from a value that was not there.                 *)
DiffersFromValue(old, new) == new # "gone" /\ new # old /\ old # "gone"

(* check_value_change, for a state that was there before.                  *)
Differs(old, new) ==
  /\ new # "gone" /\ new # old
  /\ kind = "event" => old # "gone"

(* _schedule_report_states, of the notifiers that want to report.          *)
Schedule(wanted) ==
  report' = [g \in Generations |->
    IF g \in wanted /\ pend'[g] # "none" /\ report[g] = "none" THEN "armed" ELSE report[g]]

Running == {g \in Generations : run[g] = "running"}

(* _async_state_changed, of every notifier that listens.                   *)
Change(new) ==
  LET told == IF Differs(actual, new) THEN Running ELSE {} IN
    /\ kind # "none" /\ new # actual
    /\ actual' = new
    /\ pend' = [g \in Generations |-> IF g \in told THEN new ELSE pend[g]]
    /\ Schedule(Running)
    /\ missed' = IF new = "gone" THEN missed ELSE told = {}
    /\ UNCHANGED <<kind, run, first, posts, known, net, lost>>

(* Every state that is reported at the start, or every hour, whatever it   *)
(* was.                                                                    *)
Collect(g, kinds) ==
  /\ pend' = IF kind \in kinds THEN [pend EXCEPT ![g] = actual] ELSE pend
  /\ missed' = (missed /\ ~ (kind \in kinds /\ actual # "gone"))
  /\ Schedule({g})

InitialReport(g) ==
  /\ run[g] = "running" /\ first[g]
  /\ first' = [first EXCEPT ![g] = FALSE]
  /\ Collect(g, {"capability", "float"})
  /\ UNCHANGED <<kind, actual, run, posts, known, net, lost>>

(* Fault: a float is reported on changes only.                             *)
HeartbeatSilent(g) ==
  /\ run[g] = "running" /\ ~ first[g]
  /\ Collect(g, {})
  /\ UNCHANGED <<kind, actual, run, first, posts, known, net, lost>>

Heartbeat(g) ==
  /\ run[g] = "running" /\ ~ first[g]
  /\ Collect(g, {"float"})
  /\ UNCHANGED <<kind, actual, run, first, posts, known, net, lost>>

Aged == [i \in 1 .. Len(posts) |-> [posts[i] EXCEPT !.latest = FALSE]]

(* _async_report_states: a value that is not there is left out.            *)
ReportStates(g) ==
  /\ report[g] = "armed"
  /\ IF pend[g] \in Values
     THEN /\ Len(posts) < InFlight
          /\ posts' = Append(Aged, [value |-> pend[g], latest |-> TRUE])
          /\ lost' = FALSE
     ELSE UNCHANGED <<posts, lost>>
  /\ pend' = [pend EXCEPT ![g] = "none"]
  /\ report' = [report EXCEPT ![g] = "none"]
  /\ UNCHANGED <<kind, actual, run, first, known, net, missed>>

(* What happens to the newest value when the i-th POST ends as it does.    *)
Superseded(i) == ~ posts[i].latest /\ \A j \in DOMAIN posts : ~ posts[j].latest

(* _async_send_request ends.                                               *)
PostArrived(i) ==
  /\ known' = posts[i].value
  /\ lost' = (lost \/ Superseded(i))
  /\ posts' = RemoveAt(posts, i)
  /\ UNCHANGED <<kind, actual, run, first, report, pend, net, missed>>

(* Whether Yandex has seen a POST that timed out is not known.             *)
PostFailed(i) ==
  /\ ~ net
  /\ known' \in {known, posts[i].value}
  /\ lost' = (lost \/ posts[i].latest \/ Superseded(i))
  /\ posts' = RemoveAt(posts, i)
  /\ UNCHANGED <<kind, actual, run, first, report, pend, net, missed>>

NetChanged ==
  /\ kind # "none" /\ net' = ~ net
  /\ UNCHANGED <<kind, actual, run, first, report, pend, posts, known, lost, missed>>

-----------------------------------------------------------------------------

(* async_unload of the notifier; one that is still to be set up is not     *)
(* known to the entry yet.                                                 *)
NotifierUnload(g) ==
  /\ run' = [run EXCEPT ![g] = IF @ = "listening" THEN @ ELSE "over"]
  /\ first' = [first EXCEPT ![g] = FALSE]
  /\ report' = [report EXCEPT ![g] = "none"]
  /\ pend' = [pend EXCEPT ![g] = "none"]
  /\ missed' = (missed \/ pend[g] # "none")
  /\ UNCHANGED <<kind, actual, posts, known, net, lost>>

Timers(g) == InitialReport(g) \/ ReportStates(g)

ReportStep ==
  \/ \E new \in Anything : Change(new)
  \/ \E g \in Generations : Timers(g) \/ Heartbeat(g)
  \/ \E i \in 1 .. Len(posts) : PostArrived(i) \/ PostFailed(i)
  \/ NetChanged

PostEnds == \E i \in 1 .. Len(posts) : PostArrived(i) \/ PostFailed(i)

=============================================================================

----------------------------- MODULE ValveActuator -----------------------------
(***************************************************************************)
(* What node B promises to those who use only its two buttons: a timed     *)
(* actuator that accepts a command when it is idle, ignores every other    *)
(* one, drives for RunTime ticks in the commanded direction and then, and  *)
(* only then, reports the new position.  A restart may make it drive the   *)
(* same movement once more from the start.                                 *)
(***************************************************************************)
EXTENDS Integers

CONSTANT RunTime

VARIABLES
  mode,      \* "idle", or the direction of the movement
  left,      \* remaining time of the movement
  reported   \* the last reported position, TRUE = open

actuatorVars == <<mode, left, reported>>

Init ==
  /\ mode = "idle"
  /\ left = 0
  /\ reported \in BOOLEAN

Begin(d) ==
  /\ mode = "idle"
  /\ mode' = d
  /\ left' = RunTime
  /\ UNCHANGED reported

Drive ==
  /\ left > 0
  /\ left' = left - 1
  /\ UNCHANGED <<mode, reported>>

Finish ==
  /\ mode # "idle"
  /\ left = 0
  /\ mode' = "idle"
  /\ reported' = (mode = "open")
  /\ UNCHANGED left

DriveAgain ==
  /\ mode # "idle"
  /\ left' = RunTime
  /\ UNCHANGED <<mode, reported>>

Next ==
  \/ \E d \in {"close", "open"} : Begin(d)
  \/ Drive
  \/ Finish
  \/ DriveAgain

Spec == Init /\ [][Next]_actuatorVars

=============================================================================

----------------------------- MODULE MCSonoffSend -----------------------------
(* Small instances of SonoffSend for TLC: three calls of send_bulk for a   *)
(* device with two switches, which meet in params_bulk; and one with two   *)
(* uiActive, which compete for the distances between messages.             *)
EXTENDS SonoffSend

CONSTANTS b1, b2, b3, u1, u2, o1, o2

ThreeBulkCalls == {b1, b2, b3}
TwoUiCalls == {u1, u2}
BulkOrMixed == {{b1, b2, b3}, {b1, u1, u2}}
TwoOutlets == {o1, o2}
OnOff == {"on", "off"}

(* The first call asks for one switch, a later one takes it back or asks   *)
(* for the other.                                                          *)
FirstAndLater == [c \in BulkCalls |->
  IF c = b1 THEN {<<o1, "on">>} ELSE {<<o1, "off">>, <<o2, "on">>}]

=============================================================================

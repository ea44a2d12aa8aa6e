------------------------------ MODULE MCSmartHome ------------------------------
(* A small instance of SmartHome for TLC: an entry of the cloud without a  *)
(* state that changes, and an entry that is called directly with a state   *)
(* of every kind.                                                          *)
EXTENDS SmartHome

CloudOrReports ==
  {[cloud |-> TRUE, kind |-> "none", loads |-> 3]}
    \cup [cloud : {FALSE}, kind : Kinds, loads : {2}]

ThreeLoads == 1 .. 3

OnOff == {"on", "off"}

=============================================================================
